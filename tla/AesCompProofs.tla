---------------------------- MODULE AesCompProofs ----------------------------
(***************************************************************************)
(* Proofs about AesComp.  Whatever the sizes: type correctness; that a     *)
(* call which found the socket quiet, and a compartment whose client has   *)
(* gone, neither stick nor go round in circles, save for two loops.  When  *)
(* every buffer fits in one segment of the socket: that requests keep      *)
(* their framing, that calls return what the native library returns, that  *)
(* every call is such a call, and that the two processes implement AesApi  *)
(* and what AesStartup has of them.                                        *)
(***************************************************************************)
EXTENDS AesComp, SequenceTheorems, TLAPS

-----------------------------------------------------------------------------
(***************************************************************************)
(* The inductive invariant, for buffers the kernel queues at once: the     *)
(* phase of the request, jointly told by both program counters and both    *)
(* queues.  A request is Unread, its buffer is Loading, it is Loaded, then *)
(* Answered in the compartment's memory, HalfReplied and Replied; while    *)
(* the client is still in its second write (of an empty buffer) the        *)
(* compartment may already be past it.                                     *)
(***************************************************************************)
IsRequest(c, m) ==
  /\ m.type = c.type /\ m.key = c.key /\ m.iv = c.iv /\ m.mode = c.mode
  /\ m.buflen = Len(c.buf)
  /\ m.type \in {"SET_IV", "CRYPT"} => m.ctx = c.ctx
  /\ m.type # "CRYPT" => c.buf = <<>>

IsResult(c, x) ==
  /\ x.RoundKey = NativeCtx(c).RoundKey
  /\ c.type # "INIT" => x = NativeCtx(c)

\* A stream that holds the header of a reply to c, or the whole reply.
ReplyHeader(c, q) == \E m \in Msg : IsResult(c, m.ctx) /\ q = <<Hdr(m)>>
WholeReply(c, q) == \E m \in Msg : IsResult(c, m.ctx) /\ q = <<Hdr(m)>> \o Raw(NativeBuf(c))

ClientPart ==
  /\ cli = "idle" => buf = <<>> /\ call = NoCall
  /\ InCall => call \in Call
  /\ cli \in {"writeMsg", "writeBuf", "readMsg"} =>
       IsRequest(call, cmsg) /\ ctx = call.ctx /\ buf = call.buf
  /\ cli \in {"writeBuf", "readBuf"} => call.type = "CRYPT" /\ buf = call.buf
  /\ cli = "writeBuf" => csent = 0
  /\ cli \in {"readBuf", "done"} /\ sEnd = "open" => IsResult(call, ctx)
  /\ cli = "done" /\ sEnd = "open" => buf = NativeBuf(call)

BufferSent == IF cli = "readMsg" THEN Raw(buf) ELSE <<>>

Unread == srv = "readMsg" /\ c2s = <<Hdr(cmsg)>> \o BufferSent /\ s2c = <<>>
Loading ==
  /\ srv = "readBuf" /\ smsg = cmsg /\ left = Len(buf) /\ left > 0 /\ Len(sbuf) = left
  /\ c2s = BufferSent /\ s2c = <<>>
Loaded ==
  /\ srv = "crypt" /\ smsg = cmsg /\ smsg.type = "CRYPT" /\ sbuf = buf
  /\ c2s = <<>> /\ s2c = <<>>
Answered ==
  /\ srv = "writeMsg" /\ smsg.type = call.type /\ IsResult(call, smsg.ctx)
  /\ call.type = "CRYPT" => sbuf = NativeBuf(call)
  /\ c2s = <<>> /\ s2c = <<>>
HalfReplied ==
  /\ srv = "writeBuf" /\ call.type = "CRYPT" /\ sbuf = NativeBuf(call) /\ ssent = 0 /\ sbuf # <<>>
  /\ left = Len(sbuf) /\ c2s = <<>> /\ ReplyHeader(call, s2c)
Replied == srv = "readMsg" /\ c2s = <<>> /\ WholeReply(call, s2c)
Ahead == Loaded \/ Answered \/ HalfReplied \/ Replied

BothUp ==
  /\ cli \in {"idle", "writeMsg", "done"} => srv = "readMsg" /\ c2s = <<>> /\ s2c = <<>>
  /\ cli = "writeBuf" => Unread \/ Loading \/ (buf = <<>> /\ Ahead)
  /\ cli = "readMsg" => Unread \/ Loading \/ Ahead
  /\ cli = "readBuf" =>
       /\ c2s = <<>>
       /\ \/ /\ srv = "writeBuf" /\ s2c = <<>>
             /\ sbuf = NativeBuf(call) /\ ssent = 0 /\ sbuf # <<>> /\ left = Len(sbuf)
          \/ srv = "readMsg" /\ s2c = Raw(NativeBuf(call))

\* What a client that has gone may have left for the compartment.
ClientGonePart ==
  /\ srv = "readMsg" =>
       \/ c2s = <<>>
       \/ \E m \in Msg, d \in Buffer :
            /\ c2s = <<Hdr(m)>> \o Raw(d)
            /\ d # <<>> => m.type = "CRYPT" /\ Len(d) = m.buflen
  /\ srv = "readBuf" =>
       /\ left = smsg.buflen /\ left > 0 /\ Len(sbuf) = left
       /\ \E d \in Buffer : c2s = Raw(d) /\ (d # <<>> => Len(d) = left)
  /\ srv \in {"crypt", "writeMsg", "writeBuf"} => c2s = <<>>

\* What a compartment that has gone may have left for the client.
ServerGonePart ==
  /\ cli \in {"idle", "writeMsg", "done"} => s2c = <<>>
  /\ cli \in {"writeBuf", "readMsg"} =>
       \/ s2c = <<>>
       \/ ReplyHeader(call, s2c)
       \/ WholeReply(call, s2c)
  /\ cli = "readBuf" =>
       \/ s2c = <<>> /\ ctx \in {call.ctx, NativeCtx(call)}
       \/ s2c = Raw(NativeBuf(call)) /\ ctx = NativeCtx(call)

Coupling ==
  /\ ClientPart
  /\ ClientGone <=> cEnd # "open"
  /\ ServerGone <=> sEnd # "open"
  /\ ~ClientGone /\ ~ServerGone => BothUp
  /\ ClientGone /\ ~ServerGone => ClientGonePart
  /\ ServerGone /\ ~ClientGone => ServerGonePart
  /\ ServerGone => c2s = <<>>
  /\ ClientGone => s2c = <<>>
-----------------------------------------------------------------------------
(***************************************************************************)
(* Buffers and streams as sequences.                                       *)
(***************************************************************************)
\* A buffer is a sequence of bytes no longer than MaxLen.
LEMMA BufferSeq ==
  \A d : d \in Buffer <=> d \in Seq(Byte) /\ Len(d) \in 0..MaxLen
<1> USE DataAssumption
<1>1. ASSUME NEW d \in Buffer
      PROVE  d \in Seq(Byte) /\ Len(d) \in 0..MaxLen
  <2>1. PICK n \in 0..MaxLen : d \in [1..n -> Byte]
    BY DEF Buffer
  <2>2. d \in Seq(Byte)
    BY <2>1, SeqDef
  <2>3. Len(d) = n
    BY <2>1, <2>2, LenProperties
  <2> QED  BY <2>2, <2>3
<1>2. ASSUME NEW d \in Seq(Byte), Len(d) \in 0..MaxLen
      PROVE  d \in Buffer
  BY <1>2, LenProperties DEF Buffer
<1> QED  BY <1>1, <1>2

\* The empty buffer is a buffer.
LEMMA EmptyBuffer == <<>> \in Buffer
<1>1. <<>> \in Seq(Byte) /\ Len(<<>>) = 0
  BY EmptySeq
<1>2. 0 \in 0..MaxLen
  BY DataAssumption
<1> QED  BY <1>1, <1>2, BufferSeq

\* A context taken apart and put together.
LEMMA CtxFields ==
  /\ AnyCtx \in Ctx /\ AnyKey \in Key /\ AnyIv \in Iv
  /\ \A c, d \in Ctx : c.RoundKey = d.RoundKey /\ c.Iv = d.Iv => c = d
<1>1. Ctx # {}
  <2>1. PICK k \in RoundKey, i \in Iv : TRUE
    BY DataAssumption
  <2>2. [RoundKey |-> k, Iv |-> i] \in Ctx
    BY <2>1 DEF Ctx
  <2> QED  BY <2>2
<1>2. AnyCtx \in Ctx /\ AnyKey \in Key /\ AnyIv \in Iv
  BY <1>1, DataAssumption DEF AnyCtx, AnyKey, AnyIv
<1>3. \A c, d \in Ctx : c.RoundKey = d.RoundKey /\ c.Iv = d.Iv => c = d
  BY DEF Ctx
<1> QED  BY <1>2, <1>3

\* The library takes buffers to buffers of the same length and contexts to
\* contexts.
LEMMA CryptType ==
  ASSUME NEW m \in Mode, NEW c \in Ctx, NEW d \in Buffer
  PROVE  /\ CryptBuf(m, c, d) \in Buffer
         /\ Len(CryptBuf(m, c, d)) = Len(d)
         /\ CryptCtx(m, c, d) \in Ctx
<1>1. CryptBuf(m, c, d) \in [1..Len(d) -> Byte] /\ CryptIv(m, c, d) \in Iv
  BY LibraryAssumption
<1>2. Len(d) \in 0..MaxLen
  BY BufferSeq
<1>3. CryptBuf(m, c, d) \in Seq(Byte)
  BY <1>1, <1>2, SeqDef, DataAssumption
<1>4. Len(CryptBuf(m, c, d)) = Len(d)
  BY <1>1, <1>2, <1>3, LenProperties, DataAssumption
<1>5. CryptBuf(m, c, d) \in Buffer
  BY <1>2, <1>3, <1>4, BufferSeq
<1>6. CryptCtx(m, c, d) \in Ctx
  BY <1>1 DEF CryptCtx, Ctx
<1> QED  BY <1>4, <1>5, <1>6

\* What a native call returns is a context and a buffer.
LEMMA NativeType ==
  ASSUME NEW c \in Call
  PROVE  NativeCtx(c) \in Ctx /\ NativeBuf(c) \in Buffer
         /\ Len(NativeBuf(c)) = Len(c.buf)
<1>1. c.type = "CRYPT" => CryptCtx(c.mode, c.ctx, c.buf) \in Ctx
                          /\ CryptBuf(c.mode, c.ctx, c.buf) \in Buffer
                          /\ Len(CryptBuf(c.mode, c.ctx, c.buf)) = Len(c.buf)
  BY CryptType DEF Call
<1>2. NativeCtx(c) \in Ctx
  BY <1>1, LibraryAssumption DEF NativeCtx, Call, CallType, Ctx, InitCtx, InitCtxIv, SetIv
<1>3. NativeBuf(c) \in Buffer /\ Len(NativeBuf(c)) = Len(c.buf)
  BY <1>1 DEF NativeBuf, Call
<1> QED  BY <1>2, <1>3

\* A buffer put on the socket keeps its length and its bytes.
LEMMA RawSeq ==
  ASSUME NEW d \in Seq(Byte)
  PROVE  /\ Raw(d) \in Seq(Element) /\ Len(Raw(d)) = Len(d)
         /\ \A i \in 1..Len(d) : Raw(d)[i].kind = "byte" /\ Raw(d)[i].byte = d[i]
<1>1. Len(d) \in Nat /\ \A i \in 1..Len(d) : d[i] \in Byte
  BY ElementOfSeq, LenProperties
<1>2. Raw(d) \in [1..Len(d) -> Element]
  BY <1>1 DEF Raw, Element
<1>3. Raw(d) \in Seq(Element)
  BY <1>1, <1>2, SeqDef
<1>4. Len(Raw(d)) = Len(d)
  BY <1>1, <1>2, <1>3, LenProperties
<1>5. \A i \in 1..Len(d) : Raw(d)[i].kind = "byte" /\ Raw(d)[i].byte = d[i]
  BY DEF Raw
<1> QED  BY <1>3, <1>4, <1>5

\* Reading a whole buffer off the socket returns it and empties the queue.
LEMMA ReadWhole ==
  ASSUME NEW d \in Seq(Byte), NEW b \in Seq(Byte), Len(b) = Len(d)
  PROVE  /\ Taken(Raw(d), Len(d)) = d
         /\ Rest(Raw(d), Len(d)) = <<>>
         /\ Overlay(b, Taken(Raw(d), Len(d))) = d
         /\ Smaller(Len(d), Len(Raw(d))) = Len(d)
<1>1. Len(d) \in Nat /\ d \in [1..Len(d) -> Byte]
  BY LenProperties
<1>2. Smaller(Len(d), Len(Raw(d))) = Len(d)
  BY <1>1, RawSeq DEF Smaller
<1>3. Taken(Raw(d), Len(d)) = d
  BY <1>1, <1>2, RawSeq DEF Taken
<1>4. Rest(Raw(d), Len(d)) = <<>>
  BY <1>1, <1>2, RawSeq, SubSeqEmpty DEF Rest
<1>5. Overlay(b, d) = d
  BY <1>1 DEF Overlay
<1> QED  BY <1>2, <1>3, <1>4, <1>5

\* A buffer that fits in a segment is one segment.
LEMMA OneSegment ==
  ASSUME NEW d \in Seq(Byte), Len(d) <= SegMax
  PROVE  NextSegment(d, 0) = d /\ WriteLen(d) = Len(d)
<1>1. Len(d) \in Nat
  BY LenProperties
<1>2. Smaller(SegMax, WriteLen(d) - 0) = Len(d) /\ WriteLen(d) = Len(d)
  BY <1>1, SizeAssumption DEF Smaller, WriteLen
<1> QED  BY <1>1, <1>2, SubSeqFull DEF NextSegment

\* Whatever has been sent of a buffer, its next segment is made of its bytes
\* and does not go past its end.
LEMMA SegmentType ==
  ASSUME NEW d \in Seq(Byte), NEW k \in Nat
  PROVE  /\ NextSegment(d, k) \in Seq(Byte)
         /\ Len(NextSegment(d, k)) \in Nat
         /\ k + Len(NextSegment(d, k)) <= Len(d) \/ Len(NextSegment(d, k)) = 0
<1> DEFINE hi == k + Smaller(SegMax, WriteLen(d) - k)
<1>1. Len(d) \in Nat /\ hi \in Int /\ hi <= Len(d)
  BY LenProperties, SizeAssumption DEF Smaller, WriteLen
<1>2. \A i \in k+1..hi : d[i] \in Byte
  BY <1>1, ElementOfSeq
<1>3. /\ SubSeq(d, k+1, hi) \in Seq(Byte)
      /\ Len(SubSeq(d, k+1, hi)) = IF k+1 <= hi THEN hi - (k+1) + 1 ELSE 0
  BY <1>1, <1>2, SubSeqProperties
<1> QED  BY <1>1, <1>3 DEF NextSegment

\* The remainder of a natural number is one, and no greater.
LEMMA Remainder ==
  ASSUME NEW w \in Nat \ {0}, NEW n \in Nat
  PROVE  n % w \in 0..n /\ (n < w => n % w = n)
<1>1. n % w \in 0..w-1
  OBVIOUS
<1>2. n < w => n % w = n
  OBVIOUS
<1> QED  BY <1>1, <1>2

\* A length stored in an int is a count of at most that length, and is that
\* length if an int can hold it.
LEMMA IntType ==
  ASSUME NEW n \in 0..MaxLen
  PROVE  ToInt(n) \in -1..MaxLen /\ (n <= IntMax => ToInt(n) = n)
<1> DEFINE w == 2 * IntMax + 2
<1>1. w \in Nat \ {0} /\ n \in Nat /\ (n <= IntMax => n < w)
  BY SizeAssumption, DataAssumption
<1> HIDE DEF w
<1>2. n % w \in 0..n /\ (n < w => n % w = n)
  BY <1>1, Remainder
<1>3. ToInt(n) = IF n % w <= IntMax THEN n % w ELSE -1
  BY DEF ToInt, w
<1> QED  BY <1>1, <1>2, <1>3, DataAssumption

-----------------------------------------------------------------------------
(***************************************************************************)
(* Streams of messages.                                                    *)
(***************************************************************************)
\* Messages are stream elements, and tell themselves from bytes.
LEMMA ElementKinds ==
  /\ \A m \in Msg : Hdr(m) \in Element /\ Hdr(m).kind = "msg" /\ Hdr(m).msg = m
  /\ \A e \in Element : e.kind = "msg" => e.msg \in Msg
  /\ \A e \in Element : e.kind = "byte" => e.byte \in Byte
BY DEF Hdr, Element

\* Queueing a message or a buffer, and reading from the head, keep a stream
\* a stream; what a read takes is bytes.
LEMMA StreamType ==
  ASSUME NEW q \in Seq(Element)
  PROVE  /\ \A m \in Msg : Append(q, Hdr(m)) \in Seq(Element)
         /\ \A d \in Seq(Byte) : q \o Raw(d) \in Seq(Element)
         /\ \A n \in Nat : Rest(q, n) \in Seq(Element)
         /\ \A n \in Nat : Taken(q, n) \in Seq(Byte)
         /\ q # <<>> => Tail(q) \in Seq(Element) /\ Head(q) \in Element
<1>1. \A m \in Msg : Append(q, Hdr(m)) \in Seq(Element)
  BY ElementKinds
<1>2. \A d \in Seq(Byte) : q \o Raw(d) \in Seq(Element)
  BY RawSeq, ConcatProperties
<1>3. ASSUME NEW n \in Nat
      PROVE  Rest(q, n) \in Seq(Element) /\ Taken(q, n) \in Seq(Byte)
  <2>1. Len(q) \in Nat /\ \A i \in 1..Len(q) : q[i] \in Element
    BY LenProperties, ElementOfSeq
  <2>2. Smaller(n, Len(q)) \in 0..Len(q)
    BY <2>1 DEF Smaller
  <2>3. \A i \in 1 + Smaller(n, Len(q))..Len(q) : q[i] \in Element
    BY <2>1, <2>2
  <2>4. Rest(q, n) \in Seq(Element)
    BY <2>1, <2>2, <2>3, SubSeqProperties DEF Rest
  <2>5. Taken(q, n) \in [1..Smaller(n, Len(q)) -> Byte]
    BY <2>1, <2>2, ElementKinds, PayloadAssumption DEF Taken, Element
  <2>6. Taken(q, n) \in Seq(Byte)
    BY <2>2, <2>5, SeqDef
  <2> QED  BY <2>4, <2>6
<1>4. q # <<>> => Tail(q) \in Seq(Element) /\ Head(q) \in Element
  BY HeadTailProperties
<1> QED  BY <1>1, <1>2, <1>3, <1>4

\* read() into a buffer leaves a buffer of the same length.
LEMMA OverlayType ==
  ASSUME NEW b \in Buffer, NEW d \in Seq(Byte)
  PROVE  Overlay(b, d) \in Buffer /\ Len(Overlay(b, d)) = Len(b)
<1>1. /\ b \in Seq(Byte) /\ Len(b) \in 0..MaxLen
      /\ \A i \in 1..Len(b) : b[i] \in Byte
      /\ Len(d) \in Nat /\ \A i \in 1..Len(d) : d[i] \in Byte
  BY BufferSeq, ElementOfSeq, LenProperties
<1>2. Overlay(b, d) \in [1..Len(b) -> Byte]
  BY <1>1, DataAssumption DEF Overlay
<1>3. Overlay(b, d) \in Seq(Byte)
  BY <1>1, <1>2, SeqDef, DataAssumption
<1>4. Len(Overlay(b, d)) = Len(b)
  BY <1>1, <1>2, <1>3, LenProperties, DataAssumption
<1> QED  BY <1>1, <1>3, <1>4, BufferSeq

\* The compartment's in-place service of a context call keeps a message a
\* message.
LEMMA ServedType == \A m \in Msg : Served(m) \in Msg
BY LibraryAssumption DEF Served, Msg, Ctx, InitCtx, InitCtxIv, SetIv

-----------------------------------------------------------------------------
(***************************************************************************)
(* Type correctness.                                                       *)
(***************************************************************************)
LEMMA UninitType == Uninit \in Msg /\ NoCall \in Call \cup {NoCall}
BY CtxFields, DataAssumption DEF Uninit, Msg, MsgType, Mode, EcbMode

LEMMA InitType == Init => TypeOK
<1> SUFFICES ASSUME Init PROVE TypeOK
  OBVIOUS
<1>1. cmsg \in Msg
  BY UninitType DEF Init
<1>2. smsg \in Msg
  <2>1. \A t \in MsgType, n \in 0..MaxLen : [Uninit EXCEPT !.type = t, !.buflen = n] \in Msg
    BY UninitType DEF Msg
  <2> QED  BY <2>1 DEF Init
<1>3. <<>> \in Buffer /\ <<>> \in Seq(Element) /\ 0 \in 0..MaxLen
  BY EmptyBuffer, DataAssumption
<1>4. ctx \in Ctx /\ call \in Call \cup {NoCall}
  BY DEF Init
<1> QED  BY <1>1, <1>2, <1>3, <1>4 DEF Init, TypeOK

\* Starting a call, with any message and buffer.
LEMMA StartCallType ==
  ASSUME TypeOK, NEW m \in Msg, m.type \in CallType, NEW d \in Buffer, StartCall(m, d)
  PROVE  TypeOK'
<1>1. [type |-> m.type, key |-> m.key, iv |-> m.iv, mode |-> m.mode, ctx |-> ctx, buf |-> d] \in Call
  BY DEF TypeOK, Call, Msg
<1> QED  BY <1>1 DEF StartCall, TypeOK, serverVars, socketVars

LEMMA ApiType ==
  ASSUME TypeOK, Api
  PROVE  TypeOK'
<1> USE UninitType DEF Msg, MsgType, CallType
<1>1. CASE AES_init_ctx
  <2>1. PICK k \in Key, c \in Ctx : StartCall([Uninit EXCEPT !.type = "INIT", !.key = k, !.ctx = c], buf)
    BY <1>1 DEF AES_init_ctx
  <2>2. [Uninit EXCEPT !.type = "INIT", !.key = k, !.ctx = c] \in Msg
    OBVIOUS
  <2>3. [Uninit EXCEPT !.type = "INIT", !.key = k, !.ctx = c].type \in CallType
    OBVIOUS
  <2> HIDE DEF Msg, MsgType, CallType
  <2> QED  BY <2>1, <2>2, <2>3, StartCallType DEF TypeOK
<1>2. CASE AES_init_ctx_iv
  <2>1. PICK k \in Key, i \in Iv, c \in Ctx :
          StartCall([Uninit EXCEPT !.type = "INIT_IV", !.key = k, !.iv = i, !.ctx = c], buf)
    BY <1>2 DEF AES_init_ctx_iv
  <2>2. [Uninit EXCEPT !.type = "INIT_IV", !.key = k, !.iv = i, !.ctx = c] \in Msg
    OBVIOUS
  <2>3. [Uninit EXCEPT !.type = "INIT_IV", !.key = k, !.iv = i, !.ctx = c].type \in CallType
    OBVIOUS
  <2> HIDE DEF Msg, MsgType, CallType
  <2> QED  BY <2>1, <2>2, <2>3, StartCallType DEF TypeOK
<1>3. CASE AES_ctx_set_iv
  <2>1. PICK i \in Iv : StartCall([Uninit EXCEPT !.type = "SET_IV", !.ctx = ctx, !.iv = i], buf)
    BY <1>3 DEF AES_ctx_set_iv
  <2>2. [Uninit EXCEPT !.type = "SET_IV", !.ctx = ctx, !.iv = i] \in Msg
    BY DEF TypeOK
  <2>3. [Uninit EXCEPT !.type = "SET_IV", !.ctx = ctx, !.iv = i].type \in CallType
    OBVIOUS
  <2> HIDE DEF Msg, MsgType, CallType
  <2> QED  BY <2>1, <2>2, <2>3, StartCallType DEF TypeOK
<1>4. ASSUME NEW m \in Mode, NEW d \in Payload, do_generic_crypt(m, d)
      PROVE  TypeOK'
  <2> DEFINE req == [Uninit EXCEPT !.type = "CRYPT", !.ctx = ctx, !.mode = m, !.buflen = Len(d)]
  <2>1. d \in Buffer /\ Len(d) \in 0..MaxLen
    BY PayloadAssumption, BufferSeq
  <2>2. req \in Msg /\ req.type \in CallType
    BY <2>1 DEF TypeOK
  <2>3. StartCall(req, d)
    BY <1>4 DEF do_generic_crypt
  <2> HIDE DEF Msg, MsgType, CallType, req
  <2> QED  BY <2>1, <2>2, <2>3, StartCallType
<1>5. CASE AES_ECB \/ AES_CBC \/ AES_CTR
  BY <1>4, <1>5 DEF AES_ECB, AES_CBC, AES_CTR, Mode
<1> QED  BY <1>1, <1>2, <1>3, <1>5 DEF Api

\* A process that ends leaves typed state behind.
LEMMA EndsType ==
  /\ \A how \in {"exited", "dead"} : TypeOK /\ ClientEnds(how) /\ c2s' \in Seq(Element) => TypeOK'
  /\ \A q : CloseWith(q) \in {"eof", "reset"}
<1>1. <<>> \in Seq(Element)
  OBVIOUS
<1>2. \A q : CloseWith(q) \in {"eof", "reset"}
  BY DEF CloseWith
<1> QED  BY <1>1, <1>2 DEF ClientEnds, TypeOK, serverVars

LEMMA ClientType ==
  ASSUME TypeOK, ClientStep \/ destroy \/ ClientCrash
  PROVE  TypeOK'
<1>1. CASE ClientWriteMsg
  <2>1. Append(c2s, Hdr(cmsg)) \in Seq(Element) /\ 0 \in 0..MaxLen
    BY StreamType, DataAssumption DEF TypeOK
  <2> QED  BY <1>1, <2>1, EndsType DEF ClientWriteMsg, TypeOK, serverVars
<1>2. CASE ClientWriteBuf
  <2>1. /\ NextSegment(buf, csent) \in Seq(Byte)
        /\ csent + Len(NextSegment(buf, csent)) \in 0..MaxLen
    BY SegmentType, BufferSeq, DataAssumption DEF TypeOK
  <2>2. c2s \o Raw(NextSegment(buf, csent)) \in Seq(Element)
    BY <2>1, StreamType DEF TypeOK
  <2> QED  BY <1>2, <2>1, <2>2, EndsType DEF ClientWriteBuf, TypeOK, serverVars, socketVars
<1>3. CASE ClientReadMsg
  <2>1. CASE s2c = <<>> /\ sEnd = "reset" /\ ClientEnds("dead") /\ UNCHANGED c2s
    BY <2>1, EndsType DEF TypeOK
  <2>2. CASE ~(s2c = <<>> /\ sEnd = "reset" /\ ClientEnds("dead") /\ UNCHANGED c2s)
    <3>1. /\ cmsg' \in Msg
          /\ s2c' \in Seq(Element)
      <4>1. CASE s2c = <<>>
        BY <1>3, <2>2, <4>1 DEF ClientReadMsg, TypeOK
      <4>2. CASE s2c # <<>>
        <5>1. Head(s2c) \in Element /\ Tail(s2c) \in Seq(Element)
          BY <4>2, StreamType DEF TypeOK
        <5>2. \A c \in Ctx : [cmsg EXCEPT !.ctx = c] \in Msg
          BY DEF TypeOK, Msg
        <5>3. s2c' = Tail(s2c) /\ \E c \in Ctx :
                cmsg' = IF Head(s2c).kind = "msg" THEN Head(s2c).msg ELSE [cmsg EXCEPT !.ctx = c]
          BY <1>3, <4>2 DEF ClientReadMsg
        <5> QED  BY <5>1, <5>2, <5>3, ElementKinds
      <4> QED  BY <4>1, <4>2
    <3>2. cmsg'.ctx \in Ctx
      BY <3>1 DEF Msg
    <3> QED  BY <1>3, <2>2, <3>1, <3>2 DEF ClientReadMsg, TypeOK, serverVars
  <2> QED  BY <2>1, <2>2
<1>4. CASE ClientReadBuf
  <2>1. Len(buf) \in Nat
    BY BufferSeq, DataAssumption DEF TypeOK
  <2>2. /\ Overlay(buf, Taken(s2c, Len(buf))) \in Buffer
        /\ Rest(s2c, Len(buf)) \in Seq(Element)
    BY <2>1, StreamType, OverlayType DEF TypeOK
  <2> QED  BY <1>4, <2>2, EndsType DEF ClientReadBuf, TypeOK, serverVars
<1>5. CASE ClientReturn
  BY <1>5, UninitType, EmptyBuffer, DataAssumption DEF ClientReturn, TypeOK, serverVars, socketVars
<1>6. CASE destroy
  <2>1. [Uninit EXCEPT !.type = "EXIT"] \in Msg
    BY UninitType DEF Msg, MsgType
  <2>2. Append(c2s, Hdr([Uninit EXCEPT !.type = "EXIT"])) \in Seq(Element)
    BY <2>1, StreamType DEF TypeOK
  <2> QED  BY <1>6, <2>2, EndsType DEF destroy, TypeOK
<1>7. CASE ClientCrash
  BY <1>7, EndsType DEF ClientCrash, TypeOK
<1> QED  BY <1>1, <1>2, <1>3, <1>4, <1>5, <1>6, <1>7 DEF ClientStep

\* switch (msg.type) on any message, with any well-formed stream behind it.
LEMMA DispatchType ==
  ASSUME TypeOK, NEW m \in Msg, NEW q \in Seq(Element), Dispatch(m, q),
         UNCHANGED <<ssent, cEnd, s2c, clientVars>>
  PROVE  TypeOK'
<1>1. Served(m) \in Msg
  BY ServedType
<1>2. [i \in 1..m.buflen |-> Junk] \in Buffer /\ ToInt(m.buflen) \in -1..MaxLen
  <2>1. m.buflen \in 0..MaxLen
    BY DEF Msg
  <2>2. [i \in 1..m.buflen |-> Junk] \in [1..m.buflen -> Byte]
    BY PayloadAssumption
  <2> QED  BY <2>1, <2>2, IntType, DataAssumption DEF Buffer
<1>3. <<>> \in Seq(Element) /\ CloseWith(q) \in {"eof", "reset"}
  BY EndsType
<1>4. CASE m.type \in {"INIT", "INIT_IV", "SET_IV"}
  BY <1>1, <1>4 DEF Dispatch, TypeOK, clientVars
<1>5. CASE m.type = "CRYPT"
  <2>1. CASE /\ sbuf' = [i \in 1..m.buflen |-> Junk] /\ left' = ToInt(m.buflen)
             /\ srv' \in {"crypt", "readBuf"}
             /\ c2s' = q /\ UNCHANGED sEnd
    BY <1>2, <1>5, <2>1 DEF Dispatch, TypeOK, clientVars
  <2>2. CASE ServerEnds("dead", q) /\ UNCHANGED <<sbuf, left>>
    BY <1>3, <1>5, <2>2 DEF Dispatch, ServerEnds, TypeOK, clientVars
  <2> QED  BY <1>5, <2>1, <2>2 DEF Dispatch
<1>6. CASE m.type \in {"EXIT", "OTHER"}
  BY <1>3, <1>6 DEF Dispatch, ServerEnds, TypeOK, clientVars
<1> QED  BY <1>4, <1>5, <1>6 DEF Dispatch

LEMMA ServerType ==
  ASSUME TypeOK, ServerStep \/ ServerCrash
  PROVE  TypeOK'
<1>0. <<>> \in Seq(Element) /\ \A q : CloseWith(q) \in {"eof", "reset"}
  BY EndsType
<1>1. CASE ServerReadMsg
  <2>1. CASE c2s # <<>>
    <3>1. Head(c2s) \in Element /\ Tail(c2s) \in Seq(Element)
      BY <2>1, StreamType DEF TypeOK
    <3>2. PICK m \in IF Head(c2s).kind = "msg" THEN {Head(c2s).msg} ELSE Msg : Dispatch(m, Tail(c2s))
      BY <1>1, <2>1 DEF ServerReadMsg
    <3>3. m \in Msg
      BY <3>1, <3>2, ElementKinds
    <3> QED  BY <1>1, <3>1, <3>2, <3>3, DispatchType DEF ServerReadMsg
  <2>2. CASE c2s = <<>> /\ cEnd = "eof" /\ Dispatch(smsg, c2s)
    BY <1>1, <2>2, DispatchType DEF ServerReadMsg, TypeOK
  <2>3. CASE c2s = <<>> /\ ServerEnds("dead", c2s) /\ UNCHANGED <<smsg, sbuf, left>>
    BY <1>0, <1>1, <2>3 DEF ServerReadMsg, ServerEnds, TypeOK, clientVars
  <2> QED  BY <1>1, <2>1, <2>2, <2>3 DEF ServerReadMsg
<1>2. CASE ServerReadBuf
  <2>1. smsg.buflen \in Nat /\ Len(c2s) \in Nat
    BY DataAssumption DEF TypeOK, Msg
  <2>2. /\ Overlay(sbuf, Taken(c2s, smsg.buflen)) \in Buffer
        /\ Rest(c2s, smsg.buflen) \in Seq(Element)
    BY <2>1, StreamType, OverlayType DEF TypeOK
  <2>3. LeftAfter(left, Smaller(smsg.buflen, Len(c2s))) \in -1..MaxLen
    <3>1. left \in -1..MaxLen /\ Smaller(smsg.buflen, Len(c2s)) \in Nat
      BY <2>1 DEF TypeOK, Smaller
    <3> QED  BY <3>1, DataAssumption DEF LeftAfter
  <2> QED  BY <1>0, <1>2, <2>2, <2>3 DEF ServerReadBuf, ServerEnds, TypeOK, clientVars
<1>3. CASE ServerCrypt
  <2>1. /\ smsg.mode \in Mode /\ smsg.ctx \in Ctx
    BY DEF TypeOK, Msg
  <2>2. /\ CryptBuf(smsg.mode, smsg.ctx, sbuf) \in Buffer
        /\ [smsg EXCEPT !.ctx = CryptCtx(smsg.mode, @, sbuf)] \in Msg
    BY <2>1, CryptType DEF TypeOK, Msg
  <2> QED  BY <1>3, <2>2 DEF ServerCrypt, TypeOK, clientVars, socketVars
<1>4. CASE ServerWriteMsg
  <2>1. Append(s2c, Hdr(smsg)) \in Seq(Element) /\ 0 \in 0..MaxLen
    BY StreamType, DataAssumption DEF TypeOK
  <2>2. ToInt(Len(sbuf)) \in -1..MaxLen
    BY BufferSeq, IntType DEF TypeOK
  <2> QED  BY <1>0, <1>4, <2>1, <2>2 DEF ServerWriteMsg, ServerEnds, TypeOK, clientVars
<1>5. CASE ServerWriteBuf
  <2>1. /\ NextSegment(sbuf, ssent) \in Seq(Byte)
        /\ ssent + Len(NextSegment(sbuf, ssent)) \in 0..MaxLen
    BY SegmentType, BufferSeq, DataAssumption DEF TypeOK
  <2>2. s2c \o Raw(NextSegment(sbuf, ssent)) \in Seq(Element)
    BY <2>1, StreamType DEF TypeOK
  <2>3. LeftAfter(left, ssent + Len(NextSegment(sbuf, ssent))) \in -1..MaxLen
    <3>1. left \in -1..MaxLen
      BY DEF TypeOK
    <3> QED  BY <2>1, <3>1, DataAssumption DEF LeftAfter
  <2>4. 0 \in 0..MaxLen
    BY DataAssumption
  <2> QED  BY <1>0, <1>5, <2>1, <2>2, <2>3, <2>4, EmptyBuffer
            DEF ServerWriteBuf, ServerEnds, TypeOK, clientVars
<1>6. CASE ServerCrash
  BY <1>0, <1>6 DEF ServerCrash, ServerEnds, TypeOK, clientVars
<1> QED  BY <1>1, <1>2, <1>3, <1>4, <1>5, <1>6 DEF ServerStep

LEMMA StutterType == TypeOK /\ UNCHANGED vars => TypeOK'
BY DEF TypeOK, vars, clientVars, serverVars, socketVars

\* Every variable keeps its type, whatever is written, read or cut short:
\* in particular no buffer outgrows the length it was allocated with.
THEOREM TypeCorrect == Spec => []TypeOK
<1>1. TypeOK /\ [Next]_vars => TypeOK'
  BY ApiType, ClientType, ServerType, StutterType DEF Next, Finished
<1> QED  BY InitType, <1>1, PTL DEF Spec

-----------------------------------------------------------------------------
(***************************************************************************)
(* The coupling of the two processes, when a buffer is one segment.        *)
(***************************************************************************)
\* The streams the coupling invariant speaks of, taken apart.
LEMMA StreamShapes ==
  ASSUME NEW m \in Msg, NEW d \in Buffer
  PROVE  /\ Append(<<>>, Hdr(m)) = <<Hdr(m)>>
         /\ <<Hdr(m)>> \o <<>> = <<Hdr(m)>>
         /\ <<Hdr(m)>> # <<>> /\ Head(<<Hdr(m)>>) = Hdr(m) /\ Tail(<<Hdr(m)>>) = <<>>
         /\ <<Hdr(m)>> \o Raw(d) # <<>>
         /\ Head(<<Hdr(m)>> \o Raw(d)) = Hdr(m)
         /\ Tail(<<Hdr(m)>> \o Raw(d)) = Raw(d)
         /\ <<>> \o Raw(d) = Raw(d)
         /\ Raw(<<>>) = <<>>
         /\ Raw(d) = <<>> <=> d = <<>>
         /\ Len(Raw(d)) = Len(d)
<1> DEFINE h == <<Hdr(m)>>
<1>1. /\ h \in Seq(Element) /\ Len(h) = 1 /\ h[1] = Hdr(m)
      /\ Raw(d) \in Seq(Element) /\ Len(Raw(d)) = Len(d)
      /\ d \in Seq(Byte) /\ Len(d) \in Nat
  BY ElementKinds, RawSeq, BufferSeq, DataAssumption
<1>2. /\ Append(<<>>, Hdr(m)) = h /\ h # <<>> /\ Head(h) = Hdr(m) /\ Tail(h) = <<>>
  OBVIOUS
<1>3. h \o <<>> = h /\ <<>> \o Raw(d) = Raw(d)
  BY <1>1, ConcatEmptySeq
<1>4. /\ h \o Raw(d) \in Seq(Element) /\ Len(h \o Raw(d)) = 1 + Len(d)
      /\ \A i \in 1..(1 + Len(d)) : (h \o Raw(d))[i] = IF i <= 1 THEN h[i] ELSE Raw(d)[i - 1]
  BY <1>1, ConcatProperties
<1>5. h \o Raw(d) # <<>> /\ Head(h \o Raw(d)) = Hdr(m)
  BY <1>1, <1>4
<1>6. Tail(h \o Raw(d)) = Raw(d)
  <2>1. /\ Tail(h \o Raw(d)) \in Seq(Element) /\ Len(Tail(h \o Raw(d))) = Len(d)
        /\ \A i \in 1..Len(d) : Tail(h \o Raw(d))[i] = (h \o Raw(d))[i + 1]
    BY <1>1, <1>4, <1>5, HeadTailProperties
  <2>2. \A i \in 1..Len(d) : Tail(h \o Raw(d))[i] = Raw(d)[i]
    BY <1>1, <1>4, <2>1
  <2> QED  BY <1>1, <2>1, <2>2, SeqEqual
<1>7. Raw(<<>>) = <<>>
  BY DEF Raw
<1>8. Raw(d) = <<>> <=> d = <<>>
  BY <1>1, <1>7
<1> QED  BY <1>1, <1>2, <1>3, <1>5, <1>6, <1>7, <1>8

\* The compartment's answer to a context call, worked out in the request
\* itself, is what the native call returns.
LEMMA ServedResult ==
  ASSUME NEW c \in Call, NEW m \in Msg, IsRequest(c, m), m.type # "CRYPT"
  PROVE  IsResult(c, Served(m).ctx) /\ Served(m).type = c.type
<1>1. m.ctx \in Ctx /\ c.ctx \in Ctx
  BY DEF Msg, Call
<1>2. c.type \in {"INIT", "INIT_IV", "SET_IV"}
  BY DEF IsRequest, Call, CallType
<1> QED
  BY <1>1, <1>2 DEF IsRequest, IsResult, Served, NativeCtx, InitCtx, InitCtxIv, SetIv, Ctx, Msg

\* Likewise for its answer to an encryption or decryption call.
LEMMA CryptResult ==
  ASSUME NEW c \in Call, NEW m \in Msg, IsRequest(c, m), m.type = "CRYPT"
  PROVE  /\ CryptBuf(m.mode, m.ctx, c.buf) = NativeBuf(c)
         /\ [m EXCEPT !.ctx = CryptCtx(m.mode, @, c.buf)].type = c.type
         /\ IsResult(c, [m EXCEPT !.ctx = CryptCtx(m.mode, @, c.buf)].ctx)
BY DEF IsRequest, IsResult, NativeBuf, NativeCtx, Msg

\* Facts about the call in progress that every step needs.
LEMMA CallFacts ==
  ASSUME TypeOK, ClientPart, InCall
  PROVE  /\ call \in Call /\ NativeBuf(call) \in Buffer /\ NativeCtx(call) \in Ctx
         /\ Len(NativeBuf(call)) = Len(call.buf)
         /\ call.buf = <<>> => NativeBuf(call) = <<>>
         /\ call.type # "CRYPT" => NativeBuf(call) = call.buf
<1>1. call \in Call
  BY DEF ClientPart
<1>2. NativeBuf(call) \in Buffer /\ NativeCtx(call) \in Ctx /\ Len(NativeBuf(call)) = Len(call.buf)
  BY <1>1, NativeType
<1>3. call.buf = <<>> => NativeBuf(call) = <<>>
  <2>1. NativeBuf(call) \in Seq(Byte)
    BY <1>2, BufferSeq
  <2> QED  BY <1>2, <2>1, EmptySeq
<1>4. call.type # "CRYPT" => NativeBuf(call) = call.buf
  BY DEF NativeBuf
<1> QED  BY <1>1, <1>2, <1>3, <1>4

LEMMA InitCoupling == Init => Coupling
BY DEF Init, Coupling, ClientPart, BothUp, ClientGone, ServerGone, InCall

\* What both have done together is something a gone client could have left.
LEMMA UpThenClientGone ==
  ASSUME TypeOK, ClientPart, BothUp, ~ClientGone, ~ServerGone
  PROVE  ClientGonePart
<1>1. CASE cli \in {"idle", "writeMsg", "done"}
  BY <1>1 DEF BothUp, ClientGonePart
<1>2. CASE cli = "readBuf"
  BY <1>2 DEF BothUp, ClientGonePart
<1>3. CASE cli \in {"writeBuf", "readMsg"}
  <2>1. IsRequest(call, cmsg) /\ buf = call.buf /\ buf \in Buffer /\ cmsg \in Msg
    BY <1>3 DEF ClientPart, TypeOK
  <2>2. PICK d \in Buffer : BufferSent = Raw(d) /\ (d = buf \/ d = <<>>)
    BY <2>1, EmptyBuffer, StreamShapes DEF BufferSent
  <2>3. CASE Unread
    BY <2>1, <2>2, <2>3 DEF Unread, ClientGonePart, IsRequest
  <2>4. CASE Loading
    BY <2>1, <2>2, <2>4 DEF Loading, ClientGonePart, IsRequest
  <2>5. CASE Ahead
    BY <2>5 DEF Ahead, Loaded, Answered, HalfReplied, Replied, ClientGonePart
  <2> QED  BY <1>3, <2>3, <2>4, <2>5 DEF BothUp
<1> QED  BY <1>1, <1>2, <1>3 DEF TypeOK, ClientGone

\* And something a gone compartment could have left.
LEMMA UpThenServerGone ==
  ASSUME TypeOK, ClientPart, BothUp, ~ClientGone, ~ServerGone, sEnd = "open"
  PROVE  ServerGonePart
<1>1. CASE cli \in {"idle", "writeMsg", "done"}
  BY <1>1 DEF BothUp, ServerGonePart
<1>2. CASE cli = "readBuf"
  BY <1>2 DEF BothUp, ServerGonePart, ClientPart, IsResult
<1>3. CASE cli \in {"writeBuf", "readMsg"}
  BY <1>3 DEF BothUp, ServerGonePart, Unread, Loading, Ahead, Loaded, Answered, HalfReplied, Replied
<1> QED  BY <1>1, <1>2, <1>3 DEF TypeOK, ClientGone

\* The client ends without touching its request stream.
LEMMA ClientEndsCoupling ==
  ASSUME TypeOK, Coupling, ~ClientGone, NEW how \in {"exited", "dead"},
         ClientEnds(how), c2s' = c2s
  PROVE  Coupling'
<1>1. ClientGone' /\ cEnd' # "open" /\ s2c' = <<>> /\ ~InCall' /\ cli' # "idle"
  BY DEF ClientEnds, ClientGone, CloseWith, InCall
<1>2. ClientPart'
  BY <1>1 DEF ClientPart, ClientEnds, InCall
<1>3. ServerGone' <=> ServerGone
  BY DEF ServerGone, ClientEnds, serverVars
<1>4. ~ServerGone => ClientGonePart
  BY UpThenClientGone DEF Coupling
<1>5. ~ServerGone => ClientGonePart'
  BY <1>4 DEF ClientGonePart, ClientEnds, serverVars
<1> QED  BY <1>1, <1>2, <1>3, <1>5 DEF Coupling, ClientEnds

\* The compartment ends, whatever it leaves unread.
LEMMA ServerEndsCoupling ==
  ASSUME TypeOK, Coupling, ~ServerGone, NEW how \in {"exited", "dead"}, NEW q,
         ServerEnds(how, q), UNCHANGED <<cEnd, s2c, clientVars>>
  PROVE  Coupling'
<1>1. ServerGone' /\ sEnd' # "open" /\ c2s' = <<>>
  BY DEF ServerEnds, ServerGone, CloseWith
<1>2. ClientPart'
  BY <1>1 DEF ClientPart, Coupling, clientVars, InCall
<1>3. ClientGone' <=> ClientGone
  BY DEF ClientGone, clientVars
<1>4. ~ClientGone => ServerGonePart
  BY UpThenServerGone DEF Coupling
<1>5. ~ClientGone => ServerGonePart'
  BY <1>4 DEF ServerGonePart, clientVars
<1> QED  BY <1>1, <1>2, <1>3, <1>5 DEF Coupling

\* A call starts, with both streams quiet.
LEMMA StartCallCoupling ==
  ASSUME TypeOK, Coupling, NEW m \in Msg, m.type \in CallType, NEW d \in Buffer,
         m.buflen = Len(d), m.type \in {"SET_IV", "CRYPT"} => m.ctx = ctx,
         m.type # "CRYPT" => d = <<>>, StartCall(m, d)
  PROVE  Coupling'
<1>1. cli = "idle" /\ ~ClientGone /\ cli' = "writeMsg" /\ ~ClientGone'
  BY DEF StartCall, ClientGone
<1>2. call' = [type |-> m.type, key |-> m.key, iv |-> m.iv, mode |-> m.mode, ctx |-> ctx, buf |-> d]
  BY DEF StartCall
<1>3. call' \in Call
  BY <1>2 DEF TypeOK, Call, Msg
<1>4. IsRequest(call', cmsg') /\ ctx' = call'.ctx /\ buf' = call'.buf
  BY <1>2 DEF IsRequest, StartCall
<1>5. ClientPart'
  BY <1>1, <1>3, <1>4 DEF ClientPart
<1>6. UNCHANGED <<srv, sEnd, cEnd, c2s, s2c>>
  BY DEF StartCall, serverVars, socketVars
<1>7. ~ServerGone => BothUp'
  BY <1>1, <1>6 DEF Coupling, BothUp
<1>8. ServerGone => ServerGonePart'
  BY <1>1, <1>6 DEF Coupling, ServerGonePart
<1> QED  BY <1>1, <1>5, <1>6, <1>7, <1>8 DEF Coupling, ServerGone

\* Every API function starts a call with a request for what it was called
\* with.
Starts(m, d) ==
  /\ m.type \in CallType /\ m.buflen = Len(d)
  /\ m.type \in {"SET_IV", "CRYPT"} => m.ctx = ctx
  /\ m.type # "CRYPT" => d = <<>>
  /\ StartCall(m, d)

LEMMA ApiStarts ==
  ASSUME TypeOK, cli = "idle" => buf = <<>>, Api
  PROVE  \E m \in Msg, d \in Buffer : Starts(m, d)
<1> USE UninitType DEF Msg, MsgType, CallType
<1>0. cli = "idle" => buf = <<>> /\ Len(buf) = 0
  OBVIOUS
<1>1. ASSUME NEW m \in Msg, m.type \in {"INIT", "INIT_IV", "SET_IV"}, m.buflen = 0, StartCall(m, buf),
             m.type = "SET_IV" => m.ctx = ctx
      PROVE  \E n \in Msg, d \in Buffer : Starts(n, d)
  <2> HIDE DEF Msg, MsgType
  <2>1. Starts(m, buf) /\ buf \in Buffer
    BY <1>0, <1>1 DEF Starts, StartCall, TypeOK
  <2> QED  BY <2>1
<1>2. CASE AES_init_ctx
  <2>1. PICK k \in Key, c \in Ctx : StartCall([Uninit EXCEPT !.type = "INIT", !.key = k, !.ctx = c], buf)
    BY <1>2 DEF AES_init_ctx
  <2> DEFINE req == [Uninit EXCEPT !.type = "INIT", !.key = k, !.ctx = c]
  <2>2. req \in Msg /\ req.type = "INIT" /\ req.buflen = 0
    BY DEF Uninit
  <2> HIDE DEF req, Msg, MsgType, CallType
  <2> QED  BY <1>1, <2>1, <2>2 DEF req
<1>3. CASE AES_init_ctx_iv
  <2>1. PICK k \in Key, i \in Iv, c \in Ctx :
          StartCall([Uninit EXCEPT !.type = "INIT_IV", !.key = k, !.iv = i, !.ctx = c], buf)
    BY <1>3 DEF AES_init_ctx_iv
  <2> DEFINE req == [Uninit EXCEPT !.type = "INIT_IV", !.key = k, !.iv = i, !.ctx = c]
  <2>2. req \in Msg /\ req.type = "INIT_IV" /\ req.buflen = 0
    BY DEF Uninit
  <2> HIDE DEF req, Msg, MsgType, CallType
  <2> QED  BY <1>1, <2>1, <2>2 DEF req
<1>4. CASE AES_ctx_set_iv
  <2>1. PICK i \in Iv : StartCall([Uninit EXCEPT !.type = "SET_IV", !.ctx = ctx, !.iv = i], buf)
    BY <1>4 DEF AES_ctx_set_iv
  <2> DEFINE req == [Uninit EXCEPT !.type = "SET_IV", !.ctx = ctx, !.iv = i]
  <2>2. req \in Msg /\ req.type = "SET_IV" /\ req.buflen = 0 /\ req.ctx = ctx
    BY DEF Uninit, TypeOK
  <2> HIDE DEF req, Msg, MsgType, CallType
  <2> QED  BY <1>1, <2>1, <2>2 DEF req
<1>5. CASE AES_ECB \/ AES_CBC \/ AES_CTR
  <2>1. PICK m \in Mode, d \in Payload : do_generic_crypt(m, d)
    BY <1>5 DEF AES_ECB, AES_CBC, AES_CTR, Mode
  <2> DEFINE req == [Uninit EXCEPT !.type = "CRYPT", !.ctx = ctx, !.mode = m, !.buflen = Len(d)]
  <2>2. d \in Buffer /\ Len(d) \in 0..MaxLen
    BY PayloadAssumption, BufferSeq
  <2>3. req \in Msg /\ req.type = "CRYPT" /\ req.buflen = Len(d) /\ req.ctx = ctx
    BY <2>2 DEF Uninit, TypeOK
  <2>4. StartCall(req, d)
    BY <2>1 DEF do_generic_crypt
  <2> HIDE DEF req, Msg, MsgType
  <2>5. Starts(req, d)
    BY <2>3, <2>4 DEF Starts
  <2> QED  BY <2>2, <2>3, <2>5
<1> QED  BY <1>2, <1>3, <1>4, <1>5 DEF Api

LEMMA ApiCoupling ==
  ASSUME TypeOK, Coupling, Api
  PROVE  Coupling'
<1>1. PICK m \in Msg, d \in Buffer : Starts(m, d)
  BY ApiStarts DEF Coupling, ClientPart
<1> QED  BY <1>1, StartCallCoupling DEF Starts

LEMMA ClientWriteMsgCoupling ==
  ASSUME TypeOK, Coupling, ClientWriteMsg
  PROVE  Coupling'
<1>1. cli = "writeMsg" /\ ~ClientGone /\ InCall
  BY DEF ClientWriteMsg, ClientGone, InCall
<1>2. CASE sEnd # "open"
  BY <1>1, <1>2, ClientEndsCoupling DEF ClientWriteMsg
<1>3. CASE sEnd = "open"
  <2>1. /\ c2s' = Append(c2s, Hdr(cmsg)) /\ csent' = 0
        /\ cli' = IF cmsg.type = "CRYPT" THEN "writeBuf" ELSE "readMsg"
        /\ UNCHANGED <<ctx, buf, call, cmsg, cEnd, sEnd, s2c, serverVars>>
    BY <1>3 DEF ClientWriteMsg
  <2>2. ~ServerGone /\ BothUp /\ ClientPart /\ cEnd = "open"
    BY <1>1, <1>3 DEF Coupling
  <2>3. srv = "readMsg" /\ c2s = <<>> /\ s2c = <<>>
    BY <1>1, <2>2 DEF BothUp
  <2>4. ClientPart' /\ InCall' /\ ~ClientGone' /\ ~ServerGone'
    BY <1>1, <2>1, <2>2 DEF ClientPart, InCall, ClientGone, ServerGone, IsRequest, serverVars
  <2>5. cmsg \in Msg /\ buf \in Buffer /\ (cmsg.type # "CRYPT" => buf = <<>>)
    BY <1>1, <2>2 DEF TypeOK, ClientPart, IsRequest
  <2>6. Unread'
    <3>1. BufferSent' = <<>>
      BY <2>1, <2>5, StreamShapes DEF BufferSent
    <3>2. c2s' = <<Hdr(cmsg)>> \o <<>>
      BY <2>1, <2>3, <2>5, StreamShapes
    <3> QED  BY <2>1, <2>3, <3>1, <3>2 DEF Unread, serverVars
  <2>7. BothUp'
    BY <2>1, <2>6 DEF BothUp
  <2> QED  BY <2>1, <2>2, <2>4, <2>7 DEF Coupling
<1> QED  BY <1>2, <1>3

LEMMA ClientWriteBufCoupling ==
  ASSUME MaxLen <= SegMax, TypeOK, Coupling, ClientWriteBuf
  PROVE  Coupling'
<1>1. cli = "writeBuf" /\ ~ClientGone /\ InCall /\ csent = 0 /\ ClientPart
  BY DEF ClientWriteBuf, ClientGone, InCall, Coupling, ClientPart
<1>2. CASE sEnd # "open"
  BY <1>1, <1>2, ClientEndsCoupling DEF ClientWriteBuf
<1>3. CASE sEnd = "open"
  <2>1. buf \in Buffer /\ buf \in Seq(Byte) /\ Len(buf) \in Nat /\ NextSegment(buf, csent) = buf
        /\ WriteLen(buf) = Len(buf)
    BY <1>1, BufferSeq, OneSegment, DataAssumption, SizeAssumption DEF TypeOK
  <2>2. /\ c2s' = c2s \o Raw(buf) /\ csent' = Len(buf) /\ cli' = "readMsg"
        /\ UNCHANGED <<ctx, buf, call, cmsg, cEnd, sEnd, s2c, srv, smsg, sbuf, left, ssent>>
    BY <1>1, <1>3, <2>1 DEF ClientWriteBuf, serverVars
  <2>3. ~ServerGone /\ BothUp /\ cEnd = "open" /\ cmsg \in Msg
    BY <1>1, <1>3 DEF Coupling, TypeOK
  <2>4. ClientPart' /\ ~ClientGone' /\ ~ServerGone'
    BY <1>1, <2>2, <2>3 DEF ClientPart, InCall, ClientGone, ServerGone
  <2>5. BufferSent = <<>> /\ BufferSent' = Raw(buf)
    BY <1>1, <2>2 DEF BufferSent
  <2>6. ASSUME Unread PROVE Unread'
    <3>1. c2s' = <<Hdr(cmsg)>> \o Raw(buf)
      BY <2>1, <2>2, <2>3, <2>5, <2>6, StreamShapes DEF Unread
    <3> QED  BY <2>2, <2>5, <2>6, <3>1 DEF Unread
  <2>7. ASSUME Loading PROVE Loading'
    <3>1. c2s' = Raw(buf)
      BY <2>1, <2>2, <2>3, <2>5, <2>7, StreamShapes DEF Loading
    <3> QED  BY <2>2, <2>5, <2>7, <3>1 DEF Loading
  <2>8. ASSUME buf = <<>> /\ Ahead PROVE Ahead'
    <3>1. c2s' = c2s
      BY <2>1, <2>2, <2>3, <2>8, StreamShapes DEF Ahead, Loaded, Answered, HalfReplied, Replied
    <3> QED  BY <2>2, <2>8, <3>1 DEF Ahead, Loaded, Answered, HalfReplied, Replied
  <2>9. BothUp'
    <3>1. Unread' \/ Loading' \/ Ahead'
      BY <1>1, <2>3, <2>6, <2>7, <2>8 DEF BothUp
    <3> QED  BY <2>2, <3>1 DEF BothUp
  <2> QED  BY <2>2, <2>3, <2>4, <2>9 DEF Coupling
<1> QED  BY <1>2, <1>3

LEMMA ClientReadMsgCoupling ==
  ASSUME TypeOK, Coupling, ClientReadMsg
  PROVE  Coupling'
<1>1. cli = "readMsg" /\ ~ClientGone /\ InCall /\ ClientPart /\ cEnd = "open"
  BY DEF ClientReadMsg, ClientGone, InCall, Coupling
<1>2. CASE s2c = <<>> /\ sEnd = "reset" /\ ClientEnds("dead") /\ UNCHANGED c2s
  BY <1>1, <1>2, ClientEndsCoupling
<1>3. CASE ~(s2c = <<>> /\ sEnd = "reset" /\ ClientEnds("dead") /\ UNCHANGED c2s)
  <2>1. /\ UNCHANGED <<buf, call, csent, cEnd, sEnd, c2s, srv, smsg, sbuf, left, ssent>>
        /\ ctx' = cmsg'.ctx
        /\ cli' = IF call.type = "CRYPT" THEN "readBuf" ELSE "done"
    BY <1>3 DEF ClientReadMsg, serverVars
  <2>2. /\ call \in Call /\ NativeBuf(call) \in Buffer /\ buf = call.buf /\ IsRequest(call, cmsg)
        /\ call.type # "CRYPT" => NativeBuf(call) = buf /\ buf = <<>>
        /\ call.buf = <<>> => NativeBuf(call) = <<>>
    BY <1>1, CallFacts DEF ClientPart, IsRequest
  <2>3. ~ClientGone' /\ (ServerGone' <=> ServerGone) /\ InCall'
    BY <2>1 DEF ClientGone, ServerGone, InCall
  <2>4. CASE s2c = <<>>
    <3>1. sEnd = "eof" /\ s2c' = <<>> /\ cmsg' = cmsg
      BY <1>3, <2>4 DEF ClientReadMsg
    <3>2. ServerGone /\ ClientPart'
      BY <2>1, <2>2, <3>1 DEF Coupling, ClientPart, InCall
    <3>3. ctx' = call.ctx \/ call.type # "CRYPT"
      BY <2>1, <2>2, <3>1 DEF IsRequest
    <3>4. ServerGonePart'
      BY <2>1, <3>1, <3>3 DEF ServerGonePart
    <3> QED  BY <1>1, <2>1, <2>3, <3>2, <3>4 DEF Coupling
  <2>5. CASE s2c # <<>>
    <3>1. PICK m \in Msg : /\ IsResult(call, m.ctx)
                           /\ s2c = <<Hdr(m)>> \/ s2c = <<Hdr(m)>> \o Raw(NativeBuf(call))
      <4>1. CASE ServerGone
        BY <1>1, <2>5, <4>1 DEF Coupling, ServerGonePart, ReplyHeader, WholeReply
      <4>2. CASE ~ServerGone
        BY <1>1, <2>5, <4>2 DEF Coupling, BothUp, Unread, Loading, Ahead, Loaded, Answered,
                               HalfReplied, Replied, ReplyHeader, WholeReply
      <4> QED  BY <4>1, <4>2
    <3>2. Head(s2c).kind = "msg" /\ Head(s2c).msg = m
      BY <2>2, <3>1, StreamShapes, ElementKinds
    <3>3. cmsg' = m /\ s2c' = Tail(s2c)
      BY <2>5, <3>2 DEF ClientReadMsg
    <3>4. /\ s2c = <<Hdr(m)>> => s2c' = <<>>
          /\ s2c = <<Hdr(m)>> \o Raw(NativeBuf(call)) => s2c' = Raw(NativeBuf(call))
      BY <2>2, <3>3, StreamShapes
    <3>5. ClientPart'
      BY <2>1, <2>2, <2>3, <3>1, <3>3 DEF ClientPart
    <3>6. CASE ServerGone
      <4>1. call.type = "CRYPT" => ctx' = NativeCtx(call)
        BY <2>1, <3>1, <3>3 DEF IsResult
      <4>2. call.type # "CRYPT" => s2c' = <<>>
        BY <2>2, <3>1, <3>4, StreamShapes
      <4>3. ServerGonePart'
        BY <2>1, <3>1, <3>4, <4>1, <4>2 DEF ServerGonePart
      <4> QED  BY <1>1, <2>1, <2>3, <3>5, <3>6, <4>3 DEF Coupling
    <3>7. CASE ~ServerGone
      <4>1. HalfReplied \/ Replied
        BY <1>1, <2>5, <3>7 DEF Coupling, BothUp, Unread, Loading, Ahead, Loaded, Answered
      <4>2. CASE HalfReplied
        <5>1. s2c' = <<>>
          <6>1. PICK n \in Msg : s2c = <<Hdr(n)>>
            BY <4>2 DEF HalfReplied, ReplyHeader
          <6> QED  BY <3>3, <6>1, EmptyBuffer, StreamShapes
        <5> QED  BY <1>1, <2>1, <2>3, <3>5, <3>7, <4>2, <5>1 DEF Coupling, BothUp, HalfReplied
      <4>3. CASE Replied
        <5>1. s2c' = Raw(NativeBuf(call))
          <6>1. PICK n \in Msg : s2c = <<Hdr(n)>> \o Raw(NativeBuf(call))
            BY <4>3 DEF Replied, WholeReply
          <6> QED  BY <2>2, <3>3, <6>1, StreamShapes
        <5>2. call.type # "CRYPT" => s2c' = <<>>
          BY <2>2, <5>1, StreamShapes
        <5> QED  BY <1>1, <2>1, <2>3, <3>5, <3>7, <4>3, <5>1, <5>2 DEF Coupling, BothUp, Replied
      <4> QED  BY <4>1, <4>2, <4>3
    <3> QED  BY <3>6, <3>7
  <2> QED  BY <2>4, <2>5
<1> QED  BY <1>2, <1>3

LEMMA ClientReadBufCoupling ==
  ASSUME TypeOK, Coupling, ClientReadBuf
  PROVE  Coupling'
<1>1. cli = "readBuf" /\ ~ClientGone /\ InCall /\ ClientPart /\ cEnd = "open"
  BY DEF ClientReadBuf, ClientGone, InCall, Coupling
<1>2. CASE s2c = <<>> /\ sEnd = "reset" /\ ClientEnds("dead") /\ UNCHANGED c2s
  BY <1>1, <1>2, ClientEndsCoupling
<1>3. CASE ~(s2c = <<>> /\ sEnd = "reset" /\ ClientEnds("dead") /\ UNCHANGED c2s)
  <2>1. /\ s2c # <<>> \/ sEnd = "eof" \/ buf = <<>>
        /\ buf' = Overlay(buf, Taken(s2c, Len(buf)))
        /\ s2c' = Rest(s2c, Len(buf)) /\ cli' = "done"
        /\ UNCHANGED <<ctx, call, cmsg, csent, cEnd, sEnd, c2s, srv, smsg, sbuf, left, ssent>>
    BY <1>3 DEF ClientReadBuf, serverVars
  <2> DEFINE out == NativeBuf(call)
  <2>2. /\ call \in Call /\ out \in Buffer /\ out \in Seq(Byte) /\ buf = call.buf
        /\ buf \in Seq(Byte) /\ Len(buf) = Len(out) /\ (buf = <<>> => out = <<>>)
    BY <1>1, CallFacts, BufferSeq DEF ClientPart, TypeOK
  <2>3. ~ClientGone' /\ (ServerGone' <=> ServerGone) /\ InCall'
    BY <2>1 DEF ClientGone, ServerGone, InCall
  <2>4. s2c = Raw(out) => buf' = out /\ s2c' = <<>>
    BY <2>1, <2>2, ReadWhole
  <2>5. s2c = <<>> => s2c' = <<>>
    BY <2>1, <2>2, LenProperties, SubSeqEmpty DEF Rest, Smaller
  <2>6. CASE ServerGone
    <3>1. s2c' = <<>>
      BY <1>1, <2>4, <2>5, <2>6 DEF Coupling, ServerGonePart
    <3>2. ClientPart' /\ ServerGonePart'
      BY <1>1, <2>1, <2>3, <2>6, <3>1 DEF Coupling, ClientPart, ServerGonePart
    <3> QED  BY <1>1, <2>1, <2>3, <2>6, <3>2 DEF Coupling
  <2>7. CASE ~ServerGone
    <3>1. sEnd = "open" /\ BothUp /\ IsResult(call, ctx)
      BY <1>1, <2>7 DEF Coupling, ClientPart
    <3>2. srv = "readMsg" /\ s2c = Raw(out) /\ c2s = <<>>
      <4>1. CASE srv = "writeBuf" /\ s2c = <<>> /\ sbuf = out /\ sbuf # <<>>
        BY <2>1, <2>2, <3>1, <4>1
      <4> QED  BY <1>1, <3>1, <4>1 DEF BothUp
    <3>3. ClientPart'
      BY <2>1, <2>2, <2>3, <2>4, <3>1, <3>2 DEF ClientPart
    <3>4. BothUp'
      BY <2>1, <2>4, <3>2 DEF BothUp
    <3> QED  BY <1>1, <2>1, <2>3, <2>7, <3>3, <3>4 DEF Coupling
  <2> QED  BY <2>6, <2>7
<1> QED  BY <1>2, <1>3

LEMMA ClientOtherCoupling ==
  ASSUME TypeOK, Coupling, ClientReturn \/ destroy \/ ClientCrash
  PROVE  Coupling'
<1>1. CASE ClientReturn
  <2>1. /\ cli = "done" /\ cli' = "idle" /\ ~ClientGone /\ ~ClientGone' /\ ~InCall'
        /\ buf' = <<>> /\ call' = NoCall
        /\ UNCHANGED <<srv, cEnd, sEnd, c2s, s2c>>
    BY <1>1 DEF ClientReturn, ClientGone, InCall, serverVars, socketVars
  <2>2. ClientPart'
    BY <2>1 DEF ClientPart
  <2>3. (~ServerGone => BothUp') /\ (ServerGone => ServerGonePart')
    BY <2>1 DEF Coupling, BothUp, ServerGonePart
  <2> QED  BY <2>1, <2>2, <2>3 DEF Coupling, ServerGone
<1>2. CASE destroy
  <2>1. cli = "idle" /\ ~ClientGone
    BY <1>2 DEF destroy, ClientGone
  <2>2. CASE sEnd # "open"
    BY <1>2, <2>1, <2>2, ClientEndsCoupling DEF destroy
  <2>3. CASE sEnd = "open"
    <3> DEFINE bye == [Uninit EXCEPT !.type = "EXIT"]
    <3>1. bye \in Msg
      BY UninitType DEF Msg, MsgType
    <3> HIDE DEF bye
    <3>2. c2s' = Append(c2s, Hdr(bye)) /\ ClientEnds("exited")
      BY <1>2, <2>3 DEF destroy, bye
    <3>3. srv = "readMsg" /\ c2s = <<>> /\ ~ServerGone
      BY <2>1, <2>3 DEF Coupling, BothUp
    <3>4. c2s' = <<Hdr(bye)>> \o Raw(<<>>)
      BY <3>1, <3>2, <3>3, EmptyBuffer, StreamShapes
    <3>5. /\ ClientGone' /\ cEnd' # "open" /\ s2c' = <<>> /\ ~InCall' /\ cli' = "exited"
          /\ UNCHANGED <<srv, smsg, sbuf, left, ssent, sEnd>>
      BY <3>2 DEF ClientEnds, ClientGone, CloseWith, InCall, serverVars
    <3>6. ClientPart' /\ ~ServerGone'
      BY <3>3, <3>5 DEF ClientPart, ServerGone
    <3>7. ClientGonePart'
      BY <3>1, <3>3, <3>4, <3>5, EmptyBuffer DEF ClientGonePart
    <3> QED  BY <2>3, <3>5, <3>6, <3>7 DEF Coupling
  <2> QED  BY <2>2, <2>3
<1>3. CASE ClientCrash
  BY <1>3, ClientEndsCoupling DEF ClientCrash
<1> QED  BY <1>1, <1>2, <1>3

\* The buffer malloc returns.
LEMMA MallocType ==
  ASSUME NEW n \in 0..MaxLen
  PROVE  [i \in 1..n |-> Junk] \in Seq(Byte) /\ Len([i \in 1..n |-> Junk]) = n
<1>1. n \in Nat /\ [i \in 1..n |-> Junk] \in [1..n -> Byte]
  BY PayloadAssumption, DataAssumption
<1>2. [i \in 1..n |-> Junk] \in Seq(Byte)
  BY <1>1, SeqDef
<1> QED  BY <1>1, <1>2, LenProperties

\* While the compartment keeps its end open, what it does cannot disturb the
\* client's own part.
LEMMA ServerKeepsClient ==
  ASSUME TypeOK, Coupling, UNCHANGED <<sEnd, cEnd, clientVars>>
  PROVE  /\ ClientPart' /\ (ClientGone' <=> ClientGone)
         /\ (ClientGone <=> cEnd # "open") /\ (ClientGone' <=> cEnd' # "open")
BY DEF Coupling, ClientPart, ClientGone, InCall, clientVars

\* A message is dispatched after the client has gone.
LEMMA DispatchAlone ==
  ASSUME MaxLen <= SegMax, TypeOK, Coupling, ClientGone, srv = "readMsg", NEW m \in Msg, NEW d \in Buffer,
         d # <<>> => m.type = "CRYPT" /\ Len(d) = m.buflen,
         Dispatch(m, Raw(d)), UNCHANGED <<ssent, cEnd, s2c, clientVars>>
  PROVE  Coupling'
<1>1. ~ServerGone /\ s2c = <<>>
  BY DEF ServerGone, Coupling
<1>2. CASE \E how \in {"exited", "dead"} : ServerEnds(how, Raw(d))
  BY <1>1, <1>2, ServerEndsCoupling
<1>3. CASE ~\E how \in {"exited", "dead"} : ServerEnds(how, Raw(d))
  <2>1. sEnd' = sEnd /\ c2s' = Raw(d)
    BY <1>3 DEF Dispatch
  <2>2. /\ ClientPart' /\ ClientGone' /\ cEnd' # "open" /\ sEnd' = "open" /\ s2c' = <<>>
    BY <1>1, <2>1, ServerKeepsClient DEF Coupling
  <2>3. /\ m.buflen \in Nat /\ Len(d) \in Nat /\ (Raw(d) = <<>> <=> d = <<>>)
        /\ Len([i \in 1..m.buflen |-> Junk]) = m.buflen
        /\ (d # <<>> => Len(d) # 0) /\ ToInt(m.buflen) = m.buflen
    <3>1. m.buflen \in 0..MaxLen /\ d \in Seq(Byte)
      BY BufferSeq DEF Msg
    <3>2. m.buflen \in Nat /\ Len(d) \in Nat
      BY <3>1, DataAssumption, LenProperties
    <3>3. Len([i \in 1..m.buflen |-> Junk]) = m.buflen
      BY <3>1, MallocType
    <3>4. (Raw(d) = <<>> <=> d = <<>>) /\ (d # <<>> => Len(d) # 0)
      BY <3>1, StreamShapes, EmptySeq
    <3>5. ToInt(m.buflen) = m.buflen
      BY <3>1, IntType, SizeAssumption, DataAssumption
    <3> QED  BY <3>2, <3>3, <3>4, <3>5
  <2>4. ClientGonePart' /\ ~ServerGone'
    <3>1. CASE m.type \in {"INIT", "INIT_IV", "SET_IV"}
      BY <2>1, <2>3, <3>1 DEF Dispatch, ClientGonePart, ServerGone
    <3>2. CASE m.type = "CRYPT"
      <4>1. /\ smsg' = m /\ left' = m.buflen /\ sbuf' = [i \in 1..m.buflen |-> Junk]
            /\ srv' = IF m.buflen = 0 THEN "crypt" ELSE "readBuf"
        BY <1>3, <2>3, <3>2 DEF Dispatch
      <4>2. CASE m.buflen = 0
        BY <2>1, <2>3, <4>1, <4>2 DEF ClientGonePart, ServerGone
      <4>3. CASE m.buflen # 0
        <5>1. srv' = "readBuf" /\ left' = smsg'.buflen /\ left' > 0 /\ Len(sbuf') = left'
          BY <2>3, <4>1, <4>3
        <5>2. c2s' = Raw(d) /\ (d # <<>> => Len(d) = left')
          BY <2>1, <4>1
        <5> QED  BY <5>1, <5>2 DEF ClientGonePart, ServerGone
      <4> QED  BY <4>2, <4>3
    <3>3. CASE m.type = "EXIT"
      BY <1>3, <3>3 DEF Dispatch
    <3>4. CASE m.type = "OTHER"
      BY <2>1, <2>3, <3>4 DEF Dispatch, ClientGonePart, ServerGone
    <3> QED  BY <3>1, <3>2, <3>3, <3>4 DEF Msg, MsgType, CallType
  <2> QED  BY <2>2, <2>4 DEF Coupling
<1> QED  BY <1>2, <1>3

\* The request of a client that is waiting for its answer is dispatched.
LEMMA DispatchRequest ==
  ASSUME MaxLen <= SegMax, TypeOK, Coupling, cli \in {"writeBuf", "readMsg"}, Unread, sEnd = "open",
         Dispatch(cmsg, BufferSent), UNCHANGED <<ssent, cEnd, s2c, clientVars>>
  PROVE  Coupling'
<1>1. ~ServerGone /\ ~ClientGone /\ s2c = <<>> /\ InCall /\ ClientPart
  BY DEF ServerGone, ClientGone, InCall, Unread, Coupling
<1>2. /\ cmsg \in Msg /\ call \in Call /\ IsRequest(call, cmsg) /\ buf = call.buf /\ buf \in Buffer
      /\ cmsg.buflen = Len(buf) /\ cmsg.buflen \in 0..MaxLen
      /\ cmsg.type \in CallType
      /\ cmsg.type # "CRYPT" => buf = <<>>
  BY <1>1 DEF ClientPart, TypeOK, IsRequest, Call, Msg
<1>5. ToInt(cmsg.buflen) = cmsg.buflen
  BY <1>2, IntType, SizeAssumption, DataAssumption
<1>3. CASE \E how \in {"exited", "dead"} : ServerEnds(how, BufferSent)
  BY <1>1, <1>3, ServerEndsCoupling
<1>4. CASE ~\E how \in {"exited", "dead"} : ServerEnds(how, BufferSent)
  <2>1. sEnd' = sEnd /\ c2s' = BufferSent /\ BufferSent' = BufferSent /\ cli' = cli /\ call' = call
        /\ buf' = buf /\ cmsg' = cmsg
    BY <1>2, <1>4 DEF Dispatch, BufferSent, clientVars, CallType
  <2>2. /\ ClientPart' /\ ~ClientGone' /\ cEnd' = "open" /\ sEnd' = "open" /\ s2c' = <<>>
    BY <1>1, <2>1, ServerKeepsClient DEF Coupling
  <2>3. /\ Len(buf) \in Nat /\ (Raw(buf) = <<>> <=> buf = <<>>) /\ (Len(buf) = 0 <=> buf = <<>>)
        /\ (buf = <<>> => BufferSent = <<>>)
        /\ [i \in 1..cmsg.buflen |-> Junk] \in Seq(Byte)
        /\ Len([i \in 1..cmsg.buflen |-> Junk]) = Len(buf)
    <3>1. buf \in Seq(Byte)
      BY <1>2, BufferSeq
    <3> QED  BY <1>2, <3>1, MallocType, StreamShapes, EmptySeq, LenProperties DEF BufferSent
  <2>4. CASE cmsg.type # "CRYPT"
    <3>1. smsg' = Served(cmsg) /\ srv' = "writeMsg"
      BY <1>2, <2>4 DEF Dispatch, CallType
    <3>2. IsResult(call, smsg'.ctx) /\ smsg'.type = call.type /\ call.type # "CRYPT"
      BY <1>2, <2>4, <3>1, ServedResult DEF IsRequest
    <3>3. Answered' /\ buf' = <<>>
      BY <1>2, <2>1, <2>2, <2>3, <2>4, <3>1, <3>2 DEF Answered
    <3>4. BothUp' /\ ~ServerGone'
      BY <2>1, <3>1, <3>3 DEF BothUp, Ahead, ServerGone
    <3> QED  BY <2>2, <3>4 DEF Coupling
  <2>5. CASE cmsg.type = "CRYPT"
    <3>1. /\ smsg' = cmsg /\ left' = cmsg.buflen /\ sbuf' = [i \in 1..cmsg.buflen |-> Junk]
          /\ srv' = IF cmsg.buflen = 0 THEN "crypt" ELSE "readBuf"
      BY <1>4, <1>5, <2>5 DEF Dispatch
    <3>2. CASE buf = <<>>
      <4>1. sbuf' = <<>>
        BY <2>3, <3>1, <3>2, EmptySeq
      <4>2. Loaded'
        BY <1>2, <2>1, <2>2, <2>3, <2>5, <3>1, <3>2, <4>1 DEF Loaded
      <4>3. BothUp' /\ ~ServerGone'
        BY <1>2, <2>1, <2>3, <3>1, <3>2, <4>2 DEF BothUp, Ahead, ServerGone
      <4> QED  BY <2>2, <4>3 DEF Coupling
    <3>3. CASE buf # <<>>
      <4>1. Loading'
        BY <1>2, <2>1, <2>2, <2>3, <3>1, <3>3 DEF Loading
      <4>2. BothUp' /\ ~ServerGone'
        BY <1>2, <2>1, <2>3, <3>1, <3>3, <4>1 DEF BothUp, ServerGone
      <4> QED  BY <2>2, <4>2 DEF Coupling
    <3> QED  BY <3>2, <3>3
  <2> QED  BY <2>4, <2>5
<1> QED  BY <1>3, <1>4

LEMMA ServerReadMsgCoupling ==
  ASSUME MaxLen <= SegMax, TypeOK, Coupling, ServerReadMsg
  PROVE  Coupling'
<1>1. srv = "readMsg" /\ ~ServerGone /\ sEnd = "open" /\ UNCHANGED <<ssent, cEnd, s2c, clientVars>>
  BY DEF ServerReadMsg, ServerGone, Coupling
<1>2. CASE c2s # <<>>
  <2>1. PICK m \in IF Head(c2s).kind = "msg" THEN {Head(c2s).msg} ELSE Msg : Dispatch(m, Tail(c2s))
    BY <1>2 DEF ServerReadMsg
  <2>2. CASE ClientGone
    <3>1. PICK n \in Msg, d \in Buffer :
             /\ c2s = <<Hdr(n)>> \o Raw(d)
             /\ d # <<>> => n.type = "CRYPT" /\ Len(d) = n.buflen
      BY <1>1, <1>2, <2>2 DEF Coupling, ClientGonePart
    <3>2. m = n /\ Tail(c2s) = Raw(d)
      BY <2>1, <3>1, StreamShapes, ElementKinds
    <3> QED  BY <1>1, <2>1, <2>2, <3>1, <3>2, DispatchAlone
  <2>3. CASE ~ClientGone
    <3>1. BothUp /\ ClientPart /\ cmsg \in Msg /\ buf \in Buffer
      BY <1>1, <2>3 DEF Coupling, TypeOK
    <3>2. cli \in {"writeBuf", "readMsg"} /\ Unread
      BY <1>1, <1>2, <2>3, <3>1 DEF BothUp, Loading, Ahead, Loaded, Answered, HalfReplied, Replied,
                                    TypeOK, ClientGone
    <3>3. m = cmsg /\ Tail(c2s) = BufferSent
      BY <2>1, <3>1, <3>2, StreamShapes, ElementKinds DEF Unread, BufferSent
    <3> QED  BY <1>1, <2>1, <3>2, <3>3, DispatchRequest
  <2> QED  BY <2>2, <2>3
<1>3. CASE c2s = <<>> /\ cEnd = "eof" /\ Dispatch(smsg, c2s)
  <2>1. ClientGone /\ smsg \in Msg /\ c2s = Raw(<<>>)
    BY <1>3, EmptyBuffer, StreamShapes DEF Coupling, TypeOK
  <2> QED  BY <1>1, <1>3, <2>1, EmptyBuffer, DispatchAlone
<1>4. CASE c2s = <<>> /\ ServerEnds("dead", c2s)
  BY <1>1, <1>4, ServerEndsCoupling
<1> QED  BY <1>2, <1>3, <1>4 DEF ServerReadMsg

LEMMA ServerReadBufCoupling ==
  ASSUME TypeOK, Coupling, ServerReadBuf
  PROVE  Coupling'
<1>1. srv = "readBuf" /\ ~ServerGone /\ sEnd = "open" /\ UNCHANGED <<smsg, ssent, cEnd, s2c, clientVars>>
  BY DEF ServerReadBuf, ServerGone, Coupling
<1>2. CASE c2s = <<>> /\ cEnd = "reset" /\ ServerEnds("dead", c2s)
  BY <1>1, <1>2, ServerEndsCoupling
<1>3. CASE ~(c2s = <<>> /\ cEnd = "reset" /\ ServerEnds("dead", c2s))
  <2>1. /\ c2s # <<>> \/ cEnd = "eof"
        /\ sbuf' = Overlay(sbuf, Taken(c2s, smsg.buflen)) /\ c2s' = Rest(c2s, smsg.buflen)
        /\ left' = LeftAfter(left, Smaller(smsg.buflen, Len(c2s)))
        /\ srv' = IF left' = 0 THEN "crypt" ELSE "readBuf"
        /\ sEnd' = sEnd
    BY <1>3 DEF ServerReadBuf
  <2>2. /\ ClientPart' /\ (ClientGone' <=> ClientGone) /\ ~ServerGone'
        /\ (ClientGone <=> cEnd # "open") /\ (ClientGone' <=> cEnd' # "open")
    BY <1>1, <2>1, ServerKeepsClient DEF ServerGone
  <2>3. ASSUME NEW d \in Buffer, c2s = Raw(d), Len(d) = smsg.buflen, Len(sbuf) = Len(d), left = Len(d)
        PROVE  sbuf' = d /\ c2s' = <<>> /\ left' = 0
    <3>1. d \in Seq(Byte) /\ sbuf \in Seq(Byte) /\ Len(d) \in Nat
      BY BufferSeq, LenProperties DEF TypeOK
    <3> QED  BY <2>1, <2>3, <3>1, ReadWhole DEF LeftAfter
  <2>4. CASE ClientGone
    <3>1. PICK d \in Buffer : c2s = Raw(d) /\ (d # <<>> => Len(d) = left)
      BY <1>1, <2>4 DEF Coupling, ClientGonePart
    <3>2. left = smsg.buflen /\ left > 0 /\ Len(sbuf) = left
      BY <1>1, <2>4 DEF Coupling, ClientGonePart
    <3>3. CASE d # <<>>
      <4>1. c2s' = <<>> /\ srv' = "crypt"
        BY <2>1, <2>3, <3>1, <3>2, <3>3
      <4> QED  BY <1>1, <2>1, <2>2, <2>4, <4>1 DEF Coupling, ClientGonePart
    <3>4. CASE d = <<>>
      <4>1. c2s = <<>> /\ Len(c2s) = 0
        BY <3>1, <3>4, EmptyBuffer, StreamShapes, UninitType
      <4>2. smsg.buflen \in Nat /\ left \in Int
        BY DataAssumption DEF TypeOK, Msg
      <4>3. Smaller(smsg.buflen, Len(c2s)) = 0 /\ c2s' = <<>> /\ left' = left
        BY <2>1, <3>2, <4>1, <4>2, SubSeqEmpty DEF Smaller, Rest, LeftAfter
      <4>4. srv' = "readBuf" /\ Len(sbuf') = left /\ c2s' = Raw(<<>>)
        <5>1. Taken(c2s, smsg.buflen) \in Seq(Byte)
          BY <4>2, StreamType DEF TypeOK
        <5>2. Len(sbuf') = Len(sbuf)
          BY <2>1, <5>1, OverlayType DEF TypeOK
        <5> QED  BY <2>1, <3>1, <3>2, <3>4, <4>1, <4>3, <5>2
      <4> QED  BY <1>1, <2>1, <2>2, <2>4, <3>2, <4>3, <4>4, EmptyBuffer DEF Coupling, ClientGonePart
    <3> QED  BY <3>3, <3>4
  <2>5. CASE ~ClientGone
    <3>1. BothUp /\ ClientPart /\ cEnd = "open" /\ c2s # <<>>
      BY <1>1, <2>1, <2>5 DEF Coupling
    <3>2. cli \in {"writeBuf", "readMsg"} /\ Loading
      BY <1>1, <2>5, <3>1 DEF BothUp, Unread, Ahead, Loaded, Answered, HalfReplied, Replied,
                              TypeOK, ClientGone
    <3>3. cli = "readMsg" /\ c2s = Raw(buf) /\ smsg = cmsg /\ s2c = <<>>
      BY <3>1, <3>2 DEF Loading, BufferSent
    <3>4. buf \in Buffer /\ Len(buf) = smsg.buflen
      BY <3>1, <3>3 DEF ClientPart, TypeOK, IsRequest
    <3>5. sbuf' = buf /\ c2s' = <<>> /\ srv' = "crypt"
      BY <2>1, <2>3, <3>2, <3>3, <3>4 DEF Loading
    <3>6. Loaded'
      <4>1. buf = call.buf /\ IsRequest(call, cmsg) /\ Len(buf) # 0
        BY <3>1, <3>2, <3>3 DEF ClientPart, Loading
      <4>2. smsg.type = "CRYPT"
        BY <3>3, <4>1, EmptySeq DEF IsRequest
      <4> QED  BY <1>1, <3>3, <3>5, <4>2 DEF Loaded, clientVars
    <3>7. BothUp'
      BY <1>1, <3>3, <3>6 DEF BothUp, Ahead, clientVars
    <3> QED  BY <1>1, <2>1, <2>2, <2>5, <3>7 DEF Coupling
  <2> QED  BY <2>4, <2>5
<1> QED  BY <1>2, <1>3

\* Where the compartment is serving, the client waits for the answer, or is
\* still about to write an empty buffer.
LEMMA ServingFacts ==
  ASSUME TypeOK, Coupling, ~ClientGone, ~ServerGone, srv \in {"crypt", "writeMsg"}
  PROVE  /\ cli \in {"writeBuf", "readMsg"} /\ (cli = "writeBuf" => buf = <<>>)
         /\ srv = "crypt" => Loaded
         /\ srv = "writeMsg" => Answered
         /\ call \in Call /\ buf = call.buf /\ cmsg \in Msg /\ IsRequest(call, cmsg)
<1>1. BothUp /\ ClientPart
  BY DEF Coupling
<1>2. cli \in {"writeBuf", "readMsg"}
  BY <1>1 DEF BothUp, TypeOK, ClientGone
<1> QED  BY <1>1, <1>2 DEF BothUp, Unread, Loading, Ahead, Loaded, Answered, HalfReplied, Replied,
                           ClientPart, InCall, TypeOK

LEMMA ServerCryptCoupling ==
  ASSUME TypeOK, Coupling, ServerCrypt
  PROVE  Coupling'
<1>1. /\ srv = "crypt" /\ srv' = "writeMsg" /\ ~ServerGone /\ ~ServerGone' /\ sEnd = "open"
      /\ UNCHANGED <<left, ssent, socketVars, clientVars>>
  BY DEF ServerCrypt, ServerGone, Coupling
<1>2. /\ ClientPart' /\ (ClientGone' <=> ClientGone)
      /\ (ClientGone <=> cEnd # "open") /\ (ClientGone' <=> cEnd' # "open")
  BY <1>1, ServerKeepsClient DEF socketVars
<1>3. CASE ClientGone
  BY <1>1, <1>2, <1>3 DEF Coupling, ClientGonePart, socketVars
<1>4. CASE ~ClientGone
  <2>1. /\ cli \in {"writeBuf", "readMsg"} /\ (cli = "writeBuf" => buf = <<>>) /\ Loaded
        /\ call \in Call /\ buf = call.buf /\ cmsg \in Msg /\ IsRequest(call, cmsg)
    BY <1>1, <1>4, ServingFacts
  <2>2. cmsg.type = "CRYPT"
    BY <2>1 DEF Loaded
  <2>3. /\ sbuf' = NativeBuf(call) /\ smsg'.type = call.type /\ IsResult(call, smsg'.ctx)
    BY <2>1, <2>2, CryptResult DEF ServerCrypt, Loaded
  <2>4. Answered'
    BY <1>1, <2>1, <2>3 DEF Loaded, Answered, socketVars, clientVars
  <2>5. BothUp'
    BY <1>1, <2>1, <2>4 DEF BothUp, Ahead, clientVars
  <2> QED  BY <1>1, <1>2, <1>4, <2>5 DEF Coupling, socketVars
<1> QED  BY <1>3, <1>4

LEMMA ServerWriteMsgCoupling ==
  ASSUME MaxLen <= SegMax, TypeOK, Coupling, ServerWriteMsg
  PROVE  Coupling'
<1>1. srv = "writeMsg" /\ ~ServerGone /\ sEnd = "open" /\ UNCHANGED <<smsg, sbuf, cEnd, clientVars>>
  BY DEF ServerWriteMsg, ServerGone, Coupling
<1>2. CASE cEnd # "open"
  BY <1>1, <1>2, ServerEndsCoupling DEF ServerWriteMsg
<1>3. CASE cEnd = "open"
  <2>1. /\ s2c' = Append(s2c, Hdr(smsg)) /\ ssent' = 0
        /\ srv' = IF smsg.type = "CRYPT" /\ sbuf # <<>> THEN "writeBuf" ELSE "readMsg"
        /\ smsg.type = "CRYPT" => left' = Len(sbuf)
        /\ UNCHANGED <<sEnd, c2s>>
    <3>1. Len(sbuf) \in 0..MaxLen /\ (Len(sbuf) = 0 <=> sbuf = <<>>)
      BY BufferSeq, EmptySeq DEF TypeOK
    <3>2. ToInt(Len(sbuf)) = Len(sbuf)
      BY <3>1, IntType, SizeAssumption, DataAssumption
    <3> QED  BY <1>3, <3>1, <3>2 DEF ServerWriteMsg
  <2>2. /\ ClientPart' /\ ~ClientGone /\ ~ClientGone' /\ ~ServerGone' /\ sEnd' = "open" /\ cEnd' = "open"
    BY <1>1, <1>3, <2>1, ServerKeepsClient DEF ServerGone
  <2>3. /\ cli \in {"writeBuf", "readMsg"} /\ (cli = "writeBuf" => buf = <<>>) /\ Answered
        /\ call \in Call /\ buf = call.buf /\ cmsg \in Msg /\ IsRequest(call, cmsg)
    BY <1>1, <2>2, ServingFacts
  <2>4. /\ InCall /\ ClientPart /\ smsg \in Msg
    BY <2>3 DEF InCall, Coupling, TypeOK
  <2>5. /\ NativeBuf(call) \in Buffer /\ (buf = <<>> => NativeBuf(call) = <<>>)
        /\ call.type # "CRYPT" => NativeBuf(call) = <<>>
    BY <2>3, <2>4, CallFacts DEF IsRequest
  <2>6. c2s' = <<>> /\ s2c' = <<Hdr(smsg)>>
    BY <2>1, <2>3, <2>4, EmptyBuffer, StreamShapes DEF Answered
  <2>7. CASE smsg.type = "CRYPT" /\ sbuf # <<>>
    <3>1. HalfReplied'
      BY <1>1, <2>1, <2>3, <2>4, <2>6, <2>7 DEF HalfReplied, ReplyHeader, Answered, clientVars
    <3>2. cli' = "readMsg"
      BY <1>1, <2>3, <2>5, <2>7 DEF Answered, clientVars
    <3> QED  BY <1>1, <2>2, <3>1, <3>2 DEF Coupling, BothUp, Ahead
  <2>8. CASE ~(smsg.type = "CRYPT" /\ sbuf # <<>>)
    <3>1. NativeBuf(call) = <<>>
      BY <2>3, <2>5, <2>8 DEF Answered
    <3>2. s2c' = <<Hdr(smsg)>> \o Raw(NativeBuf(call))
      BY <2>4, <2>6, <3>1, EmptyBuffer, StreamShapes
    <3>3. Replied'
      BY <1>1, <2>1, <2>3, <2>4, <2>6, <2>8, <3>2 DEF Replied, WholeReply, Answered, clientVars
    <3>4. cli' = cli /\ buf' = buf
      BY <1>1 DEF clientVars
    <3> QED  BY <1>1, <2>2, <2>3, <3>3, <3>4 DEF Coupling, BothUp, Ahead
  <2> QED  BY <2>7, <2>8
<1> QED  BY <1>2, <1>3

LEMMA ServerWriteBufCoupling ==
  ASSUME MaxLen <= SegMax, TypeOK, Coupling, ServerWriteBuf
  PROVE  Coupling'
<1>1. srv = "writeBuf" /\ ~ServerGone /\ sEnd = "open" /\ UNCHANGED <<smsg, cEnd, clientVars>>
  BY DEF ServerWriteBuf, ServerGone, Coupling
<1>2. CASE cEnd # "open"
  BY <1>1, <1>2, ServerEndsCoupling DEF ServerWriteBuf
<1>3. CASE cEnd = "open"
  <2>1. BothUp /\ ClientPart /\ ~ClientGone
    BY <1>1, <1>3 DEF Coupling
  <2>2. /\ sbuf = NativeBuf(call) /\ ssent = 0 /\ sbuf # <<>> /\ left = Len(sbuf) /\ c2s = <<>>
        /\ \/ cli = "readBuf" /\ s2c = <<>>
           \/ cli \in {"writeBuf", "readMsg"} /\ HalfReplied /\ (cli = "writeBuf" => buf = <<>>)
    BY <1>1, <2>1 DEF BothUp, Unread, Loading, Ahead, Loaded, Answered, HalfReplied, Replied,
                      TypeOK, ClientGone
  <2>3. InCall
    BY <2>2 DEF InCall
  <2>4. NativeBuf(call) \in Buffer /\ buf = call.buf /\ (buf = <<>> => NativeBuf(call) = <<>>)
    BY <2>1, <2>2, <2>3, CallFacts DEF ClientPart
  <2>5. cli # "writeBuf"
    BY <2>2, <2>4
  <2>6. /\ sbuf \in Seq(Byte) /\ Len(sbuf) \in Nat
        /\ NextSegment(sbuf, ssent) = sbuf /\ WriteLen(sbuf) = Len(sbuf)
    BY <2>2, BufferSeq, OneSegment, DataAssumption, SizeAssumption DEF TypeOK
  <2>7. s2c' = s2c \o Raw(NativeBuf(call)) /\ srv' = "readMsg" /\ UNCHANGED <<sEnd, c2s>>
    BY <1>3, <2>2, <2>6 DEF ServerWriteBuf, LeftAfter
  <2>8. /\ ClientPart' /\ ~ClientGone' /\ ~ServerGone' /\ sEnd' = "open" /\ cEnd' = "open" /\ cli' = cli
    BY <1>1, <1>3, <2>1, <2>7, ServerKeepsClient DEF ServerGone, clientVars
  <2>9. CASE cli = "readBuf"
    <3>1. s2c' = Raw(NativeBuf(call))
      BY <2>2, <2>4, <2>7, <2>9, UninitType, StreamShapes
    <3> QED  BY <1>1, <2>2, <2>7, <2>8, <2>9, <3>1 DEF Coupling, BothUp, clientVars
  <2>10. CASE cli = "readMsg"
    <3>1. PICK m \in Msg : IsResult(call, m.ctx) /\ s2c = <<Hdr(m)>>
      BY <2>2, <2>10 DEF HalfReplied, ReplyHeader
    <3>2. Replied'
      BY <1>1, <2>2, <2>7, <3>1 DEF Replied, WholeReply, clientVars
    <3> QED  BY <1>1, <2>7, <2>8, <2>10, <3>2 DEF Coupling, BothUp, Ahead
  <2> QED  BY <2>2, <2>5, <2>9, <2>10
<1> QED  BY <1>2, <1>3

\* The coupling is inductive.
LEMMA CouplingStep ==
  ASSUME MaxLen <= SegMax, TypeOK, Coupling, [Next]_vars
  PROVE  Coupling'
<1>1. CASE ClientStep \/ destroy \/ ClientCrash
  BY <1>1, ClientWriteMsgCoupling, ClientWriteBufCoupling, ClientReadMsgCoupling,
     ClientReadBufCoupling, ClientOtherCoupling DEF ClientStep
<1>2. CASE ServerStep
  BY <1>2, ServerReadMsgCoupling, ServerReadBufCoupling, ServerCryptCoupling,
     ServerWriteMsgCoupling, ServerWriteBufCoupling DEF ServerStep
<1>3. CASE ServerCrash
  BY <1>3, ServerEndsCoupling DEF ServerCrash
<1>4. CASE UNCHANGED vars
  BY <1>4 DEF Coupling, ClientPart, BothUp, ClientGonePart, ServerGonePart, Unread, Loading, Ahead,
              Loaded, Answered, HalfReplied, Replied, BufferSent, ClientGone, ServerGone, InCall,
              vars, clientVars, serverVars, socketVars
<1> QED  BY <1>1, <1>2, <1>3, <1>4, ApiCoupling DEF Next, Finished

THEOREM CouplingInvariant ==
  ASSUME MaxLen <= SegMax
  PROVE  Spec => [](TypeOK /\ Coupling)
<1>1. TypeOK /\ Coupling /\ [Next]_vars => Coupling'
  BY CouplingStep
<1>2. Init => Coupling
  BY InitCoupling
<1> QED  BY <1>1, <1>2, TypeCorrect, PTL DEF Spec

-----------------------------------------------------------------------------
(***************************************************************************)
(* What follows from the coupling.                                         *)
(***************************************************************************)
LEMMA FramingFromCoupling == TypeOK /\ Coupling => RequestFraming
<1> SUFFICES ASSUME TypeOK, Coupling PROVE RequestFraming
  OBVIOUS
<1>1. CASE ServerGone
  BY <1>1 DEF ServerGone, RequestFraming
<1>2. CASE ~ServerGone
  <2>1. ClientGonePart
    BY <1>2, UpThenClientGone DEF Coupling
  <2>2. ASSUME srv = "readMsg", c2s # <<>>
        PROVE  Head(c2s).kind = "msg"
    <3>1. PICK m \in Msg, d \in Buffer : c2s = <<Hdr(m)>> \o Raw(d)
      BY <2>1, <2>2 DEF ClientGonePart
    <3>2. Head(c2s) = Hdr(m)
      BY <3>1, StreamShapes
    <3> QED  BY <3>2, ElementKinds
  <2>3. ASSUME srv = "readBuf"
        PROVE  left > 0 /\ Len(c2s) <= left /\ \A i \in 1..Len(c2s) : c2s[i].kind = "byte"
    <3>1. PICK d \in Buffer : c2s = Raw(d) /\ (d # <<>> => Len(d) = left)
      BY <2>1, <2>3 DEF ClientGonePart
    <3>2. d \in Seq(Byte) /\ left > 0 /\ left \in Int
      BY <2>1, <2>3, BufferSeq DEF ClientGonePart, TypeOK
    <3>3. Len(d) <= left
      BY <3>1, <3>2, EmptySeq
    <3> QED  BY <3>1, <3>2, <3>3, RawSeq
  <2> QED  BY <2>2, <2>3 DEF RequestFraming
<1> QED  BY <1>1, <1>2

\* When a buffer is one segment, the compartment never takes a piece of a
\* buffer for a request or a request for a piece of a buffer, whoever
\* crashes and whenever.
THEOREM FramingKept ==
  ASSUME MaxLen <= SegMax
  PROVE  Spec => []RequestFraming
BY CouplingInvariant, FramingFromCoupling, PTL

LEMMA ReplyFromCoupling == TypeOK /\ Coupling => ReplyCorrect
<1> SUFFICES ASSUME TypeOK, Coupling, cli = "done", sEnd = "open"
             PROVE  /\ ctx.RoundKey = NativeCtx(call).RoundKey
                    /\ call.type # "INIT" => ctx.Iv = NativeCtx(call).Iv
                    /\ buf = NativeBuf(call)
  BY DEF ReplyCorrect
<1> QED  BY DEF Coupling, ClientPart, IsResult

\* When a buffer is one segment, a call that returns while the compartment
\* is alive has done to the context and to the buffer what the native call
\* does, for every library.
THEOREM RepliesAreNative ==
  ASSUME MaxLen <= SegMax
  PROVE  Spec => []ReplyCorrect
BY CouplingInvariant, ReplyFromCoupling, PTL

LEMMA QuietFromCoupling == TypeOK /\ Coupling => QuietBetweenCalls
<1> SUFFICES ASSUME TypeOK, Coupling, cli = "idle", sEnd = "open"
             PROVE  c2s = <<>> /\ s2c = <<>> /\ srv = "readMsg"
  BY DEF QuietBetweenCalls
<1>1. ~ClientGone /\ ~ServerGone
  BY DEF Coupling, ClientGone
<1> QED  BY <1>1 DEF Coupling, BothUp

\* When a buffer is one segment, a call leaves nothing behind for the next.
THEOREM CallsLeaveNothing ==
  ASSUME MaxLen <= SegMax
  PROVE  Spec => []QuietBetweenCalls
BY CouplingInvariant, QuietFromCoupling, PTL

-----------------------------------------------------------------------------
(***************************************************************************)
(* A call that finds the socket quiet goes on until it has ended, however  *)
(* long its buffer: nobody waits for ever, and nobody goes round.          *)
(***************************************************************************)
\* What holds of the stub with buffers of any length: each end tells of its
\* process, and the request says what the call is about until it is answered.
StubPart ==
  /\ ClientGone <=> cEnd # "open"
  /\ ServerGone <=> sEnd # "open"
  /\ cli = "idle" => buf = <<>>
  /\ cli \in {"writeMsg", "writeBuf", "readMsg"} =>
       /\ cmsg.type = call.type /\ cmsg.type \in CallType /\ cmsg.buflen = Len(buf)
       /\ cmsg.type # "CRYPT" => buf = <<>>
  /\ cli = "writeBuf" => cmsg.type = "CRYPT" /\ csent <= Len(buf)
  /\ cli \in {"readMsg", "readBuf"} /\ sEnd = "open" => csent = WriteLen(buf)

LEMMA StubApi ==
  ASSUME TypeOK, StubPart, Api
  PROVE  StubPart'
<1>1. PICK m \in Msg, d \in Buffer : Starts(m, d)
  BY ApiStarts DEF StubPart
<1>2. /\ cli = "idle" /\ cli' = "writeMsg" /\ cmsg' = m /\ buf' = d /\ call'.type = m.type
      /\ UNCHANGED <<srv, cEnd, sEnd>>
  BY <1>1 DEF Starts, StartCall, serverVars, socketVars
<1> QED  BY <1>1, <1>2 DEF Starts, StubPart, ClientGone, ServerGone

LEMMA StubStep ==
  ASSUME TypeOK, StubPart, [Next]_vars
  PROVE  StubPart'
<1>1. ASSUME NEW how \in {"exited", "dead"}, ClientEnds(how)
      PROVE  StubPart'
  BY <1>1 DEF ClientEnds, StubPart, ClientGone, ServerGone, CloseWith, serverVars
<1>2. ASSUME NEW how \in {"exited", "dead"}, NEW q, ServerEnds(how, q), UNCHANGED <<cEnd, clientVars>>
      PROVE  StubPart'
  BY <1>2 DEF ServerEnds, StubPart, ClientGone, ServerGone, CloseWith, clientVars
<1>3. CASE ClientWriteMsg
  <2>1. CASE ClientEnds("dead")
    BY <1>1, <2>1
  <2>2. CASE ~ClientEnds("dead")
    <3>1. Len(buf) \in Nat /\ (buf = <<>> => WriteLen(buf) = 0)
      BY BufferSeq, EmptySeq, DataAssumption, SizeAssumption DEF TypeOK, WriteLen, Smaller
    <3> QED  BY <1>3, <2>2, <3>1 DEF ClientWriteMsg, StubPart, ClientGone, ServerGone, serverVars
  <2> QED  BY <2>1, <2>2
<1>4. CASE ClientWriteBuf
  <2>1. CASE ClientEnds("dead")
    BY <1>1, <2>1
  <2>2. CASE ~ClientEnds("dead") /\ sEnd # "open"
    BY <1>4, <2>2 DEF ClientWriteBuf, StubPart, ClientGone, ServerGone, serverVars
  <2>3. CASE sEnd = "open"
    <3> DEFINE seg == NextSegment(buf, csent)
    <3>1. /\ cli = "writeBuf" /\ csent' = csent + Len(seg)
          /\ cli' = IF csent' = WriteLen(buf) THEN "readMsg" ELSE "writeBuf"
          /\ UNCHANGED <<buf, call, cmsg, cEnd, sEnd, srv>>
      BY <1>4, <2>3 DEF ClientWriteBuf, serverVars
    <3>2. csent + Len(seg) <= Len(buf) \/ Len(seg) = 0
      BY SegmentType, BufferSeq, DataAssumption DEF TypeOK
    <3> HIDE DEF seg
    <3>3. csent' <= Len(buf)
      BY <3>1, <3>2 DEF StubPart, TypeOK
    <3>4. WriteLen(buf)' = WriteLen(buf)
      BY <3>1
    <3> QED  BY <3>1, <3>3, <3>4 DEF StubPart, ClientGone, ServerGone
  <2> QED  BY <2>1, <2>2, <2>3
<1>5. CASE ClientReadMsg
  <2>1. CASE ClientEnds("dead")
    BY <1>1, <2>1
  <2>2. CASE ~ClientEnds("dead")
    BY <1>5, <2>2 DEF ClientReadMsg, StubPart, ClientGone, ServerGone, serverVars
  <2> QED  BY <2>1, <2>2
<1>6. CASE ClientReadBuf
  <2>1. CASE ClientEnds("dead")
    BY <1>1, <2>1
  <2>2. CASE ~ClientEnds("dead")
    BY <1>6, <2>2 DEF ClientReadBuf, StubPart, ClientGone, ServerGone, serverVars
  <2> QED  BY <2>1, <2>2
<1>7. CASE ClientReturn
  BY <1>7 DEF ClientReturn, StubPart, ClientGone, ServerGone, serverVars, socketVars
<1>8. CASE destroy \/ ClientCrash
  BY <1>1, <1>8 DEF destroy, ClientCrash
<1>9. CASE ServerStep \/ ServerCrash
  <2>1. UNCHANGED <<cEnd, clientVars>>
    BY <1>9 DEF ServerStep, ServerReadMsg, ServerReadBuf, ServerCrypt, ServerWriteMsg, ServerWriteBuf,
                ServerCrash, socketVars
  <2>2. CASE \E how \in {"exited", "dead"}, q \in {c2s, Tail(c2s)} : ServerEnds(how, q)
    BY <1>2, <2>1, <2>2
  <2>3. CASE ~\E how \in {"exited", "dead"}, q \in {c2s, Tail(c2s)} : ServerEnds(how, q)
    <3>1. UNCHANGED sEnd /\ ~ServerGone /\ ~ServerGone'
      BY <1>9, <2>3 DEF ServerStep, ServerReadMsg, ServerReadBuf, ServerCrypt, ServerWriteMsg,
                ServerWriteBuf, ServerCrash, Dispatch, ServerGone, socketVars
    <3> QED  BY <2>1, <3>1 DEF StubPart, ClientGone, clientVars
  <2> QED  BY <2>2, <2>3
<1>10. CASE UNCHANGED vars
  BY <1>10 DEF StubPart, ClientGone, ServerGone, vars, clientVars, serverVars, socketVars
<1> QED  BY <1>3, <1>4, <1>5, <1>6, <1>7, <1>8, <1>9, <1>10, StubApi DEF Next, ClientStep, Finished

LEMMA StubInvariant == Spec => [](TypeOK /\ StubPart)
<1>1. Init => StubPart
  BY DEF Init, StubPart, ClientGone, ServerGone
<1>2. TypeOK /\ StubPart /\ [Next]_vars => StubPart'
  BY StubStep
<1> QED  BY <1>1, <1>2, TypeCorrect, PTL DEF Spec

\* A segment is not empty before the end of the buffer, and stays in it.
LEMMA SegmentGoes ==
  ASSUME NEW d \in Buffer, Len(d) <= WriteMax, NEW k \in 0..Len(d)
  PROVE  /\ NextSegment(d, k) \in Seq(Byte) /\ Len(NextSegment(d, k)) \in 0..SegMax
         /\ k + Len(NextSegment(d, k)) \in k..Len(d)
         /\ k < Len(d) => Len(NextSegment(d, k)) > 0
         /\ WriteLen(d) = Len(d)
<1>1. d \in Seq(Byte) /\ Len(d) \in 0..MaxLen /\ k \in Nat
  BY BufferSeq, DataAssumption
<1>2. WriteLen(d) = Len(d)
  BY <1>1, SizeAssumption, DataAssumption DEF WriteLen, Smaller
<1>3. PICK n \in 0..SegMax : /\ Smaller(SegMax, WriteLen(d) - k) = n /\ k + n \in k..Len(d)
                             /\ k < Len(d) => n > 0
  BY <1>1, <1>2, SizeAssumption DEF Smaller
<1>4. NextSegment(d, k) = SubSeq(d, k + 1, k + n)
  BY <1>3 DEF NextSegment
<1>5. \A i \in k+1..k+n : d[i] \in Byte
  BY <1>1, <1>3, ElementOfSeq
<1>6. /\ SubSeq(d, k+1, k+n) \in Seq(Byte)
      /\ Len(SubSeq(d, k+1, k+n)) = IF k+1 <= k+n THEN k + n - (k+1) + 1 ELSE 0
  BY <1>1, <1>3, <1>5, SubSeqProperties
<1> QED  BY <1>1, <1>2, <1>3, <1>4, <1>6

\* Reads and writes in lengths.
LEMMA QueueLengths ==
  ASSUME NEW q \in Seq(Element)
  PROVE  /\ Len(q) \in Nat /\ (Len(q) = 0 <=> q = <<>>)
         /\ \A m \in Msg : Len(Append(q, Hdr(m))) = Len(q) + 1
         /\ \A d \in Seq(Byte) : /\ Len(q \o Raw(d)) = Len(q) + Len(d)
                                 /\ q # <<>> => Head(q \o Raw(d)) = Head(q)
         /\ \A n \in Nat : Len(Rest(q, n)) = Len(q) - Smaller(n, Len(q))
         /\ q # <<>> => Len(Tail(q)) = Len(q) - 1
<1>1. Len(q) \in Nat /\ (Len(q) = 0 <=> q = <<>>)
  BY LenProperties, EmptySeq
<1>2. \A m \in Msg : Len(Append(q, Hdr(m))) = Len(q) + 1
  BY ElementKinds, AppendProperties
<1>3. ASSUME NEW d \in Seq(Byte)
      PROVE  Len(q \o Raw(d)) = Len(q) + Len(d) /\ (q # <<>> => Head(q \o Raw(d)) = Head(q))
  <2>1. /\ Raw(d) \in Seq(Element) /\ Len(Raw(d)) = Len(d) /\ Len(d) \in Nat
    BY RawSeq, LenProperties
  <2>2. /\ q \o Raw(d) \in Seq(Element) /\ Len(q \o Raw(d)) = Len(q) + Len(Raw(d))
        /\ \A i \in 1..Len(q) + Len(Raw(d)) :
             (q \o Raw(d))[i] = IF i <= Len(q) THEN q[i] ELSE Raw(d)[i - Len(q)]
    BY <2>1, ConcatProperties
  <2>3. q # <<>> => Head(q) = q[1] /\ 1 <= Len(q)
    BY <1>1
  <2>4. q # <<>> => q \o Raw(d) # <<>> /\ Head(q \o Raw(d)) = (q \o Raw(d))[1]
    BY <1>1, <2>1, <2>2, EmptySeq
  <2> QED  BY <1>1, <2>1, <2>2, <2>3, <2>4
<1>4. ASSUME NEW n \in Nat
      PROVE  Len(Rest(q, n)) = Len(q) - Smaller(n, Len(q))
  <2>1. Smaller(n, Len(q)) \in 0..Len(q) /\ \A i \in 1..Len(q) : q[i] \in Element
    BY <1>1, ElementOfSeq DEF Smaller
  <2> DEFINE k == Smaller(n, Len(q))
  <2> HIDE DEF k
  <2>2. k \in 0..Len(q) /\ Rest(q, n) = SubSeq(q, 1 + k, Len(q))
    BY <2>1 DEF Rest, k
  <2>3. \A i \in 1+k..Len(q) : q[i] \in Element
    BY <1>1, <2>1, <2>2
  <2>4. Len(SubSeq(q, 1+k, Len(q))) = IF 1+k <= Len(q) THEN Len(q) - (1+k) + 1 ELSE 0
    BY <1>1, <2>2, <2>3, SubSeqProperties
  <2>5. Len(Rest(q, n)) = Len(q) - k
    BY <1>1, <2>2, <2>4
  <2> QED  BY <2>5 DEF k
<1>5. q # <<>> => Len(Tail(q)) = Len(q) - 1
  BY HeadTailProperties
<1> QED  BY <1>1, <1>2, <1>3, <1>4, <1>5

\* An int holds a length that one write() can send.
LEMMA IntExact ==
  ASSUME NEW n \in 0..MaxLen, n <= WriteMax
  PROVE  ToInt(n) = n
<1>1. n <= IntMax
  BY SizeAssumption, DataAssumption
<1> QED  BY <1>1, IntType

\* What every step of such a call starts from.
LEMMA QuietFacts ==
  ASSUME TypeOK
  PROVE  /\ buf \in Buffer /\ Len(buf) \in 0..MaxLen /\ (Len(buf) = 0 <=> buf = <<>>)
         /\ sbuf \in Buffer /\ Len(sbuf) \in 0..MaxLen /\ (Len(sbuf) = 0 <=> sbuf = <<>>)
         /\ csent \in 0..MaxLen /\ ssent \in 0..MaxLen /\ MaxLen \in Nat
         /\ Len(c2s) \in Nat /\ (Len(c2s) = 0 <=> c2s = <<>>)
         /\ Len(s2c) \in Nat /\ (Len(s2c) = 0 <=> s2c = <<>>)
         /\ cmsg \in Msg /\ smsg \in Msg
BY BufferSeq, QueueLengths, EmptySeq, DataAssumption DEF TypeOK

\* The stub's steps in a call whose compartment has gone: each is one of the
\* last.
LEMMA ClientAlone ==
  ASSUME TypeOK, StubPart, ServerGone, InCall, ClientStep
  PROVE  (QuietCall' \/ ~InCall') /\ ClientStepsLeft' < ClientStepsLeft
<1>1. sEnd # "open" /\ ServerGone'
  BY DEF StubPart, ServerGone, ClientStep, ClientWriteMsg, ClientWriteBuf, ClientReadMsg, ClientReadBuf,
         ClientReturn, ClientEnds, serverVars
<1>2. \/ cli = "writeMsg" /\ cli' = "dead"
      \/ cli = "writeBuf" /\ cli' \in {"readMsg", "dead"}
      \/ cli = "readMsg" /\ cli' \in {"readBuf", "done", "dead"}
      \/ cli = "readBuf" /\ cli' \in {"done", "dead"}
      \/ cli = "done" /\ cli' = "idle"
  BY <1>1 DEF ClientStep, ClientWriteMsg, ClientWriteBuf, ClientReadMsg, ClientReadBuf,
         ClientReturn, ClientEnds
<1>3. cli = "writeBuf" => csent <= Len(buf)
  BY DEF StubPart
<1>4. ClientStepsLeft' < ClientStepsLeft
  BY <1>2, <1>3, QuietFacts DEF ClientStepsLeft
<1>5. QuietCall' \/ ~InCall'
  BY <1>1 DEF QuietCall
<1> QED  BY <1>4, <1>5

\* The stub's steps while the compartment is up.
LEMMA ClientGoesOn ==
  ASSUME TypeOK, StubPart, QuietCall, ~ServerGone, ClientStep
  PROVE  (QuietCall' \/ ~InCall') /\ ClientStepsLeft' < ClientStepsLeft
<1>1. sEnd = "open" /\ Len(buf) <= WriteMax
  BY DEF StubPart, QuietCall
<1>2. CASE ClientWriteMsg
  <2>1. /\ cli = "writeMsg" /\ srv = "readMsg" /\ c2s = <<>> /\ s2c = <<>>
        /\ cmsg.type # "CRYPT" => buf = <<>>
    BY <1>2 DEF ClientWriteMsg, QuietCall, StubPart, ServerGone
  <2>2. /\ c2s' = Append(c2s, Hdr(cmsg)) /\ csent' = 0
        /\ cli' = IF cmsg.type = "CRYPT" THEN "writeBuf" ELSE "readMsg"
        /\ UNCHANGED <<buf, cmsg, s2c, srv>>
    BY <1>1, <1>2 DEF ClientWriteMsg, serverVars
  <2>3. c2s' = <<Hdr(cmsg)>>
    BY <2>1, <2>2
  <2>4. Len(c2s') = 1 + csent' /\ Head(c2s') = Hdr(cmsg)
    BY <2>2, <2>3
  <2>5. Requesting'
    BY <2>1, <2>2, <2>4 DEF Requesting
  <2>6. Len(buf) \in 0..MaxLen /\ (Len(buf) = 0 <=> buf = <<>>)
    BY QuietFacts
  <2>7. QuietCall'
    BY <1>1, <2>1, <2>2, <2>5, <2>6 DEF QuietCall
  <2> QED  BY <2>1, <2>2, <2>6, <2>7, QuietFacts DEF ClientStepsLeft
<1>3. CASE ClientWriteBuf
  <2> DEFINE seg == NextSegment(buf, csent)
             n == Len(seg)
  <2>1. /\ cli = "writeBuf" /\ csent \in 0..Len(buf) /\ (csent < Len(buf) \/ Len(buf) = 0)
        /\ Requesting \/ Replying(1)
    BY <1>3, QuietFacts DEF ClientWriteBuf, QuietCall, StubPart, ServerGone
  <2>2. /\ seg \in Seq(Byte) /\ n \in Nat /\ csent + n \in csent..Len(buf)
        /\ csent < Len(buf) => n > 0
        /\ WriteLen(buf) = Len(buf)
    BY <1>1, <2>1, QuietFacts, SegmentGoes, SizeAssumption
  <2>3. /\ c2s' = c2s \o Raw(seg) /\ csent' = csent + n
        /\ cli' = IF csent' = Len(buf) THEN "readMsg" ELSE "writeBuf"
        /\ UNCHANGED <<buf, call, cmsg, s2c, srv, smsg, sbuf, left, ssent>>
    BY <1>1, <1>3, <2>2 DEF ClientWriteBuf, serverVars
  <2> HIDE DEF seg, n
  <2>4. /\ Len(c2s') = Len(c2s) + n /\ (c2s # <<>> => Head(c2s') = Head(c2s))
        /\ c2s' \in Seq(Element) /\ (Len(c2s') = 0 <=> c2s' = <<>>)
    <3>1. c2s \in Seq(Element)
      BY DEF TypeOK
    <3>2. c2s \o Raw(seg) \in Seq(Element)
      BY <2>2, <3>1, StreamType
    <3> QED  BY <2>2, <2>3, <3>1, <3>2, QueueLengths DEF n
  <2>5. csent' = Len(buf) => cli' = "readMsg"
    BY <2>3
  <2>6. csent' # Len(buf) => cli' = "writeBuf" /\ csent' < Len(buf)
    BY <2>2, <2>3
  <2>7. Requesting' \/ Replying(1)'
    <3>1. CASE srv = "readMsg" /\ Len(c2s) = 1 + csent /\ Head(c2s) = Hdr(cmsg) /\ s2c = <<>>
      BY <2>1, <2>2, <2>3, <2>4, <3>1, QuietFacts DEF Requesting
    <3>2. CASE srv = "readBuf" /\ Requesting
      <4>1. left \in 1..Len(buf) /\ left + csent = Len(buf) + Len(c2s)
        BY <3>2 DEF Requesting
      <4>2. csent' = csent + n /\ Len(c2s') = Len(c2s) + n
        BY <2>3, <2>4
      <4>3. left + csent' = Len(buf) + Len(c2s')
        <5>1. csent \in Nat /\ n \in Nat /\ left \in Nat /\ Len(buf) \in Nat /\ Len(c2s) \in Nat
          BY <2>2, <4>1, QuietFacts
        <5> QED  BY <4>1, <4>2, <5>1
      <4> QED  BY <2>3, <3>2, <4>1, <4>3 DEF Requesting
    <3>3. CASE csent = Len(buf) /\ c2s = <<>>
      <4>1. n = 0 /\ csent' = Len(buf) /\ c2s' = <<>>
        BY <2>1, <2>2, <2>3, <2>4, <3>3, QuietFacts
      <4> QED  BY <2>1, <2>3, <3>3, <4>1 DEF Requesting, Replying, SendingBack
    <3> QED  BY <2>1, <3>1, <3>2, <3>3 DEF Requesting, Replying
  <2>8. QuietCall'
    BY <1>1, <2>3, <2>5, <2>6, <2>7 DEF QuietCall
  <2>9. ClientStepsLeft = 4 + Len(buf) - csent
    BY <2>1 DEF ClientStepsLeft
  <2>10. CASE csent' = Len(buf)
    BY <2>1, <2>5, <2>8, <2>9, <2>10, QuietFacts DEF ClientStepsLeft
  <2>11. CASE csent' # Len(buf)
    <3>1. ClientStepsLeft' = 4 + Len(buf) - csent'
      BY <2>3, <2>6, <2>11 DEF ClientStepsLeft
    <3>2. csent < csent' /\ csent' \in Nat /\ csent \in Nat /\ Len(buf) \in Nat
      BY <2>1, <2>2, <2>3, <2>6, <2>11, QuietFacts
    <3> QED  BY <2>8, <2>9, <3>1, <3>2
  <2> QED  BY <2>10, <2>11
<1>4. CASE ClientReadMsg
  <2>1. cli = "readMsg" /\ (Requesting \/ Replying(1))
    BY <1>4 DEF ClientReadMsg, QuietCall, ServerGone
  <2>2. /\ s2c # <<>> /\ s2c' = Tail(s2c) /\ cli' \in {"readBuf", "done"}
        /\ UNCHANGED <<buf, csent, c2s, srv, sbuf, left, ssent>>
    BY <1>1, <1>4 DEF ClientReadMsg, serverVars
  <2>3. Replying(1)
    BY <2>1, <2>2 DEF Requesting
  <2>4. Len(s2c') = Len(s2c) - 1
    BY <2>2, QueueLengths DEF TypeOK
  <2>5. Replying(0)'
    <3>1. Len(s2c) \in Nat /\ ssent \in Nat /\ Len(buf) \in Nat
      BY QuietFacts
    <3>2. \A k \in Nat : Len(s2c) = 1 + k => Len(s2c') = 0 + k
      BY <2>4, <3>1
    <3>3. SendingBack => SendingBack'
      BY <2>2 DEF SendingBack
    <3> QED  BY <2>2, <2>3, <3>1, <3>2, <3>3 DEF Replying
  <2>6. QuietCall'
    BY <1>1, <2>2, <2>5 DEF QuietCall, Replying, SendingBack
  <2> QED  BY <2>1, <2>2, <2>6 DEF ClientStepsLeft
<1>5. CASE ClientReadBuf
  <2>1. cli = "readBuf" /\ Replying(0)
    BY <1>5 DEF ClientReadBuf, QuietCall, ServerGone
  <2>2. /\ cli' = "done" /\ UNCHANGED <<c2s, srv, sbuf, left, ssent>>
        /\ buf' = Overlay(buf, Taken(s2c, Len(buf)))
    BY <1>1, <1>5, <2>1 DEF ClientReadBuf, serverVars
  <2>3. Len(buf') = Len(buf)
    BY <2>2, QuietFacts, StreamType, OverlayType DEF TypeOK
  <2>4. QuietCall'
    BY <1>1, <2>1, <2>2, <2>3 DEF QuietCall, Replying, SendingBack
  <2> QED  BY <2>1, <2>2, <2>4 DEF ClientStepsLeft
<1>6. CASE ClientReturn
  BY <1>6 DEF ClientReturn, InCall, ClientStepsLeft
<1> QED  BY <1>2, <1>3, <1>4, <1>5, <1>6 DEF ClientStep

\* The compartment's steps while the client is waiting for its call.
LEMMA ServerGoesOn ==
  ASSUME TypeOK, StubPart, QuietCall, InCall, ServerStep
  PROVE  QuietCall' /\ InCall' /\ ServerStepsLeft' < ServerStepsLeft
<1>1. /\ ~ServerGone /\ ~ClientGone /\ cEnd = "open"
      /\ InCall' /\ UNCHANGED <<cli, buf, call, cmsg, csent>>
  BY DEF ServerStep, ServerReadMsg, ServerReadBuf, ServerCrypt, ServerWriteMsg, ServerWriteBuf,
         ServerGone, ClientGone, InCall, StubPart, clientVars
<1>0. Len(buf) <= WriteMax
  BY <1>1 DEF QuietCall
<1>2. ASSUME ServerGone'
      PROVE  QuietCall'
  BY <1>1, <1>2 DEF QuietCall
<1>3. ASSUME Requesting
      PROVE  /\ cli \in {"writeBuf", "readMsg"}
             /\ cmsg.type = call.type /\ cmsg.type \in CallType /\ cmsg.buflen = Len(buf)
             /\ cmsg.type # "CRYPT" => buf = <<>> /\ cli = "readMsg"
             /\ csent \in 0..Len(buf) /\ (buf = <<>> => csent = Len(buf))
             /\ cli = "writeBuf" => csent < Len(buf) \/ buf = <<>>
             /\ cli = "readMsg" => csent = Len(buf)
             /\ Requesting' \/ Replying(1)' => QuietCall'
  <2>1. cli \in {"writeBuf", "readMsg"}
    BY <1>1, <1>3, QuietFacts DEF QuietCall, Requesting, Replying, SendingBack, ServerGone
  <2>2. /\ cli = "writeBuf" => csent < Len(buf) \/ buf = <<>>
        /\ cli = "readMsg" => csent = Len(buf)
    BY <1>1, <2>1 DEF QuietCall
  <2>3. Requesting' \/ Replying(1)' => QuietCall'
    BY <1>0, <1>1, <2>1, <2>2 DEF QuietCall
  <2> QED  BY <2>1, <2>2, <2>3, QuietFacts DEF StubPart
<1>4. CASE ServerReadMsg
  <2>1. srv = "readMsg" /\ c2s # <<>>
    BY <1>1, <1>4 DEF ServerReadMsg
  <2>2. Requesting /\ Len(c2s) = 1 + csent /\ Head(c2s) = Hdr(cmsg) /\ s2c = <<>>
    BY <1>1, <2>1 DEF QuietCall, Requesting, Replying, SendingBack
  <2>3. Dispatch(cmsg, Tail(c2s)) /\ UNCHANGED <<ssent, s2c>>
    BY <1>4, <2>1, <2>2, QuietFacts, ElementKinds DEF ServerReadMsg
  <2>4. Tail(c2s) \in Seq(Element) /\ Len(Tail(c2s)) = csent
    BY <2>1, <2>2, QueueLengths, QuietFacts, StreamType DEF TypeOK
  <2>5. CASE ServerEnds("dead", Tail(c2s)) \/ ServerEnds("exited", Tail(c2s))
    BY <1>1, <1>2, <2>1, <2>5, QuietFacts DEF ServerEnds, ServerGone, ServerStepsLeft
  <2>6. CASE cmsg.type # "CRYPT" /\ ~ServerEnds("exited", Tail(c2s))
    <3>1. srv' = "writeMsg" /\ smsg' = Served(cmsg) /\ c2s' = Tail(c2s)
      BY <1>3, <2>2, <2>3, <2>6 DEF Dispatch, CallType
    <3>2. Served(cmsg).type = cmsg.type
      BY QuietFacts DEF Served, Msg
    <3>3. csent = Len(buf) /\ c2s' = <<>>
      BY <1>3, <2>2, <2>4, <2>6, <3>1, QuietFacts, EmptySeq
    <3>4. Requesting'
      BY <1>1, <1>3, <2>2, <2>3, <2>6, <3>1, <3>2, <3>3 DEF Requesting
    <3> QED  BY <1>1, <1>3, <2>1, <2>2, <3>1, <3>4, QuietFacts DEF ServerStepsLeft
  <2>7. CASE cmsg.type = "CRYPT" /\ ~ServerEnds("dead", Tail(c2s))
    <3>1. /\ smsg' = cmsg /\ sbuf' = [j \in 1..cmsg.buflen |-> Junk] /\ left' = ToInt(cmsg.buflen)
          /\ srv' = IF left' = 0 THEN "crypt" ELSE "readBuf"
          /\ c2s' = Tail(c2s)
      BY <2>3, <2>7 DEF Dispatch
    <3>2. cmsg.buflen = Len(buf) /\ left' = Len(buf) /\ Len(sbuf') = Len(buf)
      BY <1>0, <1>3, <2>2, <3>1, QuietFacts, IntExact, MallocType
    <3>3. CASE Len(buf) = 0
      <4>1. srv' = "crypt" /\ c2s' = <<>> /\ csent = Len(buf)
        BY <1>3, <2>2, <2>4, <3>1, <3>2, <3>3, QuietFacts, EmptySeq
      <4>2. Requesting'
        BY <1>1, <1>3, <2>2, <2>3, <3>1, <3>2, <4>1 DEF Requesting
      <4> QED  BY <1>1, <1>3, <2>1, <2>2, <4>1, <4>2, QuietFacts DEF ServerStepsLeft
    <3>4. CASE Len(buf) # 0
      <4>1. srv' = "readBuf" /\ left' \in 1..Len(buf) /\ left' + csent = Len(buf) + Len(c2s')
        BY <2>4, <3>1, <3>2, <3>4, QuietFacts
      <4>2. Requesting'
        BY <1>1, <1>3, <2>2, <2>3, <2>7, <3>1, <3>2, <4>1 DEF Requesting
      <4> QED  BY <1>1, <1>3, <2>1, <2>2, <4>1, <4>2, QuietFacts DEF ServerStepsLeft
    <3> QED  BY <3>3, <3>4
  <2> QED  BY <2>5, <2>6, <2>7
<1>5. CASE ServerReadBuf
  <2>1. srv = "readBuf" /\ c2s # <<>>
    BY <1>1, <1>5 DEF ServerReadBuf
  <2>2. /\ Requesting /\ smsg.type = "CRYPT" /\ smsg.buflen = Len(buf) /\ s2c = <<>>
        /\ left \in 1..Len(buf) /\ left + csent = Len(buf) + Len(c2s) /\ Len(sbuf) = Len(buf)
    BY <1>1, <2>1 DEF QuietCall, Requesting, Replying, SendingBack, ServerGone
  <2>3. /\ sbuf' = Overlay(sbuf, Taken(c2s, Len(buf))) /\ c2s' = Rest(c2s, Len(buf))
        /\ left' = LeftAfter(left, Smaller(Len(buf), Len(c2s)))
        /\ srv' = IF left' = 0 THEN "crypt" ELSE "readBuf"
        /\ UNCHANGED <<smsg, s2c>>
    BY <1>1, <1>5, <2>1, <2>2 DEF ServerReadBuf
  <2>4. /\ Len(c2s) \in 1..left /\ Smaller(Len(buf), Len(c2s)) = Len(c2s)
    BY <1>3, <2>1, <2>2, QuietFacts DEF Smaller
  <2>5. left' = left - Len(c2s) /\ c2s' = <<>> /\ Len(sbuf') = Len(buf)
    <3>1. c2s \in Seq(Element) /\ Len(buf) \in Nat /\ c2s' \in Seq(Element)
      BY <2>3, QuietFacts, StreamType DEF TypeOK
    <3>2. Len(c2s') = 0
      BY <2>3, <2>4, <3>1, QueueLengths
    <3>3. Len(sbuf') = Len(buf)
      BY <2>2, <2>3, <3>1, QuietFacts, StreamType, OverlayType
    <3> QED  BY <2>2, <2>3, <2>4, <3>1, <3>2, <3>3, QueueLengths DEF LeftAfter
  <2>6. /\ left' \in 0..Len(buf) /\ left' < left /\ left' + csent = Len(buf) + 0 /\ Len(<<>>) = 0
    BY <1>3, <2>2, <2>4, <2>5, QuietFacts
  <2>7. CASE left' = 0
    <3>1. csent = Len(buf) /\ srv' = "crypt"
      BY <1>3, <2>2, <2>3, <2>6, <2>7, QuietFacts
    <3>2. cmsg.type = "CRYPT"
      BY <1>3, <2>1, <2>2, <2>4, QuietFacts
    <3>3. Requesting'
      BY <1>1, <1>3, <2>2, <2>3, <2>5, <3>1, <3>2 DEF Requesting
    <3> QED  BY <1>1, <1>3, <2>1, <2>2, <3>1, <3>3, QuietFacts DEF ServerStepsLeft
  <2>8. CASE left' # 0
    <3>1. left' \in 1..Len(buf) /\ srv' = "readBuf"
      BY <2>3, <2>6, <2>8, QuietFacts
    <3>2. Requesting'
      BY <1>1, <2>2, <2>3, <2>5, <2>6, <3>1 DEF Requesting
    <3> QED  BY <1>1, <1>3, <2>1, <2>2, <2>6, <3>1, <3>2, QuietFacts DEF ServerStepsLeft
  <2> QED  BY <2>7, <2>8
<1>6. CASE ServerCrypt
  <2>1. srv = "crypt"
    BY <1>6 DEF ServerCrypt
  <2>2. /\ Requesting /\ smsg.type = call.type /\ s2c = <<>> /\ csent = Len(buf) /\ c2s = <<>>
        /\ call.type = "CRYPT" => Len(sbuf) = Len(buf)
    BY <1>1, <2>1 DEF QuietCall, Requesting, Replying, SendingBack, ServerGone
  <2>3. /\ srv' = "writeMsg" /\ smsg' = [smsg EXCEPT !.ctx = CryptCtx(smsg.mode, @, sbuf)]
        /\ sbuf' = CryptBuf(smsg.mode, smsg.ctx, sbuf) /\ UNCHANGED <<c2s, s2c>>
    BY <1>6 DEF ServerCrypt, socketVars
  <2>4. smsg'.type = smsg.type /\ Len(sbuf') = Len(sbuf)
    BY <2>3, QuietFacts, CryptType DEF Msg
  <2>5. Requesting'
    BY <1>1, <2>2, <2>3, <2>4 DEF Requesting
  <2> QED  BY <1>1, <1>3, <2>1, <2>2, <2>3, <2>5, QuietFacts DEF ServerStepsLeft
<1>7. CASE ServerWriteMsg
  <2>1. srv = "writeMsg"
    BY <1>7 DEF ServerWriteMsg
  <2>2. /\ Requesting /\ smsg.type = call.type /\ s2c = <<>> /\ csent = Len(buf) /\ c2s = <<>>
        /\ call.type = "CRYPT" => Len(sbuf) = Len(buf)
    BY <1>1, <2>1 DEF QuietCall, Requesting, Replying, SendingBack, ServerGone
  <2>3. /\ s2c' = Append(s2c, Hdr(smsg)) /\ ssent' = 0 /\ UNCHANGED <<c2s, sbuf>>
        /\ left' = IF smsg.type = "CRYPT" THEN ToInt(Len(sbuf)) ELSE left
        /\ srv' = IF smsg.type = "CRYPT" /\ left' # 0 THEN "writeBuf" ELSE "readMsg"
    BY <1>1, <1>7 DEF ServerWriteMsg
  <2>4. Len(s2c') = 1 /\ (smsg.type = "CRYPT" => left' = Len(sbuf))
    BY <1>0, <2>2, <2>3, QuietFacts, IntExact
  <2>5. CASE smsg.type = "CRYPT" /\ Len(sbuf) # 0
    <3>1. SendingBack' /\ srv' = "writeBuf" /\ Len(sbuf') = Len(buf) /\ Len(s2c') = 1 + ssent'
      BY <2>2, <2>3, <2>4, <2>5, QuietFacts DEF SendingBack
    <3>2. Replying(1)'
      BY <1>1, <2>2, <2>3, <3>1 DEF Replying
    <3> QED  BY <1>1, <1>3, <2>1, <2>2, <2>3, <3>1, <3>2, QuietFacts DEF ServerStepsLeft
  <2>6. CASE ~(smsg.type = "CRYPT" /\ Len(sbuf) # 0)
    <3>1. srv' = "readMsg" /\ Len(buf) = 0
      BY <1>3, <2>2, <2>3, <2>4, <2>6, QuietFacts
    <3>2. Len(s2c') = 1 + Len(buf)
      BY <2>4, <3>1
    <3>3. Replying(1)'
      BY <1>1, <2>2, <2>3, <3>1, <3>2 DEF Replying
    <3> QED  BY <1>1, <1>3, <2>1, <2>2, <2>3, <3>1, <3>3, QuietFacts DEF ServerStepsLeft
  <2> QED  BY <2>5, <2>6
<1>8. CASE ServerWriteBuf
  <2> DEFINE seg == NextSegment(sbuf, ssent)
             n == Len(seg)
  <2>1. SendingBack /\ c2s = <<>> /\ Len(sbuf) <= WriteMax
    BY <1>0, <1>1, <1>8 DEF ServerWriteBuf, QuietCall, Requesting, Replying, SendingBack, ServerGone
  <2>2. /\ seg \in Seq(Byte) /\ n \in Nat /\ n > 0 /\ ssent + n \in ssent..Len(sbuf)
        /\ WriteLen(sbuf) = Len(sbuf)
    BY <2>1, QuietFacts, SegmentGoes, SizeAssumption DEF SendingBack
  <2>3. /\ s2c' = s2c \o Raw(seg) /\ UNCHANGED c2s
        /\ \/ /\ ssent + n # Len(sbuf) /\ ssent' = ssent + n /\ srv' = "writeBuf"
              /\ UNCHANGED <<sbuf, left>>
           \/ ssent + n = Len(sbuf) /\ srv' = "readMsg" /\ sbuf' = <<>>
    <3>1. left = Len(sbuf) /\ ssent < Len(sbuf) /\ Len(sbuf) \in Nat
      BY <2>1, QuietFacts DEF SendingBack
    <3>2. LET more == ssent + n < Len(sbuf) IN
            /\ s2c' = s2c \o Raw(seg) /\ UNCHANGED c2s
            /\ ssent' = IF more THEN ssent + n ELSE 0
            /\ left' = IF more THEN left ELSE LeftAfter(left, ssent + n)
            /\ srv' = IF left' = 0 THEN "readMsg" ELSE "writeBuf"
            /\ sbuf' = IF left' = 0 THEN <<>> ELSE sbuf
      BY <1>1, <1>8, <2>2 DEF ServerWriteBuf
    <3> HIDE DEF seg, n
    <3>3. CASE ssent + n = Len(sbuf)
      <4>1. left' = 0
        BY <2>2, <3>1, <3>2, <3>3 DEF LeftAfter
      <4> QED  BY <2>2, <3>1, <3>2, <3>3, <4>1
    <3>4. CASE ssent + n < Len(sbuf)
      <4>1. left' = left /\ left # 0 /\ ssent \in Nat
        BY <2>2, <3>1, <3>2, <3>4, QuietFacts
      <4> QED  BY <2>2, <3>1, <3>2, <3>4, <4>1
    <3> QED  BY <2>2, <3>1, <3>3, <3>4
  <2> HIDE DEF seg, n
  <2>4. Len(s2c') = Len(s2c) + n
    BY <2>2, <2>3, QueueLengths DEF n, TypeOK
  <2>5. CASE ssent + n = Len(sbuf)
    <3>1. srv' = "readMsg" /\ c2s' = <<>>
      BY <2>1, <2>3, <2>5
    <3>2. ASSUME NEW k \in 0..1, Replying(k)
          PROVE  Replying(k)'
      <4>1. Len(s2c) = k + ssent /\ Len(sbuf) = Len(buf) /\ csent = Len(buf)
        BY <2>1, <3>2 DEF Replying, SendingBack
      <4>2. ssent + n = Len(buf)
        BY <2>3, <2>5, <4>1
      <4>3. Len(s2c') = k + Len(buf)
        <5>1. ssent \in Nat /\ n \in Nat /\ k \in Nat /\ Len(buf) \in Nat
          BY <2>2, QuietFacts
        <5> QED  BY <2>4, <4>1, <4>2, <5>1
      <4> QED  BY <1>1, <3>1, <4>1, <4>3 DEF Replying
    <3>3. QuietCall'
      BY <1>0, <1>1, <2>1, <3>1, <3>2 DEF QuietCall, Requesting, SendingBack
    <3> QED  BY <1>1, <2>1, <3>1, <3>3, QuietFacts DEF SendingBack, ServerStepsLeft
  <2>6. CASE ssent + n # Len(sbuf)
    <3>1. srv' = "writeBuf" /\ sbuf' = sbuf /\ c2s' = <<>> /\ SendingBack'
      BY <2>1, <2>2, <2>3, <2>6, QuietFacts DEF SendingBack
    <3>2. ASSUME NEW k \in 0..1, Replying(k)
          PROVE  Replying(k)'
      <4>1. Len(s2c) = k + ssent /\ Len(sbuf) = Len(buf) /\ csent = Len(buf)
        BY <2>1, <3>2 DEF Replying, SendingBack
      <4>2. Len(s2c') = k + ssent'
        <5>1. ssent' = ssent + n
          BY <2>3, <2>6
        <5> QED  BY <2>2, <2>4, <4>1, <5>1, QuietFacts
      <4> QED  BY <1>1, <3>1, <4>1, <4>2 DEF Replying
    <3>3. QuietCall'
      BY <1>0, <1>1, <2>1, <3>1, <3>2 DEF QuietCall, Requesting, SendingBack
    <3> QED  BY <1>1, <2>1, <2>2, <2>3, <3>1, <3>3, QuietFacts DEF SendingBack, ServerStepsLeft
  <2> QED  BY <2>5, <2>6
<1> QED  BY <1>4, <1>5, <1>6, <1>7, <1>8 DEF ServerStep

\* The steps left are few, and a step of the stub counts for more than all
\* that the compartment has left to do.
LEMMA StepsType ==
  /\ TypeOK /\ StubPart => ClientStepsLeft \in Nat
  /\ TypeOK => ServerStepsLeft \in Int /\ ServerStepsLeft <= 2 * MaxLen + 4
  /\ TypeOK /\ QuietCall => ServerStepsLeft >= 0
<1>1. ASSUME TypeOK, StubPart
      PROVE  ClientStepsLeft \in Nat
  BY <1>1, QuietFacts DEF ClientStepsLeft, StubPart
<1>2. ASSUME TypeOK
      PROVE  ServerStepsLeft \in Int /\ ServerStepsLeft <= 2 * MaxLen + 4
  <2>1. left \in -1..MaxLen
    BY <1>2 DEF TypeOK
  <2>2. CASE srv = "readBuf"
    <3>1. ServerStepsLeft = MaxLen + 3 + left /\ MaxLen \in Nat
      BY <1>2, <2>2, QuietFacts DEF ServerStepsLeft
    <3> QED  BY <2>1, <3>1
  <2>5. CASE srv = "writeBuf"
    <3>1. ServerStepsLeft = 1 + Len(sbuf) - ssent
      BY <2>5 DEF ServerStepsLeft
    <3>2. Len(sbuf) \in 0..MaxLen /\ ssent \in 0..MaxLen /\ MaxLen \in Nat
      BY <1>2, QuietFacts DEF TypeOK
    <3> QED  BY <3>1, <3>2
  <2>3. CASE srv = "readMsg"
    BY <1>2, <2>3, QuietFacts DEF ServerStepsLeft
  <2>4. CASE srv \notin {"writeBuf", "readBuf", "readMsg"}
    <3>1. ServerStepsLeft \in {MaxLen + 3, MaxLen + 2, 0}
      BY <2>4 DEF ServerStepsLeft
    <3> QED  BY <1>2, <3>1, QuietFacts
  <2> QED  BY <2>2, <2>3, <2>4, <2>5
<1>3. ASSUME TypeOK, QuietCall
      PROVE  ServerStepsLeft >= 0
  <2>1. left \in -1..MaxLen
    BY <1>3 DEF TypeOK
  <2>2. srv = "writeBuf" => ssent < Len(sbuf)
    BY <1>3 DEF QuietCall, Requesting, Replying, SendingBack, ServerGone
  <2> QED  BY <1>3, <2>1, <2>2, QuietFacts DEF ServerStepsLeft
<1> QED  BY <1>1, <1>2, <1>3

LEMMA LessByRank ==
  ASSUME NEW k \in Nat, NEW a \in Nat, NEW c \in Nat, c < a,
         NEW b \in Int, b >= 0, NEW d \in Int, d < k
  PROVE  k * c + d < k * a + b
<1>1. (a - c - 1) \in Nat /\ a = c + 1 + (a - c - 1)
  OBVIOUS
<1>2. PICK n \in Nat : a = c + 1 + n
  BY <1>1
<1>3. k * a = k * c + k + k * n /\ k * n \in Nat /\ k * c \in Nat
  BY <1>2
<1> QED  BY <1>3

LEMMA QuietStepShortens ==
  ASSUME TypeOK, TypeOK', StubPart, StubPart', QuietCall, ClientStep \/ ServerStep
  PROVE  (QuietCall' \/ ~InCall') /\ StepsLeft' < StepsLeft
<1>1. /\ ClientStepsLeft \in Nat /\ ClientStepsLeft' \in Nat
      /\ ServerStepsLeft \in Int /\ ServerStepsLeft >= 0
      /\ ServerStepsLeft' \in Int /\ ServerStepsLeft' < 2 * MaxLen + 5
      /\ 2 * MaxLen + 5 \in Nat
  <2>1. (TypeOK => ServerStepsLeft \in Int /\ ServerStepsLeft <= 2 * MaxLen + 4)'
    BY StepsType, PTL
  <2>2. (TypeOK /\ StubPart => ClientStepsLeft \in Nat)'
    BY StepsType, PTL
  <2> QED  BY <2>1, <2>2, StepsType, DataAssumption
<1>2. InCall
  BY DEF QuietCall, InCall
<1>3. CASE ClientStep
  <2>1. (QuietCall' \/ ~InCall') /\ ClientStepsLeft' < ClientStepsLeft
    BY <1>2, <1>3, ClientAlone, ClientGoesOn
  <2>2. StepsLeft' = (2 * MaxLen + 5) * ClientStepsLeft' + ServerStepsLeft'
    BY DEF StepsLeft
  <2> QED  BY <1>1, <2>1, <2>2, LessByRank DEF StepsLeft
<1>4. CASE ServerStep
  <2>1. QuietCall' /\ ServerStepsLeft' < ServerStepsLeft
    BY <1>2, <1>4, ServerGoesOn
  <2>2. ClientStepsLeft' = ClientStepsLeft
    BY <1>4 DEF ServerStep, ServerReadMsg, ServerReadBuf, ServerCrypt, ServerWriteMsg,
                ServerWriteBuf, clientVars, ClientStepsLeft
  <2>3. StepsLeft' = (2 * MaxLen + 5) * ClientStepsLeft + ServerStepsLeft'
    BY <2>2 DEF StepsLeft
  <2>4. (2 * MaxLen + 5) * ClientStepsLeft \in Int
    BY <1>1
  <2> QED  BY <1>1, <2>1, <2>3, <2>4 DEF StepsLeft
<1> QED  BY <1>3, <1>4

LEMMA QuietStep ==
  ASSUME TypeOK, TypeOK', StubPart, StubPart', [Next]_vars, vars' # vars, QuietCall
  PROVE  /\ QuietCall' \/ ~InCall'
         /\ ClientStep \/ ServerStep => StepsLeft' < StepsLeft
<1>1. CASE ClientStep \/ ServerStep
  BY <1>1, QuietStepShortens
<1>2. CASE ServerCrash
  <2>1. ServerGone' /\ cli' = cli
    BY <1>2 DEF ServerCrash, ServerEnds, ServerGone, clientVars
  <2> QED  BY <1>1, <2>1 DEF QuietCall, InCall
<1>3. CASE ClientCrash
  <2>1. ~InCall'
    BY <1>3 DEF ClientCrash, ClientEnds, InCall
  <2> QED  BY <1>1, <2>1
<1>4. CASE Api \/ destroy
  BY <1>4 DEF Api, AES_init_ctx, AES_init_ctx_iv, AES_ctx_set_iv, AES_ECB, AES_CBC, AES_CTR,
              do_generic_crypt, StartCall, destroy, QuietCall, InCall
<1> QED  BY <1>1, <1>2, <1>3, <1>4 DEF Next, Finished

\* Whatever the sizes, a call that finds the socket quiet, and whose buffer one
\* write() can send, has fewer and fewer steps to make until it has ended.
THEOREM QuietCallsShorten == Spec => QuietCallShortens
<1>1. TypeOK /\ StubPart /\ (TypeOK /\ StubPart)' /\ [Next]_vars
        => [QuietCall => /\ QuietCall' \/ ~InCall'
                         /\ ClientStep \/ ServerStep => StepsLeft' < StepsLeft]_vars
  BY QuietStep
<1> QED  BY <1>1, StubInvariant, PTL DEF QuietCallShortens, Spec

LEMMA QuietCanGo ==
  ASSUME TypeOK, StubPart, QuietCall
  PROVE  ClientCanGo \/ ServerCanGo
<1>1. CASE ServerGone \/ cli = "done"
  BY <1>1 DEF ClientCanGo, StubPart, QuietCall, InCall
<1>0. ~ServerGone => Len(buf) <= WriteMax
  BY DEF QuietCall
<1>2. \A q, n : Len(q) = 0 /\ n \in 0..SegMax => HasRoom(q, n)
  BY SizeAssumption DEF HasRoom
<1>3. 1 \in 0..SegMax
  BY SizeAssumption
<1>4. CASE cli = "writeMsg" /\ ~ServerGone
  BY <1>2, <1>3, <1>4, QuietFacts DEF ClientCanGo, QuietCall
<1>5. CASE cli \in {"writeBuf", "readMsg"} /\ ~ServerGone
  <2>1. /\ Requesting \/ Replying(1)
        /\ csent \in 0..Len(buf) /\ (cli = "readMsg" => csent = Len(buf))
        /\ cli = "writeBuf" => csent < Len(buf) \/ buf = <<>>
    BY <1>5, QuietFacts DEF QuietCall, StubPart
  <2>2. CASE srv \in {"readMsg", "readBuf"} /\ c2s # <<>>
    BY <2>2 DEF ServerCanGo
  <2>3. CASE srv \in {"crypt", "writeMsg"}
    BY <1>2, <1>3, <2>1, <2>3, QuietFacts DEF Requesting, Replying, SendingBack, ServerCanGo
  <2>4. CASE c2s = <<>> /\ cli = "writeBuf"
    <3>1. HasRoom(c2s, Len(NextSegment(buf, csent)))
      BY <1>0, <1>2, <1>5, <2>1, <2>4, QuietFacts, SegmentGoes
    <3> QED  BY <2>4, <3>1 DEF ClientCanGo
  <2>5. CASE c2s = <<>> /\ cli = "readMsg" /\ srv \notin {"crypt", "writeMsg"}
    <3>1. Replying(1)
      BY <2>1, <2>5, QuietFacts DEF Requesting
    <3>2. s2c # <<>>
      BY <3>1, QuietFacts DEF Replying
    <3> QED  BY <2>5, <3>2 DEF ClientCanGo
  <2>6. srv \in {"readMsg", "readBuf", "crypt", "writeMsg"} \/ c2s = <<>>
    BY <2>1 DEF Requesting, Replying
  <2> QED  BY <1>5, <2>2, <2>3, <2>4, <2>5, <2>6
<1>6. CASE cli = "readBuf" /\ ~ServerGone
  <2>1. Replying(0)
    BY <1>6 DEF QuietCall
  <2>2. CASE s2c # <<>> \/ buf = <<>>
    BY <1>6, <2>2 DEF ClientCanGo
  <2>3. CASE s2c = <<>> /\ buf # <<>>
    <3>1. SendingBack /\ ssent \in 0..Len(sbuf) /\ Len(sbuf) <= WriteMax
      BY <1>0, <1>6, <2>1, <2>3, QuietFacts DEF Replying, SendingBack
    <3>2. HasRoom(s2c, Len(NextSegment(sbuf, ssent)))
      BY <1>2, <2>3, <3>1, QuietFacts, SegmentGoes
    <3> QED  BY <3>1, <3>2 DEF SendingBack, ServerCanGo
  <2> QED  BY <2>2, <2>3
<1> QED  BY <1>1, <1>4, <1>5, <1>6 DEF QuietCall, InCall

\* Nor does anybody wait for ever in it, although each process may block in
\* write() until the other reads.
THEOREM QuietCallsNeverStick == Spec => []QuietCallNotStuck
<1>1. TypeOK /\ StubPart => QuietCallNotStuck
  BY QuietCanGo DEF QuietCallNotStuck
<1> QED  BY <1>1, StubInvariant, PTL

\* When a buffer is one segment every call is such a call, for the one before
\* has left nothing behind.
LEMMA EveryCallQuiet ==
  ASSUME MaxLen <= SegMax, TypeOK, StubPart, Coupling, InCall
  PROVE  QuietCall
<1>0. Len(buf) <= WriteMax
  BY QuietFacts, SizeAssumption, DataAssumption
<1>1. CASE ServerGone
  BY <1>1 DEF QuietCall
<1>2. CASE ~ServerGone /\ cli \in {"writeMsg", "done"}
  BY <1>0, <1>2 DEF Coupling, BothUp, QuietCall, ClientGone
<1>3. CASE ~ServerGone /\ cli \in {"writeBuf", "readMsg", "readBuf"}
  <2>1. /\ BothUp /\ ClientPart /\ sEnd = "open" /\ buf = call.buf
        /\ cli \in {"writeBuf", "readBuf"} => call.type = "CRYPT"
        /\ cli \in {"writeBuf", "readMsg"} => IsRequest(call, cmsg)
    BY <1>3 DEF Coupling, ClientPart, ClientGone
  <2>2. /\ call \in Call /\ NativeBuf(call) \in Buffer /\ Len(NativeBuf(call)) = Len(buf)
        /\ buf = <<>> => NativeBuf(call) = <<>>
    BY <2>1, CallFacts
  <2>3. /\ cli = "writeBuf" => csent = 0
        /\ cli \in {"readMsg", "readBuf"} => csent = Len(buf)
    <3>1. WriteLen(buf) = Len(buf)
      BY QuietFacts, SizeAssumption DEF WriteLen, Smaller
    <3> QED  BY <2>1, <3>1 DEF ClientPart, StubPart
  <2>4. \A m \in Msg : /\ <<Hdr(m)>> \in Seq(Element) /\ Len(<<Hdr(m)>>) = 1
                       /\ Head(<<Hdr(m)>>) = Hdr(m) /\ <<Hdr(m)>> # <<>>
    BY ElementKinds
  <2>5. /\ Raw(<<>>) = <<>> /\ <<>> \in Buffer /\ Len(<<>>) = 0
        /\ \A d \in Buffer : Len(Raw(d)) = Len(d)
    BY UninitType, EmptyBuffer, StreamShapes
  <2>6. cli = "readMsg" => Len(BufferSent) = csent
    BY <2>3, <2>5, QuietFacts DEF BufferSent
  <2>7. cli = "writeBuf" => Len(BufferSent) = csent
    BY <2>3, <2>5 DEF BufferSent
  <2>8. ASSUME Unread, cli \in {"writeBuf", "readMsg"}
        PROVE  Requesting
    <3>1. PICK d \in Buffer : BufferSent = Raw(d)
      BY <2>5, QuietFacts DEF BufferSent
    <3>2. c2s = <<Hdr(cmsg)>> \o Raw(d) /\ Len(BufferSent) = Len(d) /\ d \in Seq(Byte)
      BY <2>5, <2>8, <3>1, BufferSeq DEF Unread
    <3>3. Len(c2s) = 1 + csent
      <4>1. <<Hdr(cmsg)>> \in Seq(Element) /\ Len(<<Hdr(cmsg)>>) = 1
        BY <2>4, QuietFacts
      <4>2. Len(<<Hdr(cmsg)>> \o Raw(d)) = 1 + Len(d)
        BY <3>2, <4>1, QueueLengths
      <4>3. Len(d) = csent
        BY <2>6, <2>7, <2>8, <3>2
      <4> QED  BY <3>2, <4>2, <4>3
    <3>4. Head(c2s) = Hdr(cmsg)
      BY <3>2, QuietFacts, StreamShapes
    <3> QED  BY <2>8, <3>3, <3>4 DEF Unread, Requesting
  <2>9. ASSUME Loading, cli \in {"writeBuf", "readMsg"}
        PROVE  Requesting
    <3>1. smsg = cmsg /\ cmsg.buflen = Len(buf) /\ cmsg.type = "CRYPT"
      BY <2>1, <2>9, QuietFacts DEF Loading, IsRequest
    <3>2. left \in 1..Len(buf) /\ left + csent = Len(buf) + Len(c2s)
      BY <2>6, <2>7, <2>9, QuietFacts DEF Loading
    <3> QED  BY <2>9, <3>1, <3>2 DEF Loading, Requesting
  <2>10. ASSUME Ahead, cli \in {"writeBuf", "readMsg"}, csent = Len(buf)
         PROVE  Requesting \/ Replying(1)
    <3>1. CASE Loaded \/ Answered
      BY <2>1, <2>2, <2>10, <3>1 DEF Loaded, Answered, Requesting, IsRequest
    <3>2. CASE HalfReplied
      <4>1. Len(s2c) = 1
        BY <2>4, <3>2 DEF HalfReplied, ReplyHeader
      <4>2. SendingBack /\ Len(sbuf) = Len(buf) /\ ssent = 0
        BY <2>2, <3>2, QuietFacts DEF HalfReplied, SendingBack
      <4> QED  BY <2>10, <3>2, <4>1, <4>2 DEF HalfReplied, Replying
    <3>3. CASE Replied
      <4>1. PICK m \in Msg : s2c = <<Hdr(m)>> \o Raw(NativeBuf(call))
        BY <3>3 DEF Replied, WholeReply
      <4>2. Len(s2c) = 1 + Len(NativeBuf(call))
        BY <2>2, <2>4, <4>1, QueueLengths, BufferSeq
      <4> QED  BY <2>2, <2>10, <3>3, <4>2 DEF Replied, Replying
    <3> QED  BY <2>10, <3>1, <3>2, <3>3 DEF Ahead
  <2>11. CASE cli = "writeBuf"
    <3>1. csent < Len(buf) \/ buf = <<>>
      BY <2>3, <2>11, QuietFacts
    <3>2. Requesting \/ Replying(1)
      BY <2>1, <2>3, <2>8, <2>9, <2>10, <2>11, QuietFacts DEF BothUp
    <3> QED  BY <1>0, <2>11, <3>1, <3>2 DEF QuietCall
  <2>12. CASE cli = "readMsg"
    BY <1>0, <2>1, <2>3, <2>8, <2>9, <2>10, <2>12 DEF BothUp, QuietCall
  <2>13. CASE cli = "readBuf"
    <3>1. CASE /\ srv = "writeBuf" /\ s2c = <<>> /\ sbuf = NativeBuf(call) /\ ssent = 0 /\ sbuf # <<>>
               /\ left = Len(sbuf)
      BY <1>0, <2>1, <2>2, <2>3, <2>13, <3>1, QuietFacts DEF BothUp, QuietCall, Replying, SendingBack
    <3>2. CASE srv = "readMsg" /\ s2c = Raw(NativeBuf(call))
      <4>1. Len(s2c) = 0 + Len(buf)
        BY <2>2, <2>5, <3>2, QuietFacts
      <4> QED  BY <1>0, <2>1, <2>3, <2>13, <3>2, <4>1 DEF BothUp, QuietCall, Replying
    <3> QED  BY <2>1, <2>13, <3>1, <3>2 DEF BothUp
  <2> QED  BY <1>3, <2>11, <2>12, <2>13
<1> QED  BY <1>1, <1>2, <1>3 DEF InCall

\* A process can go on if its next system call does not block.  Never do both
\* wait for each other during a call, be it for an answer or
\* for room in a queue (aes-comp-client.c:169-207, aes-comp.c:50-156).
CallNotStuck == InCall => ClientCanGo \/ ServerCanGo

\* So, when a buffer is one segment, never do the stub and the compartment
\* wait for each other, whatever the call and whoever has crashed.
THEOREM CallsNeverStick ==
  ASSUME MaxLen <= SegMax
  PROVE  Spec => []CallNotStuck
<1>1. TypeOK /\ StubPart /\ Coupling => CallNotStuck
  BY EveryCallQuiet, QuietCanGo DEF CallNotStuck
<1> QED  BY <1>1, StubInvariant, CouplingInvariant, PTL

\* Nor does a call go round in circles: each step of either process leaves
\* fewer to be made (aes-comp-client.c:169-207, aes-comp.c:50-156).
CallShortens == [][InCall /\ (ClientStep \/ ServerStep) => StepsLeft' < StepsLeft]_vars

\* And then every step of either process brings any call nearer to its end:
\* with CallsNeverStick, it ends if both processes keep running.
THEOREM CallsShorten ==
  ASSUME MaxLen <= SegMax
  PROVE  Spec => CallShortens
<1>1. (TypeOK /\ StubPart /\ Coupling) /\ (TypeOK /\ StubPart)'
        => (InCall /\ (ClientStep \/ ServerStep) => StepsLeft' < StepsLeft)
  BY EveryCallQuiet, QuietStepShortens
<1> QED  BY <1>1, StubInvariant, CouplingInvariant, PTL DEF CallShortens

\* A client that ends normally leaves the compartment where it reads, with
\* nothing but the EXIT to be read (aes-comp-client.c:107-114).
ExitUnderWay ==
  cli = "exited" /\ ~ServerGone =>
    srv = "readMsg" /\ c2s = <<Hdr([Uninit EXCEPT !.type = "EXIT"])>>

\* The next step of a compartment whose program has ended normally is its
\* last: it reads EXIT.
LEMMA ExitStep ==
  ASSUME ExitUnderWay, cli = "exited", ServerStep
  PROVE  ServerGone'
<1> DEFINE exit == [Uninit EXCEPT !.type = "EXIT"]
<1>1. exit \in Msg /\ exit.type = "EXIT"
  BY UninitType DEF Uninit, Msg, MsgType
<1>2. ~ServerGone
  BY DEF ServerGone, ServerStep, ServerReadMsg, ServerReadBuf, ServerCrypt, ServerWriteMsg, ServerWriteBuf
<1>3. srv = "readMsg" /\ c2s = <<Hdr(exit)>>
  BY <1>2 DEF ExitUnderWay
<1> HIDE DEF exit
<1>4. c2s # <<>> /\ Head(c2s) = Hdr(exit) /\ ServerReadMsg
  BY <1>1, <1>3, EmptyBuffer, StreamShapes DEF ServerStep, ServerReadMsg, ServerReadBuf,
         ServerCrypt, ServerWriteMsg, ServerWriteBuf
<1>5. Dispatch(exit, Tail(c2s))
  BY <1>1, <1>4, ElementKinds DEF ServerReadMsg
<1> QED  BY <1>1, <1>5 DEF Dispatch, ServerEnds, ServerGone

\* When a buffer is one segment, a normal end of the program leaves the
\* compartment nothing but EXIT to read, and ready to read it.
THEOREM ExitReachesServer ==
  ASSUME MaxLen <= SegMax
  PROVE  Spec => []ExitUnderWay
<1> DEFINE exit == [Uninit EXCEPT !.type = "EXIT"]
<1>1. exit \in Msg /\ exit.type = "EXIT"
  BY UninitType DEF Uninit, Msg, MsgType
<1>2. Init => ExitUnderWay
  BY DEF Init, ExitUnderWay
<1>3. ASSUME TypeOK, Coupling, ExitUnderWay, [Next]_vars
      PROVE  ExitUnderWay'
  <2> SUFFICES ASSUME (cli = "exited")', ~ServerGone'
               PROVE  srv' = "readMsg" /\ c2s' = <<Hdr(exit)>>
    BY DEF ExitUnderWay, Uninit
  <2> HIDE DEF exit
  <2>1. CASE cli = "exited"
    <3>1. ~ServerGone \/ ServerGone
      OBVIOUS
    <3>2. CASE ServerStep
      BY <1>3, <2>1, <3>2, ExitStep
    <3>3. CASE UNCHANGED vars
      BY <1>3, <2>1, <3>3 DEF ExitUnderWay, ServerGone, exit, vars, serverVars, socketVars
    <3>4. CASE ServerCrash
      BY <3>4 DEF ServerCrash, ServerEnds, ServerGone
    <3> QED  BY <1>3, <2>1, <3>2, <3>3, <3>4 DEF Next, Finished, ClientCrash, ClientGone, destroy, ClientStep,
                ClientWriteMsg, ClientWriteBuf, ClientReadMsg, ClientReadBuf, ClientReturn, Api,
                AES_init_ctx, AES_init_ctx_iv, AES_ctx_set_iv, AES_ECB, AES_CBC, AES_CTR,
                do_generic_crypt, StartCall
  <2>2. CASE cli # "exited"
    <3>1. destroy /\ cli' = "exited"
      BY <1>3, <2>2 DEF Next, Finished, ClientCrash, ClientEnds, ClientStep, vars, clientVars,
           ClientWriteMsg, ClientWriteBuf, ClientReadMsg, ClientReadBuf, ClientReturn, Api,
           AES_init_ctx, AES_init_ctx_iv, AES_ctx_set_iv, AES_ECB, AES_CBC, AES_CTR,
           do_generic_crypt, StartCall, ServerStep, ServerReadMsg, ServerReadBuf,
           ServerCrypt, ServerWriteMsg, ServerWriteBuf, ServerCrash
    <3>2. cli = "idle" /\ sEnd = "open" /\ c2s' = Append(c2s, Hdr(exit)) /\ UNCHANGED srv
      BY <3>1 DEF destroy, ClientEnds, serverVars, exit
    <3>3. srv = "readMsg" /\ c2s = <<>>
      BY <1>3, <3>2 DEF Coupling, BothUp, ClientGone
    <3> QED  BY <3>2, <3>3
  <2> QED  BY <2>1, <2>2
<1> QED  BY <1>2, <1>3, CouplingInvariant, PTL DEF Spec

\* The next step of a compartment whose program has ended normally ends it
\* (aes-comp-client.c:107-114, aes-comp.c:66-68).
ExitServed == [][cli = "exited" /\ ServerStep => ServerGone']_vars

\* So with EXIT to read, a read that does not block, the compartment needs no
\* more than to be run once.
THEOREM ExitIsServed ==
  ASSUME MaxLen <= SegMax
  PROVE  Spec => ExitServed
<1>1. ExitUnderWay => [cli = "exited" /\ ServerStep => ServerGone']_vars
  BY ExitStep
<1> QED  BY <1>1, ExitReachesServer, PTL DEF ExitServed, Spec

-----------------------------------------------------------------------------
(***************************************************************************)
(* A compartment whose client has gone, with buffers of any length.        *)
(***************************************************************************)
\* The end of the file and the signal of a broken pipe wake the compartment
\* wherever it would wait: no orphan is stuck in a system call
\* (aes-comp.c:50-156).
OrphanCanGo ==
  \/ srv = "crypt"
  \/ srv \in {"readMsg", "readBuf"} /\ (c2s # <<>> \/ cEnd # "open")
  \/ srv \in {"writeMsg", "writeBuf"} /\ cEnd # "open"
OrphanNotStuck == ClientGone => ServerGone \/ OrphanCanGo

\* An orphan serves what is queued, at most one request more, and then has
\* ended or spins; once it spins only a crash ends it (aes-comp.c:50-156).
OrphanStepsLeft ==
  CASE srv = "readMsg" -> 4 + Len(c2s) [] srv = "readBuf" -> 3 + Len(c2s)
    [] srv = "crypt" -> 2 [] srv \in {"writeMsg", "writeBuf"} -> 1 [] OTHER -> 0
OrphanShortens ==
  [][ClientGone => /\ ClientGone'
                   /\ Spinning => Spinning' \/ ServerGone'
                   /\ ServerStep => Spinning' \/ OrphanStepsLeft' < OrphanStepsLeft]_vars

\* The buffer loop is only entered, and only stayed in, with something left.
LoadPart == srv = "readBuf" => left # 0 /\ smsg.buflen > 0

LEMMA LoadStep ==
  ASSUME TypeOK, LoadPart, [Next]_vars
  PROVE  LoadPart'
<1>1. ASSUME NEW how \in {"exited", "dead"}, NEW q, ServerEnds(how, q)
      PROVE  LoadPart'
  BY <1>1 DEF ServerEnds, LoadPart
<1>2. ASSUME NEW m \in Msg, NEW q, srv = "readMsg", Dispatch(m, q)
      PROVE  LoadPart'
  <2>1. m.buflen \in Nat
    BY DataAssumption DEF Msg
  <2>2. CASE m.type = "CRYPT" /\ ~\E how \in {"exited", "dead"} : ServerEnds(how, q)
    <3>1. smsg' = m /\ left' = ToInt(m.buflen) /\ (srv' = "readBuf" => left' # 0)
      BY <1>2, <2>2 DEF Dispatch
    <3>2. srv' = "readBuf" => m.buflen # 0
      BY <2>1, <3>1, IntType, SizeAssumption, DataAssumption
    <3> QED  BY <2>1, <3>1, <3>2 DEF LoadPart
  <2> QED  BY <1>1, <1>2, <2>2 DEF Dispatch, LoadPart
<1>3. CASE ServerReadMsg
  <2>1. CASE c2s # <<>>
    <3>1. Head(c2s) \in Element
      BY <2>1, StreamType DEF TypeOK
    <3>2. PICK m \in IF Head(c2s).kind = "msg" THEN {Head(c2s).msg} ELSE Msg : Dispatch(m, Tail(c2s))
      BY <1>3, <2>1 DEF ServerReadMsg
    <3>3. m \in Msg
      BY <3>1, <3>2, ElementKinds
    <3> QED  BY <1>2, <1>3, <3>2, <3>3 DEF ServerReadMsg
  <2> QED  BY <1>1, <1>2, <1>3, <2>1 DEF ServerReadMsg, TypeOK
<1>4. CASE ServerReadBuf
  BY <1>1, <1>4 DEF ServerReadBuf, LoadPart
<1>5. CASE ServerCrypt \/ ServerWriteMsg \/ ServerWriteBuf \/ ServerCrash
  BY <1>1, <1>5 DEF ServerCrypt, ServerWriteMsg, ServerWriteBuf, ServerCrash, LoadPart
<1>6. CASE UNCHANGED serverVars
  BY <1>6 DEF serverVars, LoadPart
<1>7. \/ ServerStep \/ ServerCrash \/ UNCHANGED serverVars
  BY DEF Next, Finished, ClientCrash, ClientEnds, ClientStep, vars, destroy,
         ClientWriteMsg, ClientWriteBuf, ClientReadMsg, ClientReadBuf, ClientReturn, Api,
         AES_init_ctx, AES_init_ctx_iv, AES_ctx_set_iv, AES_ECB, AES_CBC, AES_CTR,
         do_generic_crypt, StartCall, socketVars
<1> QED  BY <1>3, <1>4, <1>5, <1>6, <1>7 DEF ServerStep

\* Only the compartment moves once the client has gone.
LEMMA OrphanAlone ==
  ASSUME ClientGone, [Next]_vars
  PROVE  UNCHANGED <<clientVars, cEnd>> /\ (ServerStep \/ ServerCrash \/ UNCHANGED vars)
<1>1. ServerStep \/ ServerCrash \/ UNCHANGED vars
  BY DEF Next, Finished, ClientCrash, ClientGone, ClientStep, destroy,
         ClientWriteMsg, ClientWriteBuf, ClientReadMsg, ClientReadBuf, ClientReturn, Api,
         AES_init_ctx, AES_init_ctx_iv, AES_ctx_set_iv, AES_ECB, AES_CBC, AES_CTR,
         do_generic_crypt, StartCall
<1> QED  BY <1>1 DEF vars, socketVars, ServerStep, ServerReadMsg, ServerReadBuf, ServerCrypt,
              ServerWriteMsg, ServerWriteBuf, ServerCrash

\* switch (msg.type) on the last request of all, or on one with q behind it.
LEMMA OrphanDispatch ==
  ASSUME TypeOK, cEnd' = cEnd, NEW m \in Msg, NEW q \in Seq(Element), srv = "readMsg", Dispatch(m, q),
         \/ c2s # <<>> /\ Len(q) = Len(c2s) - 1
         \/ c2s = <<>> /\ q = c2s /\ cEnd = "eof"
  PROVE  Spinning' \/ OrphanStepsLeft' < OrphanStepsLeft
<1>1. /\ OrphanStepsLeft = 4 + Len(c2s) /\ Len(c2s) \in Nat
      /\ Len(q) \in Nat /\ Len(q) <= Len(c2s) /\ (c2s # <<>> => Len(q) < Len(c2s))
  <2>1. OrphanStepsLeft = 4 + Len(c2s)
    BY DEF OrphanStepsLeft
  <2> QED  BY <2>1, QuietFacts, LenProperties
<1>2. CASE srv' \in {"crypt", "writeMsg", "exited", "dead"}
  <2>1. OrphanStepsLeft' \in {0, 1, 2}
    BY <1>2 DEF OrphanStepsLeft
  <2> QED  BY <1>1, <2>1
<1>3. CASE srv' = "readBuf"
  <2>1. c2s' = q
    BY <1>3 DEF Dispatch, ServerEnds
  <2>2. OrphanStepsLeft' = 3 + Len(q)
    BY <1>3, <2>1 DEF OrphanStepsLeft
  <2> QED  BY <1>1, <2>2
<1>4. CASE srv' = "readMsg"
  <2>1. m.type = "OTHER" /\ smsg' = m /\ c2s' = q
    BY <1>4 DEF Dispatch, ServerEnds
  <2>2. OrphanStepsLeft' = 4 + Len(q)
    BY <1>4, <2>1 DEF OrphanStepsLeft
  <2>3. CASE c2s = <<>>
    BY <1>4, <2>1, <2>3 DEF Spinning
  <2> QED  BY <1>1, <2>2, <2>3
<1>5. srv' \in {"crypt", "writeMsg", "exited", "dead", "readBuf", "readMsg"}
  BY DEF Dispatch, ServerEnds
<1> QED  BY <1>2, <1>3, <1>4, <1>5

LEMMA OrphanGoesOn ==
  ASSUME TypeOK, StubPart, LoadPart, ClientGone, cEnd' = cEnd, ServerStep
  PROVE  Spinning' \/ OrphanStepsLeft' < OrphanStepsLeft
<1>1. ASSUME srv' \in {"exited", "dead"}
      PROVE  OrphanStepsLeft' < OrphanStepsLeft
  <2>1. OrphanStepsLeft' = 0
    BY <1>1 DEF OrphanStepsLeft
  <2>2. OrphanStepsLeft \in {4 + Len(c2s), 3 + Len(c2s), 2, 1} /\ Len(c2s) \in Nat
    BY QuietFacts DEF OrphanStepsLeft, ServerStep, ServerReadMsg, ServerReadBuf, ServerCrypt,
       ServerWriteMsg, ServerWriteBuf
  <2> QED  BY <2>1, <2>2
<1>2. CASE ServerReadMsg
  <2>1. CASE c2s # <<>>
    <3>1. Head(c2s) \in Element /\ Tail(c2s) \in Seq(Element)
      BY <2>1, StreamType DEF TypeOK
    <3>2. PICK m \in IF Head(c2s).kind = "msg" THEN {Head(c2s).msg} ELSE Msg : Dispatch(m, Tail(c2s))
      BY <1>2, <2>1 DEF ServerReadMsg
    <3>3. m \in Msg /\ srv = "readMsg"
      BY <1>2, <3>1, <3>2, ElementKinds DEF ServerReadMsg
    <3>4. Len(Tail(c2s)) = Len(c2s) - 1
      BY <2>1, QueueLengths DEF TypeOK
    <3> QED  BY <2>1, <3>1, <3>2, <3>3, <3>4, OrphanDispatch
  <2>2. CASE c2s = <<>> /\ cEnd = "eof" /\ Dispatch(smsg, c2s)
    BY <1>2, <2>2, OrphanDispatch DEF ServerReadMsg, TypeOK
  <2> QED  BY <1>1, <1>2, <2>1, <2>2 DEF ServerReadMsg, ServerEnds
<1>3. CASE ServerReadBuf
  <2>1. CASE ServerEnds("dead", c2s)
    BY <1>1, <2>1 DEF ServerEnds
  <2>2. CASE ~ServerEnds("dead", c2s)
    <3> DEFINE n == Smaller(smsg.buflen, Len(c2s))
    <3>1. /\ srv = "readBuf" /\ (c2s # <<>> \/ cEnd = "eof")
          /\ c2s' = Rest(c2s, smsg.buflen) /\ left' = LeftAfter(left, n)
          /\ srv' = IF left' = 0 THEN "crypt" ELSE "readBuf"
      BY <1>3, <2>2 DEF ServerReadBuf
    <3>2. /\ smsg.buflen \in Nat /\ smsg.buflen > 0 /\ left # 0 /\ left \in Int
          /\ Len(c2s) \in Nat /\ (Len(c2s) = 0 <=> c2s = <<>>)
      BY <3>1, QuietFacts, DataAssumption DEF LoadPart, TypeOK, Msg
    <3>3. n \in Nat /\ n <= Len(c2s) /\ (c2s # <<>> => n > 0) /\ (c2s = <<>> => n = 0)
      BY <3>2 DEF Smaller
    <3>4. Len(c2s') = Len(c2s) - n
      BY <3>1, <3>2, QueueLengths DEF TypeOK
    <3> HIDE DEF n
    <3>5. OrphanStepsLeft = 3 + Len(c2s)
      BY <3>1 DEF OrphanStepsLeft
    <3>6. CASE left' = 0
      <4>1. OrphanStepsLeft' = 2
        BY <3>1, <3>6 DEF OrphanStepsLeft
      <4> QED  BY <3>2, <3>5, <4>1
    <3>7. CASE left' # 0 /\ c2s # <<>>
      <4>1. OrphanStepsLeft' = 3 + Len(c2s')
        BY <3>1, <3>7 DEF OrphanStepsLeft
      <4> QED  BY <3>2, <3>3, <3>4, <3>5, <3>7, <4>1
    <3>8. CASE left' # 0 /\ c2s = <<>>
      <4>1. c2s' = <<>>
        BY <3>1, <3>2, <3>3, <3>4, <3>8, QueueLengths, StreamType, EmptySeq DEF TypeOK
      <4> QED  BY <3>1, <3>8, <4>1 DEF Spinning
    <3> QED  BY <3>6, <3>7, <3>8
  <2> QED  BY <2>1, <2>2
<1>4. CASE ServerCrypt
  <2>1. OrphanStepsLeft = 2 /\ OrphanStepsLeft' = 1
    BY <1>4 DEF ServerCrypt, OrphanStepsLeft
  <2> QED  BY <2>1
<1>5. CASE ServerWriteMsg \/ ServerWriteBuf
  BY <1>1, <1>5 DEF ServerWriteMsg, ServerWriteBuf, ServerEnds, StubPart
<1> QED  BY <1>2, <1>3, <1>4, <1>5 DEF ServerStep

\* A read at the end of the file changes nothing.
LEMMA SpinsOn ==
  ASSUME TypeOK, LoadPart, Spinning, cEnd' = cEnd, ServerStep
  PROVE  Spinning'
<1>1. CASE srv = "readMsg"
  <2>1. c2s = <<>> /\ cEnd = "eof" /\ smsg.type = "OTHER" /\ Dispatch(smsg, c2s)
    BY <1>1 DEF Spinning, ServerStep, ServerReadMsg, ServerReadBuf, ServerCrypt, ServerWriteMsg,
                ServerWriteBuf
  <2>2. smsg' = smsg /\ c2s' = c2s /\ srv' = srv
    BY <2>1 DEF Dispatch
  <2> QED  BY <1>1, <2>1, <2>2 DEF Spinning
<1>2. CASE srv = "readBuf"
  <2>1. c2s = <<>> /\ cEnd = "eof" /\ left # 0 /\ ServerReadBuf
    BY <1>2 DEF Spinning, ServerStep, ServerReadMsg, ServerReadBuf, ServerCrypt, ServerWriteMsg,
                ServerWriteBuf
  <2>2. smsg.buflen \in Nat /\ left \in -1..MaxLen /\ Len(c2s) = 0
    BY <2>1, QuietFacts, DataAssumption DEF TypeOK, Msg
  <2>3. Smaller(smsg.buflen, Len(c2s)) = 0
    BY <2>2 DEF Smaller
  <2>4. left' = LeftAfter(left, 0) /\ c2s' = Rest(c2s, smsg.buflen)
        /\ srv' = IF left' = 0 THEN "crypt" ELSE "readBuf"
    BY <2>1, <2>3 DEF ServerReadBuf
  <2>5. left' = left
    BY <2>2, <2>4, DataAssumption DEF LeftAfter
  <2>6. c2s' = <<>>
    <3>1. Rest(c2s, smsg.buflen) \in Seq(Element)
      BY <2>2, StreamType DEF TypeOK
    <3>2. Len(Rest(c2s, smsg.buflen)) = Len(c2s) - Smaller(smsg.buflen, Len(c2s))
      BY <2>2, QueueLengths DEF TypeOK
    <3> QED  BY <2>2, <2>3, <2>4, <3>1, <3>2, EmptySeq
  <2> QED  BY <2>1, <2>4, <2>5, <2>6 DEF Spinning
<1> QED  BY <1>1, <1>2 DEF Spinning

\* What no test would wait for: whatever the client was doing when it went,
\* the compartment it leaves behind never waits for ever in a system call,
THEOREM OrphansNeverStick == Spec => []OrphanNotStuck
<1>1. TypeOK /\ StubPart => OrphanNotStuck
  BY DEF TypeOK, StubPart, OrphanNotStuck, OrphanCanGo, ServerGone
<1> QED  BY <1>1, StubInvariant, PTL

\* and has only so many steps left before it has ended or spins: if it keeps
\* running, it does one or the other.
THEOREM OrphansShorten == Spec => OrphanShortens
<1>1. Init => LoadPart
  BY DEF Init, LoadPart
<1>2. (TypeOK /\ StubPart) /\ LoadPart /\ [Next]_vars => LoadPart'
  BY LoadStep
<1>3. TypeOK /\ StubPart /\ LoadPart /\ [Next]_vars
        => [ClientGone => /\ ClientGone'
                          /\ Spinning => Spinning' \/ ServerGone'
                          /\ ServerStep => Spinning' \/ OrphanStepsLeft' < OrphanStepsLeft]_vars
  <2> SUFFICES ASSUME TypeOK, StubPart, LoadPart, [Next]_vars, ClientGone, vars' # vars
               PROVE  /\ ClientGone'
                      /\ Spinning => Spinning' \/ ServerGone'
                      /\ ServerStep => Spinning' \/ OrphanStepsLeft' < OrphanStepsLeft
    OBVIOUS
  <2>1. UNCHANGED <<clientVars, cEnd>> /\ (ServerStep \/ ServerCrash)
    BY OrphanAlone
  <2>2. ClientGone'
    BY <2>1 DEF ClientGone, clientVars
  <2>3. ServerCrash => ServerGone'
    BY DEF ServerCrash, ServerEnds, ServerGone
  <2> QED  BY <2>1, <2>2, <2>3, OrphanGoesOn, SpinsOn
<1> QED  BY <1>1, <1>2, <1>3, StubInvariant, PTL DEF OrphanShortens, Spec

-----------------------------------------------------------------------------
(***************************************************************************)
(* The compartmentalised library implements AesApi.                        *)
(***************************************************************************)
\* The two modules speak of the same library.
LEMMA SameLibrary ==
  /\ Service!Ctx = Ctx /\ Service!Call = Call /\ Service!NoCall = NoCall
  /\ \A c : Service!NativeCtx(c) = NativeCtx(c) /\ Service!NativeBuf(c) = NativeBuf(c)
<1>1. Service!Ctx = Ctx
  BY DEF Ctx, Service!Ctx
<1>2. Service!Mode = Mode /\ Service!Buffer = Buffer /\ Service!CallType = CallType
  BY DEF Mode, EcbMode, CbcMode, Buffer, CallType,
         Service!Mode, Service!EcbMode, Service!CbcMode, Service!Buffer, Service!CallType
<1>3. Service!Call = Call
  BY <1>1, <1>2 DEF Call, Service!Call
<1>4. Service!AnyKey = AnyKey /\ Service!AnyIv = AnyIv /\ Service!AnyCtx = AnyCtx
  BY <1>1 DEF AnyKey, AnyIv, AnyCtx, Service!AnyKey, Service!AnyIv, Service!AnyCtx
<1>5. Service!NoCall = NoCall
  BY <1>4 DEF NoCall, Service!NoCall
<1>6. \A c : Service!NativeCtx(c) = NativeCtx(c)
  BY DEF NativeCtx, InitCtx, InitCtxIv, SetIv, CryptCtx, Service!NativeCtx, Service!InitCtx,
         Service!InitCtxIv, Service!SetIv, Service!CryptCtx
<1>7. \A c : Service!NativeBuf(c) = NativeBuf(c)
  BY DEF NativeBuf, Service!NativeBuf
<1> QED  BY <1>1, <1>3, <1>5, <1>6, <1>7

\* A client that ends, of whatever cause, is an end of the program.
LEMMA EndStep ==
  ASSUME TypeOK, ~ClientGone, NEW how \in {"exited", "dead"}, ClientEnds(how)
  PROVE  Service!End
<1>1. cli \notin {"exited", "dead"} /\ cli' \in {"exited", "dead"}
  BY DEF ClientGone, ClientEnds
<1>2. UNCHANGED <<ctx, buf, call, sEnd>> /\ ctx \in Ctx
  BY DEF ClientEnds, TypeOK
<1> QED  BY <1>1, <1>2, SameLibrary DEF Service!End

\* Every API function starts a call.
LEMMA InvokeStep ==
  ASSUME Coupling', Api
  PROVE  Service!Invoke
<1>1. PICK m, d : StartCall(m, d)
  BY DEF Api, AES_init_ctx, AES_init_ctx_iv, AES_ctx_set_iv, AES_ECB, AES_CBC, AES_CTR, do_generic_crypt
<1>2. cli = "idle" /\ cli' = "writeMsg" /\ call'.ctx = ctx /\ call'.buf = d
  BY <1>1 DEF StartCall
<1>3. UNCHANGED <<ctx, sEnd>> /\ buf' = d
  BY <1>1 DEF StartCall, socketVars
<1>4. call' \in Call
  BY <1>2 DEF Coupling, ClientPart, InCall
<1> QED  BY <1>2, <1>3, <1>4, SameLibrary DEF Service!Invoke

\* The stub's system calls before the last one are steps nobody sees, or
\* the end of the program.
LEMMA WriteStep ==
  ASSUME TypeOK, Coupling, ClientWriteMsg \/ ClientWriteBuf
  PROVE  Service!End \/ UNCHANGED Service!vars
<1>1. cli \in {"writeMsg", "writeBuf"} /\ ~ClientGone
  BY DEF ClientWriteMsg, ClientWriteBuf, ClientGone
<1>2. CASE ClientEnds("dead")
  BY <1>1, <1>2, EndStep
<1>3. CASE ~ClientEnds("dead")
  <2>1. cli = "writeBuf" => ~(csent > 0)
    BY DEF Coupling, ClientPart
  <2>2. cli' \in {"writeBuf", "readMsg"} /\ UNCHANGED <<ctx, buf, call, sEnd>>
    BY <1>3, <2>1 DEF ClientWriteMsg, ClientWriteBuf
  <2> QED  BY <1>1, <2>2 DEF Service!vars
<1> QED  BY <1>2, <1>3

\* Reading the reply's struct ends a context call, with the native result or
\* what a dead compartment leaves of it.
LEMMA ReadMsgStep ==
  ASSUME TypeOK, TypeOK', Coupling, Coupling', ClientReadMsg
  PROVE  Service!Return \/ Service!End \/ UNCHANGED Service!vars
<1>1. cli = "readMsg" /\ ~ClientGone /\ InCall /\ ClientPart
  BY DEF ClientReadMsg, ClientGone, InCall, Coupling
<1>2. CASE ClientEnds("dead")
  BY <1>1, <1>2, EndStep
<1>3. CASE ~ClientEnds("dead")
  <2>1. /\ UNCHANGED <<buf, call, sEnd>> /\ ctx' = cmsg'.ctx
        /\ cli' = IF call.type = "CRYPT" THEN "readBuf" ELSE "done"
    BY <1>3 DEF ClientReadMsg
  <2>2. /\ call \in Call /\ buf = call.buf /\ ctx = call.ctx /\ IsRequest(call, cmsg)
        /\ call.type # "CRYPT" => NativeBuf(call) = buf
    BY <1>1, CallFacts DEF ClientPart
  <2>3. CASE call.type = "CRYPT"
    BY <1>1, <2>1, <2>2, <2>3 DEF Service!vars
  <2>4. CASE call.type # "CRYPT"
    <3>1. cli' = "done" /\ ctx' \in Ctx /\ buf' = NativeBuf(call)
      BY <2>1, <2>2, <2>4 DEF TypeOK
    <3>2. CASE sEnd = "open"
      <4>1. IsResult(call, ctx')
        BY <2>1, <3>1, <3>2 DEF Coupling, ClientPart
      <4>2. Service!Result
        BY <3>1, <4>1, SameLibrary DEF Service!Result, IsResult
      <4> QED  BY <1>1, <2>1, <3>1, <4>2 DEF Service!Return
    <3>3. CASE sEnd # "open"
      <4>1. CASE call.type \in {"INIT", "INIT_IV"}
        <5>1. Service!FailedResult
          BY <2>1, <3>1, <4>1, SameLibrary DEF Service!FailedResult
        <5> QED  BY <1>1, <2>1, <3>1, <3>3, <5>1 DEF Service!Return
      <4>2. CASE call.type = "SET_IV"
        <5>1. ctx' \in {call.ctx, NativeCtx(call)}
          <6>1. CASE s2c = <<>>
            BY <1>3, <2>1, <2>2, <4>2, <6>1 DEF ClientReadMsg, IsRequest
          <6>2. CASE s2c # <<>>
            <7>1. PICK m \in Msg : IsResult(call, m.ctx) /\ Head(s2c) = Hdr(m)
              <8>1. ReplyHeader(call, s2c) \/ WholeReply(call, s2c)
                BY <1>1, <3>3, <6>2 DEF Coupling, ServerGonePart
              <8> QED  BY <1>1, <8>1, CallFacts, StreamShapes DEF ReplyHeader, WholeReply
            <7>2. cmsg' = m
              BY <1>3, <6>2, <7>1, ElementKinds DEF ClientReadMsg
            <7> QED  BY <2>1, <4>2, <7>1, <7>2 DEF IsResult
          <6> QED  BY <6>1, <6>2
        <5>2. Service!FailedResult
          BY <2>1, <4>2, <5>1, SameLibrary DEF Service!FailedResult
        <5> QED  BY <1>1, <2>1, <3>1, <3>3, <5>2 DEF Service!Return
      <4> QED  BY <2>2, <2>4, <4>1, <4>2 DEF Call, CallType
    <3> QED  BY <3>2, <3>3
  <2> QED  BY <2>3, <2>4
<1> QED  BY <1>2, <1>3

\* Reading the reply's buffer ends an encryption or decryption call likewise.
LEMMA ReadBufStep ==
  ASSUME TypeOK, TypeOK', Coupling, Coupling', ClientReadBuf
  PROVE  Service!Return \/ Service!End
<1>1. cli = "readBuf" /\ ~ClientGone /\ InCall /\ ClientPart
  BY DEF ClientReadBuf, ClientGone, InCall, Coupling
<1>2. CASE ClientEnds("dead")
  BY <1>1, <1>2, EndStep
<1>3. CASE ~ClientEnds("dead")
  <2>1. /\ UNCHANGED <<ctx, call, sEnd>> /\ cli' = "done"
        /\ buf' = Overlay(buf, Taken(s2c, Len(buf)))
    BY <1>3 DEF ClientReadBuf
  <2> DEFINE out == NativeBuf(call)
  <2>2. /\ call \in Call /\ call.type = "CRYPT" /\ buf = call.buf
        /\ out \in Seq(Byte) /\ buf \in Seq(Byte) /\ Len(buf) = Len(out)
    BY <1>1, CallFacts, BufferSeq DEF ClientPart, TypeOK
  <2>3. CASE sEnd = "open"
    <3>1. IsResult(call, ctx') /\ buf' = out
      BY <2>1, <2>3 DEF Coupling, ClientPart
    <3>2. Service!Result
      BY <2>1, <2>2, <3>1, SameLibrary DEF Service!Result, IsResult
    <3> QED  BY <1>1, <2>1, <3>2 DEF Service!Return
  <2>4. CASE sEnd # "open"
    <3>1. CASE s2c = Raw(out) /\ ctx = NativeCtx(call)
      <4>1. buf' = out
        BY <2>1, <2>2, <3>1, ReadWhole
      <4>2. Service!Result
        BY <2>1, <3>1, <4>1, SameLibrary DEF Service!Result
      <4> QED  BY <1>1, <2>1, <4>2 DEF Service!Return
    <3>2. CASE s2c = <<>> /\ ctx \in {call.ctx, NativeCtx(call)}
      <4>1. buf' = buf
        <5>1. Taken(s2c, Len(buf)) = <<>>
          <6>1. Len(buf) \in Nat
            BY <2>2, LenProperties
          <6>2. Smaller(Len(buf), Len(s2c)) = 0
            BY <3>2, <6>1 DEF Smaller
          <6> QED  BY <6>2 DEF Taken
        <5>2. Len(<<>>) = 0 /\ Len(buf) \in Nat /\ buf = [i \in 1..Len(buf) |-> buf[i]]
          BY <2>2, LenProperties
        <5>3. buf' = [i \in 1..Len(buf) |-> IF i <= Len(<<>>) THEN <<>>[i] ELSE buf[i]]
          BY <2>1, <5>1 DEF Overlay
        <5> QED  BY <5>2, <5>3
      <4>2. Service!FailedResult
        BY <2>1, <2>2, <3>2, <4>1, SameLibrary DEF Service!FailedResult
      <4> QED  BY <1>1, <2>1, <2>4, <4>2 DEF Service!Return
    <3> QED  BY <1>1, <2>4, <3>1, <3>2 DEF Coupling, ServerGonePart
  <2> QED  BY <2>3, <2>4
<1> QED  BY <1>2, <1>3

\* The compartment's steps are its failure, or steps nobody sees.
LEMMA CompartmentStep ==
  ASSUME Coupling, ServerStep \/ ServerCrash
  PROVE  Service!Fail \/ UNCHANGED Service!vars
<1>1. UNCHANGED <<cli, ctx, buf, call>>
  BY DEF ServerStep, ServerReadMsg, ServerReadBuf, ServerCrypt, ServerWriteMsg, ServerWriteBuf,
         ServerCrash, clientVars
<1>2. ~ServerGone
  BY DEF ServerStep, ServerReadMsg, ServerReadBuf, ServerCrypt, ServerWriteMsg, ServerWriteBuf,
         ServerCrash, ServerGone
<1>3. sEnd = "open"
  BY <1>2 DEF Coupling
<1>4. sEnd' = sEnd \/ sEnd' # "open"
  BY <1>3
<1> QED  BY <1>1, <1>3, <1>4 DEF Service!Fail, Service!vars

LEMMA ServiceStep ==
  ASSUME TypeOK, TypeOK', Coupling, Coupling', [Next]_vars
  PROVE  [Service!Next]_Service!vars
<1>1. CASE Api
  BY <1>1, InvokeStep DEF Service!Next
<1>2. CASE ClientWriteMsg \/ ClientWriteBuf
  BY <1>2, WriteStep DEF Service!Next
<1>3. CASE ClientReadMsg
  BY <1>3, ReadMsgStep DEF Service!Next
<1>4. CASE ClientReadBuf
  BY <1>4, ReadBufStep DEF Service!Next
<1>5. CASE ClientReturn
  <2>1. cli = "done" /\ cli' = "idle" /\ buf' = <<>> /\ call' = NoCall /\ UNCHANGED <<ctx, sEnd>>
    BY <1>5 DEF ClientReturn, socketVars
  <2> QED  BY <2>1, SameLibrary DEF Service!Next, Service!Resume
<1>6. CASE destroy \/ ClientCrash
  <2>1. ~ClientGone /\ \E how \in {"exited", "dead"} : ClientEnds(how)
    BY <1>6 DEF destroy, ClientCrash, ClientGone
  <2> QED  BY <2>1, EndStep DEF Service!Next
<1>7. CASE ServerStep \/ ServerCrash
  BY <1>7, CompartmentStep DEF Service!Next
<1>8. CASE UNCHANGED vars
  BY <1>8 DEF vars, clientVars, serverVars, socketVars, Service!vars
<1> QED  BY <1>1, <1>2, <1>3, <1>4, <1>5, <1>6, <1>7, <1>8 DEF Next, ClientStep, Finished

\* When a buffer is one segment, the program cannot tell the stub and the
\* compartment, with all their system calls, from AesApi's single steps.
THEOREM CallsAreAtomic ==
  ASSUME MaxLen <= SegMax
  PROVE  Spec => ImplementsApi
<1>1. Init => Service!Init
  BY SameLibrary DEF Init, Service!Init
<1>2. TypeOK /\ Coupling /\ (TypeOK /\ Coupling)' /\ [Next]_vars => [Service!Next]_Service!vars
  BY ServiceStep
<1>3. Spec => [](TypeOK /\ Coupling)
  BY CouplingInvariant
<1> QED  BY <1>1, <1>2, <1>3, PTL DEF Spec, ImplementsApi, Service!Spec

-----------------------------------------------------------------------------
(***************************************************************************)
(* The stub and the compartment do what AesStartup has of a program and    *)
(* the compartment that accepted it.                                       *)
(***************************************************************************)
\* The compartment leaves its loop for EXIT only, which no call sends.
LoopPart == srv = "exited" => ClientGone

LEMMA LoopStep ==
  ASSUME MaxLen <= SegMax, TypeOK, Coupling, LoopPart, [Next]_vars
  PROVE  LoopPart'
<1>1. ClientGone => ClientGone'
  BY DEF ClientGone, Next, Finished, ClientCrash, ClientStep, destroy, vars, clientVars,
         ClientWriteMsg, ClientWriteBuf, ClientReadMsg, ClientReadBuf, ClientReturn, Api,
         AES_init_ctx, AES_init_ctx_iv, AES_ctx_set_iv, AES_ECB, AES_CBC, AES_CTR,
         do_generic_crypt, StartCall, ServerStep, ServerReadMsg, ServerReadBuf,
         ServerCrypt, ServerWriteMsg, ServerWriteBuf, ServerCrash
<1>2. CASE srv = "exited" \/ srv' # "exited"
  BY <1>1, <1>2 DEF LoopPart
<1>3. CASE srv # "exited" /\ srv' = "exited"
  <2>1. ServerReadMsg
    BY <1>3 DEF Next, Finished, ClientCrash, ClientEnds, ClientStep, destroy, vars, serverVars,
           ClientWriteMsg, ClientWriteBuf, ClientReadMsg, ClientReadBuf, ClientReturn, Api,
           AES_init_ctx, AES_init_ctx_iv, AES_ctx_set_iv, AES_ECB, AES_CBC, AES_CTR,
           do_generic_crypt, StartCall, ServerStep, ServerReadBuf, ServerEnds,
           ServerCrypt, ServerWriteMsg, ServerWriteBuf, ServerCrash
  <2>2. UNCHANGED cli /\ srv = "readMsg" /\ ~ServerGone
    BY <2>1 DEF ServerReadMsg, clientVars, ServerGone
  <2>3. CASE c2s = <<>>
    <3>1. cEnd # "open"
      BY <1>3, <2>1, <2>3 DEF ServerReadMsg, ServerEnds
    <3> QED  BY <2>2, <3>1 DEF Coupling, ClientGone, LoopPart
  <2>4. CASE c2s # <<>> /\ ~ClientGone
    <3>1. PICK m \in IF Head(c2s).kind = "msg" THEN {Head(c2s).msg} ELSE Msg : Dispatch(m, Tail(c2s))
      BY <2>1, <2>4 DEF ServerReadMsg
    <3>2. BothUp /\ ClientPart /\ cmsg \in Msg /\ buf \in Buffer
      BY <2>2, <2>4 DEF Coupling, TypeOK
    <3>3. cli \in {"writeBuf", "readMsg"} /\ Unread /\ InCall
      BY <2>2, <2>4, <3>2 DEF BothUp, Loading, Ahead, Loaded, Answered, HalfReplied, Replied,
                              TypeOK, ClientGone, InCall
    <3>4. m = cmsg
      BY <3>1, <3>2, <3>3, StreamShapes, ElementKinds DEF Unread, BufferSent
    <3>5. cmsg.type \in CallType
      BY <3>2, <3>3 DEF ClientPart, IsRequest, Call
    <3> QED  BY <1>3, <2>2, <3>1, <3>4, <3>5 DEF Dispatch, ServerEnds, CallType
  <2> QED  BY <2>2, <2>3, <2>4 DEF LoopPart, ClientGone
<1> QED  BY <1>2, <1>3

\* The program's end, whatever its cause.
LEMMA SessionCrash ==
  ASSUME ~ClientGone, cli' = "dead", UNCHANGED srv
  PROVE  Session!ProgCrash(1)
BY DEF ClientGone, Session!ProgCrash, Session!ProgGone, Session!compVars

\* Starting a call and returning from it are not steps of the session.
LEMMA SessionApi ==
  ASSUME Api \/ ClientReturn
  PROVE  UNCHANGED Session!vars
<1>1. UNCHANGED srv /\ cli \in {"idle", "done"} /\ cli' \in {"idle", "writeMsg"}
  BY DEF ClientReturn, Api, AES_init_ctx, AES_init_ctx_iv, AES_ctx_set_iv, AES_ECB, AES_CBC, AES_CTR,
         do_generic_crypt, StartCall, serverVars
<1> QED  BY <1>1 DEF Session!vars, Session!progVars, Session!compVars

\* The request's header is the call; without a compartment it is the end.
LEMMA SessionWrite ==
  ASSUME Coupling, LoopPart, ClientWriteMsg \/ ClientWriteBuf
  PROVE  Session!Call(1) \/ Session!ProgCrash(1) \/ UNCHANGED Session!vars
<1>1. cli \in {"writeMsg", "writeBuf"} /\ ~ClientGone /\ UNCHANGED srv
  BY DEF ClientWriteMsg, ClientWriteBuf, ClientGone, ClientEnds, serverVars
<1>2. CASE cli' = "dead"
  BY <1>1, <1>2, SessionCrash
<1>3. CASE cli = "writeMsg" /\ cli' # "dead"
  <2>1. cli' \in {"writeBuf", "readMsg"} /\ ~ServerGone
    BY <1>3 DEF ClientWriteMsg, ClientWriteBuf, ClientEnds, Coupling
  <2> QED  BY <1>1, <1>3, <2>1 DEF ServerGone, Session!Call, Session!Accepting, Session!compVars
<1>4. CASE cli = "writeBuf" /\ cli' # "dead"
  <2>1. cli' \in {"writeBuf", "readMsg"}
    BY <1>4 DEF ClientWriteMsg, ClientWriteBuf, ClientEnds
  <2> QED  BY <1>1, <1>4, <2>1 DEF Session!vars, Session!progVars, Session!compVars
<1> QED  BY <1>1, <1>2, <1>3, <1>4

\* The last read is the answer, or what the end of the compartment makes of it.
LEMMA SessionRead ==
  ASSUME TypeOK, LoopPart, ClientReadMsg \/ ClientReadBuf
  PROVE  Session!Answer(1) \/ Session!CallBroken(1) \/ Session!ProgCrash(1) \/ UNCHANGED Session!vars
<1>1. cli \in {"readMsg", "readBuf"} /\ ~ClientGone /\ UNCHANGED srv
  BY DEF ClientReadMsg, ClientReadBuf, ClientGone, ClientEnds, serverVars
<1>2. CASE cli' = "dead"
  BY <1>1, <1>2, SessionCrash
<1>3. CASE cli' = "readBuf"
  BY <1>1, <1>3 DEF Session!vars, Session!progVars, Session!compVars
<1>4. CASE cli' = "done"
  <2>1. CASE ~ServerGone
    BY <1>1, <1>4, <2>1 DEF ServerGone, Session!Answer, Session!Run, Session!compVars
  <2>2. CASE ServerGone
    <3>1. srv = "dead"
      BY <1>1, <2>2 DEF ServerGone, LoopPart
    <3> QED  BY <1>1, <1>4, <3>1 DEF Session!CallBroken, Session!Accepting, Session!compVars
  <2> QED  BY <2>1, <2>2
<1> QED  BY <1>1, <1>2, <1>3, <1>4 DEF ClientReadMsg, ClientReadBuf, ClientEnds

\* The destructor, and any other end.
LEMMA SessionEnd ==
  ASSUME Coupling, destroy \/ ClientCrash
  PROVE  Session!destroy(1) \/ Session!ProgCrash(1)
<1>1. ~ClientGone /\ UNCHANGED srv /\ cli' \in {"exited", "dead"}
  BY DEF destroy, ClientCrash, ClientGone, ClientEnds, serverVars
<1>2. CASE cli' = "dead"
  BY <1>1, <1>2, SessionCrash
<1>3. CASE cli' = "exited"
  <2>1. cli = "idle" /\ ~ServerGone
    BY <1>3 DEF destroy, ClientCrash, ClientEnds, Coupling
  <2> QED  BY <1>1, <1>3, <2>1 DEF ServerGone, Session!destroy, Session!Accepting, Session!compVars
<1> QED  BY <1>1, <1>2, <1>3

\* The compartment's steps are nothing to the session until its last: it
\* stops once the program has gone, or dies.
LEMMA SessionServer ==
  ASSUME LoopPart', ServerStep \/ ServerCrash
  PROVE  Session!ServiceEnds(1) \/ Session!CompCrash(1) \/ UNCHANGED Session!vars
<1>1. UNCHANGED cli /\ ~ServerGone
  BY DEF ServerStep, ServerReadMsg, ServerReadBuf, ServerCrypt, ServerWriteMsg, ServerWriteBuf,
         ServerCrash, clientVars, ServerGone
<1>2. CASE srv' = "exited"
  <2>1. cli \in {"exited", "dead"}
    BY <1>1, <1>2 DEF LoopPart, ClientGone
  <2>2. Session!Goes(1, "serving", "stopping")
    BY <1>1, <1>2 DEF ServerGone, Session!Goes
  <2> QED  BY <1>1, <2>1, <2>2 DEF Session!ServiceEnds, Session!Run, Session!progVars
<1>3. CASE srv' = "dead"
  BY <1>1, <1>3 DEF ServerGone, Session!CompCrash, Session!CompGone, Session!progVars
<1>4. CASE srv' \notin {"exited", "dead"}
  BY <1>1, <1>4 DEF ServerGone, Session!vars, Session!progVars, Session!compVars
<1> QED  BY <1>2, <1>3, <1>4

LEMMA SessionStep ==
  ASSUME TypeOK, Coupling, LoopPart, LoopPart', [Next]_vars
  PROVE  [Session!Next]_Session!vars
<1>1. 1 \in Session!Run
  BY DEF Session!Run
<1>2. CASE Api \/ ClientReturn
  BY <1>2, SessionApi
<1>3. CASE ClientWriteMsg \/ ClientWriteBuf
  BY <1>1, <1>3, SessionWrite DEF Session!Next, Session!Program
<1>4. CASE ClientReadMsg \/ ClientReadBuf
  BY <1>1, <1>4, SessionRead DEF Session!Next, Session!Program, Session!ProgStep, Session!CompStep
<1>5. CASE destroy \/ ClientCrash
  BY <1>1, <1>5, SessionEnd DEF Session!Next, Session!Program
<1>6. CASE ServerStep \/ ServerCrash
  BY <1>1, <1>6, SessionServer DEF Session!Next, Session!CompStep
<1>7. CASE UNCHANGED vars
  BY <1>7 DEF vars, clientVars, serverVars, Session!vars, Session!progVars, Session!compVars
<1> QED  BY <1>2, <1>3, <1>4, <1>5, <1>6, <1>7 DEF Next, ClientStep, Finished

\* When a buffer is one segment, the session AesStartup gives a program and
\* its compartment is all they do: what AesStartup shows of one compartment's
\* end, and of what that does to the program, is so of the service loop.
THEOREM SessionIsStartups ==
  ASSUME MaxLen <= SegMax
  PROVE  Spec => ImplementsSession
<1>1. Init => LoopPart
  BY DEF Init, LoopPart
<1>2. TypeOK /\ Coupling /\ LoopPart /\ [Next]_vars => LoopPart'
  BY LoopStep
<1>3. TypeOK /\ Coupling /\ LoopPart /\ LoopPart' /\ [Next]_vars => [Session!Next]_Session!vars
  BY SessionStep
<1> QED  BY <1>1, <1>2, <1>3, CouplingInvariant, PTL DEF Spec, ImplementsSession

-----------------------------------------------------------------------------
(***************************************************************************)
(* What is encrypted.                                                      *)
(***************************************************************************)
LEMMA PayloadFromCoupling == TypeOK /\ Coupling => PayloadIntact
<1> SUFFICES ASSUME TypeOK, Coupling, srv = "crypt", cEnd = "open"
             PROVE  sbuf = call.buf
  BY DEF PayloadIntact
<1>1. ~ClientGone /\ ~ServerGone /\ BothUp /\ ClientPart
  BY DEF Coupling, ServerGone
<1>2. cli \in {"writeBuf", "readMsg"}
  BY <1>1 DEF BothUp, TypeOK, ClientGone
<1>3. Loaded /\ buf = call.buf
  BY <1>1, <1>2 DEF BothUp, ClientPart, Unread, Loading, Ahead, Answered, HalfReplied, Replied
<1> QED  BY <1>3 DEF Loaded

\* When a buffer is one segment, the compartment encrypts what the client
\* sent (aes-comp.c:96-110): it takes more than one segment to lose a piece.
THEOREM PayloadsArrive ==
  ASSUME MaxLen <= SegMax
  PROVE  Spec => []PayloadIntact
BY CouplingInvariant, PayloadFromCoupling, PTL

=============================================================================
