------------------------------- MODULE AesComp -------------------------------
(***************************************************************************)
(* The compartmentalised library: a client stub (aes-comp-client.c) and    *)
(* the compartment (aes-comp.c), two processes joined by a connected       *)
(* AF_UNIX stream socket.  Connection set-up and the socket path are the   *)
(* subject of another module; here both ends are connected.                *)
(*                                                                         *)
(* One element of a stream is either a whole aes_comp_msg or one piece of  *)
(* a raw buffer.  The kernel's part is external: a write is queued segment *)
(* by segment (at most SegMax elements each, a struct in one segment) and  *)
(* blocks while Capacity is reached; a read of n blocks on an empty queue  *)
(* and then takes the n oldest elements, or all of them if there are fewer.*)
(***************************************************************************)
EXTENDS AesLib

CONSTANTS
  Payload,                   \* the buffers the program passes to the API
  BLOCKLEN,                  \* AES_BLOCKLEN
  Junk,                      \* what a byte of uninitialised memory reads as
  SegMax,                    \* elements the kernel queues at once
  Capacity,                  \* elements a direction of the socket holds
  WriteMax,                  \* the most one write() sends
  IntMax                     \* INT_MAX

MsgType == CallType \cup {"EXIT", "OTHER"}
Msg == [type : MsgType, ctx : Ctx, key : Key, iv : Iv, mode : Mode, buflen : 0..MaxLen]

ASSUME SizeAssumption ==
  /\ BLOCKLEN \in Nat \ {0}
  /\ SegMax \in Nat \ {0}
  /\ Capacity \in Nat
  /\ SegMax < Capacity
  /\ WriteMax \in Nat
  /\ IntMax \in Nat
  /\ SegMax <= WriteMax
  /\ WriteMax <= IntMax
ASSUME PayloadAssumption ==
  /\ Junk \in Byte
  /\ Payload \subseteq Buffer

VARIABLES
  \* the program and its stub
  cli,     \* where the client is
  ctx,     \* the program's struct AES_ctx
  buf,     \* the program's buffer
  call,    \* history: the arguments of the call in progress
  cmsg,    \* msg on the stack of the stub
  csent,   \* how much of the buffer write() has queued
  cEnd,    \* the client's end as the compartment sees it
  \* the compartment
  srv,     \* where the compartment is
  smsg,    \* msg
  sbuf,    \* the malloc'ed buffer
  left,    \* left_to_read, then to_send
  ssent,   \* how much of the buffer write() has queued
  sEnd,    \* the compartment's end as the client sees it
  \* the socket
  c2s, s2c

clientVars == <<cli, ctx, buf, call, cmsg, csent>>
serverVars == <<srv, smsg, sbuf, left, ssent>>
socketVars == <<cEnd, sEnd, c2s, s2c>>
vars == <<clientVars, serverVars, socketVars>>

(***************************************************************************)
(* The socket.                                                             *)
(***************************************************************************)
Hdr(m) == [kind |-> "msg", msg |-> m]
Raw(d) == [i \in 1..Len(d) |-> [kind |-> "byte", byte |-> d[i]]]
Element == [kind : {"msg"}, msg : Msg] \cup [kind : {"byte"}, byte : Byte]

Smaller(a, b) == IF a <= b THEN a ELSE b
HasRoom(q, n) == Len(q) + n <= Capacity

\* write(fd, d, length): what it has sent when it returns.
WriteLen(d) == Smaller(Len(d), WriteMax)

\* Mutant: what is to be written must fit into the queue whole.
NextSegmentWhole(d, sent) == SubSeq(d, sent + 1, WriteLen(d))

NextSegment(d, sent) == SubSeq(d, sent + 1, sent + Smaller(SegMax, WriteLen(d) - sent))

\* The bytes a read of n finds, and what is left in the queue.
Taken(q, n) == [i \in 1..Smaller(n, Len(q)) |-> IF q[i].kind = "byte" THEN q[i].byte ELSE Junk]
Rest(q, n) == SubSeq(q, 1 + Smaller(n, Len(q)), Len(q))

\* Mutant: the buffer is cleared before every read.
OverlayCleared(b, d) == [i \in 1..Len(b) |-> IF i <= Len(d) THEN d[i] ELSE Junk]

\* read(fd, b, n) always fills b from its first byte.
Overlay(b, d) == [i \in 1..Len(b) |-> IF i <= Len(d) THEN d[i] ELSE b[i]]

\* Closing with unread data resets the connection: the peer's read fails.
CloseWith(unread) == IF unread = <<>> THEN "eof" ELSE "reset"

(***************************************************************************)
(* The client.  A struct built on the stack is uninitialised where the     *)
(* stub does not write it; Uninit stands for fields nobody reads.          *)
(***************************************************************************)
Uninit == [type |-> "OTHER", ctx |-> AnyCtx, key |-> AnyKey, iv |-> AnyIv,
           mode |-> "ECB_ENCRYPT", buflen |-> 0]

StartCall(m, d) ==
  /\ cli = "idle"
  /\ cli' = "writeMsg"
  /\ cmsg' = m
  /\ call' = [type |-> m.type, key |-> m.key, iv |-> m.iv, mode |-> m.mode, ctx |-> ctx, buf |-> d]
  /\ buf' = d
  /\ UNCHANGED <<ctx, csent, serverVars, socketVars>>

AES_init_ctx ==
  \E k \in Key, c \in Ctx :       \* c: the stack garbage in msg.msg.init.ctx
    StartCall([Uninit EXCEPT !.type = "INIT", !.key = k, !.ctx = c], buf)

AES_init_ctx_iv ==
  \E k \in Key, i \in Iv, c \in Ctx :
    StartCall([Uninit EXCEPT !.type = "INIT_IV", !.key = k, !.iv = i, !.ctx = c], buf)

AES_ctx_set_iv ==
  \E i \in Iv : StartCall([Uninit EXCEPT !.type = "SET_IV", !.ctx = ctx, !.iv = i], buf)

\* Mutants: the length sent is one too short, or one too long.
do_generic_crypt_short(mode, d) ==
  LET n == IF d = <<>> THEN 0 ELSE Len(d) - 1 IN
    StartCall([Uninit EXCEPT !.type = "CRYPT", !.ctx = ctx, !.mode = mode, !.buflen = n], d)
do_generic_crypt_long(mode, d) ==
  StartCall([Uninit EXCEPT !.type = "CRYPT", !.ctx = ctx, !.mode = mode, !.buflen = Len(d) + 1], d)

do_generic_crypt(mode, d) ==
  StartCall([Uninit EXCEPT !.type = "CRYPT", !.ctx = ctx, !.mode = mode, !.buflen = Len(d)], d)

AES_ECB == \E m \in EcbMode, d \in Payload : Len(d) = BLOCKLEN /\ do_generic_crypt(m, d)
AES_CBC == \E m \in CbcMode, d \in Payload : Len(d) % BLOCKLEN = 0 /\ do_generic_crypt(m, d)
AES_CTR == \E d \in Payload : do_generic_crypt("CTR_XCRYPT", d)

\* The client process ends: by errx, by SIGPIPE, by a crash, or normally.
ClientEnds(how) ==
  /\ cli' = how
  /\ cEnd' = CloseWith(s2c)
  /\ s2c' = <<>>
  /\ UNCHANGED <<ctx, buf, call, cmsg, csent, sEnd, serverVars>>

ClientWriteMsg ==
  /\ cli = "writeMsg"
  /\ \/ /\ sEnd = "open" /\ HasRoom(c2s, 1)
        /\ c2s' = Append(c2s, Hdr(cmsg))
        /\ cli' = IF cmsg.type = "CRYPT" THEN "writeBuf" ELSE "readMsg"
        /\ csent' = 0
        /\ UNCHANGED <<ctx, buf, call, cmsg, cEnd, sEnd, s2c, serverVars>>
     \/ /\ sEnd # "open" /\ ClientEnds("dead") /\ UNCHANGED c2s

\* A write cut short by the peer's death returns what it sent, not -1; a
\* reset may be used up by it, and the next read finds the end of file.
ClientWriteBuf ==
  /\ cli = "writeBuf"
  /\ \/ /\ sEnd = "open"
        /\ LET seg == NextSegment(buf, csent) IN
             /\ HasRoom(c2s, Len(seg))
             /\ c2s' = c2s \o Raw(seg)
             /\ csent' = csent + Len(seg)
             /\ cli' = IF csent' = WriteLen(buf) THEN "readMsg" ELSE "writeBuf"
        /\ UNCHANGED <<ctx, buf, call, cmsg, cEnd, sEnd, s2c, serverVars>>
     \/ /\ sEnd # "open" /\ csent > 0
        /\ cli' = "readMsg"
        /\ sEnd' \in {sEnd, "eof"}
        /\ UNCHANGED <<ctx, buf, call, cmsg, csent, serverVars, cEnd, c2s, s2c>>
     \/ /\ sEnd # "open" /\ csent = 0 /\ ClientEnds("dead") /\ UNCHANGED c2s

\* The reply struct: a stray piece of a buffer fills it with garbage, and
\* an end of file (read returns 0, not -1) leaves the request in it.
ClientReadMsg ==
  /\ cli = "readMsg"
  /\ \/ /\ \/ /\ s2c # <<>>
              /\ s2c' = Tail(s2c)
              /\ \E c \in Ctx :
                   cmsg' = IF Head(s2c).kind = "msg" THEN Head(s2c).msg ELSE [cmsg EXCEPT !.ctx = c]
           \/ /\ s2c = <<>> /\ sEnd = "eof"
              /\ UNCHANGED <<s2c, cmsg>>
        /\ ctx' = cmsg'.ctx
        /\ cli' = IF call.type = "CRYPT" THEN "readBuf" ELSE "done"
        /\ UNCHANGED <<buf, call, csent, cEnd, sEnd, c2s, serverVars>>
     \/ /\ s2c = <<>> /\ sEnd = "reset" /\ ClientEnds("dead") /\ UNCHANGED c2s

\* Mutant: a read that does not wait for the buffer.
ClientReadBufNoWait ==
  /\ cli = "readBuf"
  /\ buf' = Overlay(buf, Taken(s2c, Len(buf)))
  /\ s2c' = Rest(s2c, Len(buf))
  /\ cli' = "done"
  /\ UNCHANGED <<ctx, call, cmsg, csent, cEnd, sEnd, c2s, serverVars>>

\* One read() for the whole buffer, whatever it returns.
ClientReadBuf ==
  /\ cli = "readBuf"
  /\ \/ /\ s2c # <<>> \/ sEnd = "eof" \/ buf = <<>>
        /\ buf' = Overlay(buf, Taken(s2c, Len(buf)))
        /\ s2c' = Rest(s2c, Len(buf))
        /\ cli' = "done"
        /\ UNCHANGED <<ctx, call, cmsg, csent, cEnd, sEnd, c2s, serverVars>>
     \/ /\ s2c = <<>> /\ sEnd = "reset" /\ buf # <<>>
        /\ ClientEnds("dead") /\ UNCHANGED c2s

\* The API function returns and its stack frame is gone.
ClientReturn ==
  /\ cli = "done"
  /\ cli' = "idle"
  /\ buf' = <<>>
  /\ call' = NoCall
  /\ cmsg' = Uninit
  /\ csent' = 0
  /\ UNCHANGED <<ctx, serverVars, socketVars>>

\* Mutant: the destructor only closes the socket.
destroyNoExit == cli = "idle" /\ ClientEnds("exited") /\ UNCHANGED c2s

\* The destructor sends EXIT and closes the socket.
destroy ==
  /\ cli = "idle"
  /\ \/ /\ sEnd = "open" /\ HasRoom(c2s, 1)
        /\ c2s' = Append(c2s, Hdr([Uninit EXCEPT !.type = "EXIT"]))
        /\ ClientEnds("exited")
     \/ /\ sEnd # "open" /\ ClientEnds("dead") /\ UNCHANGED c2s

ClientGone == cli \in {"exited", "dead"}
ClientCrash == ~ClientGone /\ ClientEnds("dead") /\ UNCHANGED c2s

(***************************************************************************)
(* The compartment.                                                        *)
(***************************************************************************)
ServerGone == srv \in {"exited", "dead"}

\* The compartment process ends, q being what it has not read.
ServerEnds(how, q) ==
  /\ srv' = how
  /\ sEnd' = CloseWith(q)
  /\ c2s' = <<>>

\* Mutant: the IV of AES_init_ctx_iv is forgotten.
ServedNoIv(m) ==
  CASE m.type \in {"INIT", "INIT_IV"} -> [m EXCEPT !.ctx = InitCtx(m.ctx, m.key)]
    [] m.type = "SET_IV" -> [m EXCEPT !.ctx = SetIv(m.ctx, m.iv)]
    [] OTHER             -> m

\* The context calls are served in place, in the message itself.
Served(m) ==
  CASE m.type = "INIT"    -> [m EXCEPT !.ctx = InitCtx(m.ctx, m.key)]
    [] m.type = "INIT_IV" -> [m EXCEPT !.ctx = InitCtxIv(m.ctx, m.key, m.iv)]
    [] m.type = "SET_IV"  -> [m EXCEPT !.ctx = SetIv(m.ctx, m.iv)]
    [] OTHER              -> m

\* A size_t stored in an int.  A negative count is only ever too small: all
\* values below zero are one here.
ToInt(n) ==
  LET k == n % (2 * IntMax + 2) IN IF k <= IntMax THEN k ELSE -1

\* switch (msg.type) up to the next system call that can block, q being
\* what is queued behind m.  An unknown type falls through to the next read.
Dispatch(m, q) ==
  \/ /\ m.type \in {"INIT", "INIT_IV", "SET_IV"}
     /\ smsg' = Served(m)
     /\ srv' = "writeMsg"
     /\ c2s' = q
     /\ UNCHANGED <<sbuf, left, sEnd>>
  \/ /\ m.type = "CRYPT"
     /\ smsg' = m
     /\ \/ /\ sbuf' = [i \in 1..m.buflen |-> Junk]
           /\ left' = ToInt(m.buflen)
           /\ srv' = IF left' = 0 THEN "crypt" ELSE "readBuf"
           /\ c2s' = q
           /\ UNCHANGED sEnd
        \/ ServerEnds("dead", q) /\ UNCHANGED <<sbuf, left>>   \* malloc fails
  \/ /\ m.type = "EXIT"
     /\ smsg' = m
     /\ ServerEnds("exited", q)
     /\ UNCHANGED <<sbuf, left>>
  \/ /\ m.type = "OTHER"
     /\ smsg' = m
     /\ c2s' = q
     /\ UNCHANGED <<srv, sbuf, left, sEnd>>

\* A read() of 0 at end of file is taken for a message: the old one is still
\* in msg and is served again.
ServerReadMsg ==
  /\ srv = "readMsg"
  /\ \/ /\ c2s # <<>>
        /\ \E m \in IF Head(c2s).kind = "msg" THEN {Head(c2s).msg} ELSE Msg :
             Dispatch(m, Tail(c2s))
     \/ /\ c2s = <<>> /\ cEnd = "eof"
        /\ Dispatch(smsg, c2s)
     \/ /\ c2s = <<>> /\ cEnd = "reset"
        /\ ServerEnds("dead", c2s)
        /\ UNCHANGED <<smsg, sbuf, left>>
  /\ UNCHANGED <<ssent, cEnd, s2c, clientVars>>

\* left_to_read after a read of n, or to_send after a write.  Below zero the
\* loop can only end by wrapping, 2^32 bytes later.
LeftAfter(l, n) == IF l < n THEN -1 ELSE l - n

\* Mutant: the buffer is awaited before it is read.
ServerReadBufWhole ==
  /\ srv = "readBuf"
  /\ Len(c2s) >= left
  /\ sbuf' = Overlay(sbuf, Taken(c2s, smsg.buflen))
  /\ c2s' = Rest(c2s, smsg.buflen)
  /\ left' = 0
  /\ srv' = "crypt"
  /\ UNCHANGED <<smsg, ssent, cEnd, sEnd, s2c, clientVars>>

\* One iteration of while(left_to_read): every read starts at the head of
\* the buffer and asks for all of it.  At end of file it reads 0, for ever.
ServerReadBuf ==
  /\ srv = "readBuf"
  /\ \/ /\ c2s # <<>> \/ cEnd = "eof"
        /\ sbuf' = Overlay(sbuf, Taken(c2s, smsg.buflen))
        /\ c2s' = Rest(c2s, smsg.buflen)
        /\ left' = LeftAfter(left, Smaller(smsg.buflen, Len(c2s)))
        /\ srv' = IF left' = 0 THEN "crypt" ELSE "readBuf"
        /\ UNCHANGED sEnd
     \/ /\ c2s = <<>> /\ cEnd = "reset"
        /\ ServerEnds("dead", c2s)
        /\ UNCHANGED <<sbuf, left>>
  /\ UNCHANGED <<smsg, ssent, cEnd, s2c, clientVars>>

ServerCrypt ==
  /\ srv = "crypt"
  /\ smsg' = [smsg EXCEPT !.ctx = CryptCtx(smsg.mode, @, sbuf)]
  /\ sbuf' = CryptBuf(smsg.mode, smsg.ctx, sbuf)
  /\ srv' = "writeMsg"
  /\ UNCHANGED <<left, ssent, socketVars, clientVars>>

\* Mutants: AES_ctx_set_iv is not answered; a failed write is ignored.
ServerWriteMsgNoSetIvReply ==
  /\ srv = "writeMsg" /\ cEnd = "open"
  /\ IF smsg.type = "SET_IV" THEN UNCHANGED s2c
       ELSE HasRoom(s2c, 1) /\ s2c' = Append(s2c, Hdr(smsg))
  /\ left' = IF smsg.type = "CRYPT" THEN ToInt(Len(sbuf)) ELSE left
  /\ srv' = IF smsg.type = "CRYPT" /\ left' # 0 THEN "writeBuf" ELSE "readMsg"
  /\ ssent' = 0
  /\ UNCHANGED <<smsg, sbuf, cEnd, sEnd, c2s, clientVars>>
ServerWriteMsgNoSigpipe ==
  /\ srv = "writeMsg"
  /\ s2c' = IF cEnd = "open" THEN Append(s2c, Hdr(smsg)) ELSE s2c
  /\ cEnd = "open" => HasRoom(s2c, 1)
  /\ left' = IF smsg.type = "CRYPT" THEN ToInt(Len(sbuf)) ELSE left
  /\ srv' = IF cEnd = "open" /\ smsg.type = "CRYPT" /\ left' # 0 THEN "writeBuf" ELSE "readMsg"
  /\ ssent' = 0
  /\ UNCHANGED <<smsg, sbuf, cEnd, sEnd, c2s, clientVars>>

ServerWriteMsg ==
  /\ srv = "writeMsg"
  /\ \/ /\ cEnd = "open" /\ HasRoom(s2c, 1)
        /\ s2c' = Append(s2c, Hdr(smsg))
        /\ left' = IF smsg.type = "CRYPT" THEN ToInt(Len(sbuf)) ELSE left
        /\ srv' = IF smsg.type = "CRYPT" /\ left' # 0 THEN "writeBuf" ELSE "readMsg"
        /\ UNCHANGED <<sEnd, c2s>>
     \/ /\ cEnd # "open"                                         \* SIGPIPE
        /\ ServerEnds("dead", c2s)
        /\ UNCHANGED <<left, s2c>>
  /\ ssent' = 0
  /\ UNCHANGED <<smsg, sbuf, cEnd, clientVars>>

\* while(to_send): every write() starts at the head of the buffer and blocks
\* until it has queued all it sends, which is all there is up to WriteMax.
ServerWriteBuf ==
  /\ srv = "writeBuf"
  /\ \/ /\ cEnd = "open"
        /\ LET seg  == NextSegment(sbuf, ssent)
               sent == ssent + Len(seg)
               more == sent < WriteLen(sbuf) IN
             /\ HasRoom(s2c, Len(seg))
             /\ s2c' = s2c \o Raw(seg)
             /\ ssent' = IF more THEN sent ELSE 0
             /\ left' = IF more THEN left ELSE LeftAfter(left, sent)
             /\ srv' = IF left' = 0 THEN "readMsg" ELSE "writeBuf"
             /\ sbuf' = IF left' = 0 THEN <<>> ELSE sbuf       \* free
        /\ UNCHANGED <<sEnd, c2s>>
     \/ /\ cEnd # "open"
        /\ ServerEnds("dead", c2s)
        /\ UNCHANGED <<sbuf, ssent, left, s2c>>
  /\ UNCHANGED <<smsg, cEnd, clientVars>>

ServerCrash ==
  /\ ~ServerGone
  /\ ServerEnds("dead", c2s)
  /\ UNCHANGED <<smsg, sbuf, left, ssent, cEnd, s2c, clientVars>>

(***************************************************************************)
(* The specification.                                                      *)
(***************************************************************************)
Init ==
  /\ cli = "idle" /\ srv = "readMsg"
  /\ ctx \in Ctx                      \* not initialised yet: anything
  /\ buf = <<>> /\ call = NoCall /\ cmsg = Uninit /\ csent = 0
  /\ \E t \in MsgType, n \in 0..MaxLen :      \* uninitialised as well
       smsg = [Uninit EXCEPT !.type = t, !.buflen = n]
  /\ sbuf = <<>> /\ left = 0 /\ ssent = 0
  /\ cEnd = "open" /\ sEnd = "open"
  /\ c2s = <<>> /\ s2c = <<>>

Api == AES_init_ctx \/ AES_init_ctx_iv \/ AES_ctx_set_iv \/ AES_ECB \/ AES_CBC \/ AES_CTR
ClientStep ==
  ClientWriteMsg \/ ClientWriteBuf \/ ClientReadMsg \/ ClientReadBuf \/ ClientReturn
ServerStep ==
  ServerReadMsg \/ ServerReadBuf \/ ServerCrypt \/ ServerWriteMsg \/ ServerWriteBuf

Finished == ClientGone /\ ServerGone /\ UNCHANGED vars

Next == Api \/ destroy \/ ClientStep \/ ServerStep \/ ClientCrash \/ ServerCrash \/ Finished

Spec == Init /\ [][Next]_vars

\* The operating system runs both processes.  The program need not make
\* another call, nor end; nobody need crash.
Fairness == WF_vars(ClientStep) /\ WF_vars(ServerStep)
FairSpec == Spec /\ Fairness
-----------------------------------------------------------------------------
(***************************************************************************)
(* Properties.                                                             *)
(***************************************************************************)
\* Every variable ranges over what the C types and the loops allow.
TypeOK ==
  /\ cli \in {"idle", "writeMsg", "writeBuf", "readMsg", "readBuf", "done", "exited", "dead"}
  /\ ctx \in Ctx
  /\ buf \in Buffer
  /\ call \in Call \cup {NoCall}
  /\ cmsg \in Msg
  /\ csent \in 0..MaxLen
  /\ cEnd \in {"open", "eof", "reset"}
  /\ srv \in {"readMsg", "readBuf", "crypt", "writeMsg", "writeBuf", "exited", "dead"}
  /\ smsg \in Msg
  /\ sbuf \in Buffer
  /\ left \in -1..MaxLen
  /\ ssent \in 0..MaxLen
  /\ sEnd \in {"open", "eof", "reset"}
  /\ c2s \in Seq(Element)
  /\ s2c \in Seq(Element)

\* The compartment never loses its place in the request stream: where it
\* reads a struct a struct is next, and its buffer loop never reads past the
\* buffer into the next request (aes-comp.c:50-110).
RequestFraming ==
  /\ srv = "readMsg" /\ c2s # <<>> => Head(c2s).kind = "msg"
  /\ srv = "readBuf" =>
       /\ left > 0 /\ Len(c2s) <= left
       /\ \A i \in 1..Len(c2s) : c2s[i].kind = "byte"

\* A call that returns has returned what the native library returns, save
\* for the IV after AES_init_ctx, unless the compartment has died
\* (aes-comp-client.c:117-207 against aes.c).
ReplyCorrect ==
  cli = "done" /\ sEnd = "open" =>
    /\ ctx.RoundKey = NativeCtx(call).RoundKey
    /\ call.type # "INIT" => ctx.Iv = NativeCtx(call).Iv
    /\ buf = NativeBuf(call)

\* Between two calls nothing is left in the socket for the next one to trip
\* over, and the compartment is back at its first read.
QuietBetweenCalls ==
  cli = "idle" /\ sEnd = "open" => c2s = <<>> /\ s2c = <<>> /\ srv = "readMsg"

\* What the compartment encrypts is the buffer the client sent
\* (aes-comp.c:96-110).
PayloadIntact ==
  srv = "crypt" /\ cEnd = "open" => sbuf = call.buf

\* AES_init_ctx leaves ctx->Iv alone, as aes.c:219-222 does.
InitKeepsIv ==
  cli = "done" /\ call.type = "INIT" => ctx.Iv = call.ctx.Iv

\* The program sees calls that take effect at once, natively, save for what
\* AesApi excepts: a call, with its up to four system calls in the stub and
\* four in the compartment, is one step of AesApi.
Service == INSTANCE AesApi WITH
  at  <- CASE cli = "idle" -> "idle" [] cli = "done" -> "returned"
           [] cli \in {"exited", "dead"} -> "gone" [] OTHER -> "called",
  ctx <- IF cli = "readBuf" THEN call.ctx ELSE ctx,
  up  <- sEnd = "open"
ImplementsApi == Service!Spec

\* What AesStartup has of a program and the compartment that accepted it, a
\* call and its answer, the end of either and what it makes the other do, is
\* all these two do (aes-comp-client.c:107-207, aes-comp.c:50-156): the loop
\* is only left for EXIT, and only when the program has gone.
Session == INSTANCE AesStartup WITH
  Runs <- 1, Tries <- 1, Backlog <- 0, FileBefore <- FALSE,
  prog  <- [r \in {1} |-> CASE cli \in {"idle", "writeMsg", "done"} -> "running"
                            [] cli \in {"exited", "dead"} -> cli [] OTHER -> "called"],
  comp  <- [r \in {1} |-> CASE srv = "exited" -> "stopping" [] srv = "dead" -> "dead"
                            [] OTHER -> "serving"],
  tries <- [r \in {1} |-> 0], conn <- [r \in {1} |-> 1], peer <- [r \in {1} |-> 1],
  queue <- [r \in {1} |-> <<>>], path <- 1
ImplementsSession == [][Session!Next]_Session!vars

\* Every call ends: it returns, or the client process is gone.
InCall == cli \in {"writeMsg", "writeBuf", "readMsg", "readBuf", "done"}
CallEnds == InCall ~> ~InCall

\* A process whose next system call does not block.
ClientCanGo ==
  \/ cli = "done"
  \/ InCall /\ sEnd # "open"
  \/ cli = "writeMsg" /\ HasRoom(c2s, 1)
  \/ cli = "writeBuf" /\ HasRoom(c2s, Len(NextSegment(buf, csent)))
  \/ cli \in {"readMsg", "readBuf"} /\ s2c # <<>>
  \/ cli = "readBuf" /\ buf = <<>>
ServerCanGo ==
  \/ srv = "crypt"
  \/ srv \in {"readMsg", "readBuf"} /\ c2s # <<>>
  \/ srv = "writeMsg" /\ HasRoom(s2c, 1)
  \/ srv = "writeBuf" /\ HasRoom(s2c, Len(NextSegment(sbuf, ssent)))

\* How many steps of either process a call has before it, at most.
ClientStepsLeft ==
  CASE cli = "writeMsg" -> MaxLen + 5 [] cli = "writeBuf" -> 4 + Len(buf) - csent
    [] cli = "readMsg" -> 3 [] cli = "readBuf" -> 2 [] cli = "done" -> 1 [] OTHER -> 0
ServerStepsLeft ==
  CASE srv = "readMsg" -> (IF c2s = <<>> THEN 0 ELSE 2 * MaxLen + 4)
    [] srv = "readBuf" -> MaxLen + 3 + left
    [] srv = "crypt" -> MaxLen + 3 [] srv = "writeMsg" -> MaxLen + 2
    [] srv = "writeBuf" -> 1 + Len(sbuf) - ssent [] OTHER -> 0
StepsLeft == (2 * MaxLen + 5) * ClientStepsLeft + ServerStepsLeft

\* How far a call has come that found the socket empty and whose buffer one
\* write() can send, told by lengths alone: the contents of a buffer in several
\* segments may be wrong by now.
Requesting ==
  /\ s2c = <<>>
  /\ \/ srv = "readMsg" /\ Len(c2s) = 1 + csent /\ Head(c2s) = Hdr(cmsg)
     \/ /\ srv = "readBuf" /\ smsg.type = "CRYPT" /\ smsg.buflen = Len(buf)
        /\ left \in 1..Len(buf) /\ left + csent = Len(buf) + Len(c2s)
        /\ Len(sbuf) = Len(buf)
     \/ /\ srv \in {"crypt", "writeMsg"} /\ smsg.type = call.type
        /\ call.type = "CRYPT" => Len(sbuf) = Len(buf)
        /\ csent = Len(buf) /\ c2s = <<>>
SendingBack == srv = "writeBuf" /\ ssent < Len(sbuf) /\ left = Len(sbuf)
Replying(unread) ==
  /\ csent = Len(buf) /\ c2s = <<>>
  /\ \/ SendingBack /\ Len(sbuf) = Len(buf) /\ Len(s2c) = unread + ssent
     \/ srv = "readMsg" /\ Len(s2c) = unread + Len(buf)
QuietCall ==
  \/ InCall /\ ServerGone
  \/ /\ Len(buf) <= WriteMax
     /\ \/ cli = "writeMsg" /\ srv = "readMsg" /\ c2s = <<>> /\ s2c = <<>>
        \/ cli = "writeBuf" /\ (csent < Len(buf) \/ buf = <<>>) /\ (Requesting \/ Replying(1))
        \/ cli = "readMsg" /\ csent = Len(buf) /\ (Requesting \/ Replying(1))
        \/ cli = "readBuf" /\ Replying(0)
        \/ /\ cli = "done" /\ c2s = <<>>
           /\ (SendingBack /\ Len(sbuf) <= WriteMax) \/ srv = "readMsg"

\* Such a call stays one until it has ended, and every step of either process
\* brings it nearer to that, also when both block in write() in turn.
QuietCallShortens ==
  [][QuietCall => /\ QuietCall' \/ ~InCall'
                  /\ ClientStep \/ ServerStep => StepsLeft' < StepsLeft]_vars

\* It never sticks, however much longer than the queues its buffer is: a
\* process that cannot write leaves the other something to read.
QuietCallNotStuck == QuietCall => ClientCanGo \/ ServerCanGo

\* A call made when the socket is empty ends, also one whose buffer neither
\* queue can hold, so that each side blocks in write() until the other reads;
\* but its buffer must be one that the stub's one write() can send.
QuietCallEnds ==
  (cli = "writeMsg" /\ Len(buf) <= WriteMax /\ srv = "readMsg" /\ c2s = <<>> /\ s2c = <<>>) ~> ~InCall

\* A client that ends normally takes the compartment with it.
ExitStopsServer == (cli = "exited") ~> ServerGone

\* A compartment whose client has gone stops, or spins in one of the two
\* places where it does not notice the end of file.
Spinning ==
  /\ c2s = <<>> /\ cEnd = "eof"
  /\ \/ srv = "readBuf" /\ left # 0
     \/ srv = "readMsg" /\ smsg.type = "OTHER"
OrphanStopsOrSpins == ClientGone ~> ServerGone \/ Spinning
=============================================================================
