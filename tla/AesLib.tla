------------------------------- MODULE AesLib -------------------------------
(***************************************************************************)
(* The library as a caller sees it: struct AES_ctx, and what each public   *)
(* function of aes.c does to a context and a buffer.  The key schedule and *)
(* the modes of operation are parameters here; other modules are about     *)
(* them.                                                                   *)
(***************************************************************************)
EXTENDS Integers, Sequences

CONSTANTS
  Key, RoundKey, Iv, Byte,   \* the values of key, ctx->RoundKey, iv, and of a buffer element
  KeyExpansion(_),           \* key schedule of a key
  CryptBuf(_, _, _),         \* buffer after library mode m on context c and buffer d
  CryptIv(_, _, _),          \* ctx->Iv after the same call
  MaxLen                     \* bound: the longest buffer

EcbMode == {"ECB_ENCRYPT", "ECB_DECRYPT"}
CbcMode == {"CBC_ENCRYPT", "CBC_DECRYPT"}
Mode == EcbMode \cup CbcMode \cup {"CTR_XCRYPT"}
Ctx == [RoundKey : RoundKey, Iv : Iv]
Buffer == UNION {[1..n -> Byte] : n \in 0..MaxLen}

ASSUME DataAssumption ==
  /\ MaxLen \in Nat
  /\ Key # {} /\ RoundKey # {} /\ Iv # {}
ASSUME LibraryAssumption ==
  /\ \A k \in Key : KeyExpansion(k) \in RoundKey
  /\ \A m \in Mode, c \in Ctx, d \in Buffer :
       /\ CryptBuf(m, c, d) \in [1..Len(d) -> Byte]
       /\ CryptIv(m, c, d) \in Iv

InitCtx(c, key) == [c EXCEPT !.RoundKey = KeyExpansion(key)]
InitCtxIv(c, key, iv) == [c EXCEPT !.RoundKey = KeyExpansion(key), !.Iv = iv]
SetIv(c, iv) == [c EXCEPT !.Iv = iv]
CryptCtx(mode, c, d) == [c EXCEPT !.Iv = CryptIv(mode, c, d)]

(***************************************************************************)
(* A call: its arguments, and the context and buffer it is made on.        *)
(***************************************************************************)
AnyKey == CHOOSE k \in Key : TRUE
AnyIv == CHOOSE i \in Iv : TRUE
AnyCtx == CHOOSE c \in Ctx : TRUE

CallType == {"INIT", "INIT_IV", "SET_IV", "CRYPT"}
Call == [type : CallType, key : Key, iv : Iv, mode : Mode, ctx : Ctx, buf : Buffer]
NoCall == [type |-> "NONE", key |-> AnyKey, iv |-> AnyIv, mode |-> "ECB_ENCRYPT",
           ctx |-> AnyCtx, buf |-> <<>>]

\* What a call returns when aes.c is linked into the program.
NativeCtx(c) ==
  CASE c.type = "INIT"    -> InitCtx(c.ctx, c.key)
    [] c.type = "INIT_IV" -> InitCtxIv(c.ctx, c.key, c.iv)
    [] c.type = "SET_IV"  -> SetIv(c.ctx, c.iv)
    [] c.type = "CRYPT"   -> CryptCtx(c.mode, c.ctx, c.buf)
    [] OTHER              -> c.ctx
NativeBuf(c) == IF c.type = "CRYPT" THEN CryptBuf(c.mode, c.ctx, c.buf) ELSE c.buf
=============================================================================
