--------------------------- MODULE AesSharedProofs ---------------------------
(***************************************************************************)
(* Proofs about AesShared: one lock around every call is enough for any    *)
(* number of threads.                                                      *)
(***************************************************************************)
EXTENDS AesShared, SequenceTheorems, TLAPS

(***************************************************************************)
(* The inductive invariant.  At most one user is in a call; what is in the *)
(* socket, and the request in the compartment, are then that user's.       *)
(***************************************************************************)
TypeInv ==
  /\ at \in [User -> {"idle", "writeMsg", "writeBuf", "readMsg", "readBuf", "dead"}]
  /\ crypt \in [User -> BOOLEAN]
  /\ got \in [User -> SUBSET User]
  /\ srv \in {"readMsg", "readBuf", "writeMsg", "writeBuf", "dead"}

Mine(u, part) == Element(part, u, crypt[u])
Call(u) == IF crypt[u] THEN <<Mine(u, "msg"), Mine(u, "buf")>> ELSE <<Mine(u, "msg")>>

OneCall == \A u, w \in User : InCall(u) /\ InCall(w) => u = w

\* Nobody is in a call.
Quiet == srv = "readMsg" /\ c2s = <<>> /\ s2c = <<>>

\* The phases of u's call, as the compartment sees them.
Sent(u) == IF at[u] = "writeBuf" THEN <<Mine(u, "msg")>> ELSE Call(u)
Unread(u) == srv = "readMsg" /\ c2s = Sent(u) /\ s2c = <<>>
Loading(u) ==
  /\ srv = "readBuf" /\ job = Mine(u, "msg") /\ crypt[u] /\ s2c = <<>>
  /\ c2s = IF at[u] = "writeBuf" THEN <<>> ELSE <<Mine(u, "buf")>>
Serving(u) == srv = "writeMsg" /\ job = Mine(u, "msg") /\ c2s = <<>> /\ s2c = <<>>
HalfReplied(u) ==
  /\ srv = "writeBuf" /\ job = Mine(u, "msg") /\ crypt[u] /\ c2s = <<>>
  /\ s2c = IF at[u] = "readBuf" THEN <<>> ELSE <<Mine(u, "msg")>>
Replied(u) ==
  /\ srv = "readMsg" /\ c2s = <<>>
  /\ s2c = IF at[u] = "readBuf" THEN <<Mine(u, "buf")>> ELSE Call(u)

InPhase(u) ==
  /\ at[u] = "writeMsg" => Quiet
  /\ at[u] = "writeBuf" => crypt[u] /\ (Unread(u) \/ Loading(u))
  /\ at[u] = "readMsg" => Unread(u) \/ Loading(u) \/ Serving(u) \/ HalfReplied(u) \/ Replied(u)
  /\ at[u] = "readBuf" => crypt[u] /\ (HalfReplied(u) \/ Replied(u))

\* What is left of a reply when the compartment has died.
Left(u) ==
  /\ at[u] \in {"writeMsg", "writeBuf"} => s2c = <<>>
  /\ at[u] = "readMsg" => s2c = <<>> \/ s2c = <<Mine(u, "msg")>> \/ s2c = Call(u)
  /\ at[u] = "readBuf" => crypt[u] /\ (s2c = <<>> \/ s2c = <<Mine(u, "buf")>>)

LockInv ==
  /\ TypeInv /\ OneCall /\ OwnReply
  /\ (\A u \in User : ~InCall(u)) => s2c = <<>> /\ (Up => Quiet)
  /\ \A u \in User : InCall(u) => IF Up THEN InPhase(u) ELSE Left(u)

LEMMA AppendPair ==
  ASSUME NEW x, NEW y
  PROVE  Append(<<x>>, y) = <<x, y>>
<1> DEFINE s == Append(<<x>>, y)
           t == <<x, y>>
<1>1. <<x>> \in Seq({x, y}) /\ t \in Seq({x, y}) /\ Len(t) = 2
  OBVIOUS
<1>2. s \in Seq({x, y}) /\ Len(s) = 2 /\ s[1] = x /\ s[2] = y
  BY <1>1, AppendProperties
<1>3. t[1] = x /\ t[2] = y
  OBVIOUS
<1> HIDE DEF s, t
<1>4. \A i \in 1 .. Len(s) : s[i] = t[i]
  BY <1>2, <1>3
<1>5. s = t
  BY <1>1, <1>2, <1>4, SeqEqual
<1> QED  BY <1>5 DEF s, t

LEMMA Tuples ==
  ASSUME NEW x, NEW y
  PROVE  /\ Append(<<>>, x) = <<x>> /\ Append(<<x>>, y) = <<x, y>>
         /\ Head(<<x>>) = x /\ Head(<<x, y>>) = x
         /\ Tail(<<x>>) = <<>> /\ Tail(<<x, y>>) = <<y>>
         /\ <<x>> # <<>> /\ <<x, y>> # <<>>
<1>1. Append(<<>>, x) = <<x>>
  OBVIOUS
<1>2. Head(<<x>>) = x /\ Head(<<x, y>>) = x
  OBVIOUS
<1>3. Tail(<<x>>) = <<>>
  OBVIOUS
<1>4. Tail(<<x, y>>) = <<y>>
  OBVIOUS
<1> QED  BY <1>1, <1>2, <1>3, <1>4, AppendPair

\* What a user's step does to the invariant, the others being out of it.
LEMMA BeginKeeps ==
  ASSUME Locked, LockInv, NEW u \in User, Begin(u)
  PROVE  LockInv'
<1>1. \A w \in User : ~InCall(w)
  BY DEF Begin
<1>2. \A w \in User : InCall(w)' <=> w = u
  BY <1>1 DEF Begin, InCall, LockInv, TypeInv
<1>3. at' = [at EXCEPT ![u] = "writeMsg"] /\ at'[u] = "writeMsg"
  BY DEF Begin, LockInv, TypeInv
<1>4. TypeInv' /\ OneCall' /\ OwnReply'
  BY <1>2 DEF Begin, LockInv, TypeInv, OneCall, OwnReply, serverVars
<1>5. s2c' = <<>> /\ (Up => Quiet) /\ Up' = Up /\ Quiet' = Quiet
  BY <1>1 DEF Begin, LockInv, Up, Quiet, serverVars
<1>6. IF Up' THEN InPhase(u)' ELSE Left(u)'
  BY <1>3, <1>5 DEF InPhase, Left
<1> QED  BY <1>2, <1>4, <1>5, <1>6 DEF LockInv

LEMMA WriteKeeps ==
  ASSUME LockInv, NEW u \in User, Write(u)
  PROVE  LockInv'
<1>1. InCall(u) /\ at[u] \in {"writeMsg", "writeBuf"}
  BY DEF Write, InCall
<1>2. CASE ~Up
  <2>1. Dies /\ s2c = <<>>
    BY <1>1, <1>2 DEF Write, LockInv, Left
  <2>2. at' = [w \in User |-> "dead"]
    BY <2>1 DEF Dies
  <2> QED  BY <1>2, <2>1, <2>2 DEF Write, LockInv, TypeInv, OneCall, OwnReply, InCall, Up, serverVars
<1>3. CASE Up
  <2>1. InPhase(u) /\ UNCHANGED <<crypt, got, srv, job, s2c>> /\ Up'
    BY <1>1, <1>3 DEF Write, LockInv, serverVars, Up
  <2>2. at' = [at EXCEPT ![u] = at'[u]] /\ at'[u] \in {"writeBuf", "readMsg"}
    BY <1>3 DEF Write, LockInv, TypeInv
  <2>3. \A w \in User : InCall(w)' <=> InCall(w)
    BY <1>1, <2>2 DEF LockInv, TypeInv, InCall
  <2>4. TypeInv' /\ OneCall' /\ OwnReply'
    BY <2>1, <2>2, <2>3 DEF LockInv, TypeInv, OneCall, OwnReply
  <2>5. \A w \in User : InCall(w) => w = u
    BY <1>1 DEF LockInv, OneCall
  <2>6. InPhase(u)'
    <3>1. CASE at[u] = "writeMsg"
      <4>1. Quiet /\ c2s' = <<Mine(u, "msg")>> /\ at'[u] = IF crypt[u] THEN "writeBuf" ELSE "readMsg"
        BY <1>3, <2>1, <3>1, Tuples DEF Write, InPhase, Quiet, Mine, LockInv, TypeInv
      <4> QED  BY <2>1, <4>1 DEF InPhase, Quiet, Unread, Sent, Call, Mine
    <3>2. CASE at[u] = "writeBuf"
      <4>1. crypt[u] /\ at'[u] = "readMsg" /\ c2s' = Append(c2s, Mine(u, "buf"))
        BY <1>3, <2>1, <3>2 DEF Write, InPhase, Mine, LockInv, TypeInv
      <4>2. CASE Unread(u)
        <5>1. c2s' = Call(u)
          BY <3>2, <4>1, <4>2, Tuples DEF Unread, Sent, Call
        <5> QED  BY <2>1, <4>1, <4>2, <5>1 DEF InPhase, Unread, Sent, Call, Mine
      <4>3. CASE Loading(u)
        BY <2>1, <3>2, <4>1, <4>3, Tuples DEF InPhase, Loading, Mine
      <4> QED  BY <2>1, <3>2, <4>2, <4>3 DEF InPhase
    <3> QED  BY <1>1, <3>1, <3>2
  <2> QED  BY <1>1, <2>1, <2>3, <2>4, <2>5, <2>6 DEF LockInv
<1> QED  BY <1>2, <1>3

\* The reply is u's own as far as u gets to read it.
LEMMA ReplyIsOwn ==
  ASSUME LockInv, NEW u \in User, InCall(u), at[u] \in {"readMsg", "readBuf"}, s2c # <<>>
  PROVE  /\ Head(s2c).by = u
         /\ Tail(s2c) = IF at[u] = "readMsg" /\ s2c = <<Mine(u, "msg"), Mine(u, "buf")>>
                        THEN <<Mine(u, "buf")>> ELSE <<>>
         /\ at[u] = "readBuf" \/ ~crypt[u] => Tail(s2c) = <<>> /\ (Up => Replied(u))
         /\ at[u] = "readBuf" => crypt[u]
<1>1. IF Up THEN InPhase(u) ELSE Left(u)
  BY DEF LockInv
<1>2. Mine(u, "msg").by = u /\ Mine(u, "buf").by = u
  BY DEF Mine, Element
<1>3. CASE at[u] = "readMsg"
  <2>1. \/ s2c = <<Mine(u, "msg")>> /\ (Up /\ ~crypt[u] => Replied(u))
        \/ s2c = <<Mine(u, "msg"), Mine(u, "buf")>> /\ crypt[u]
    BY <1>1, <1>3 DEF InPhase, Left, Unread, Loading, Serving, HalfReplied, Replied, Call
  <2>2. <<Mine(u, "msg")>> # <<Mine(u, "msg"), Mine(u, "buf")>>
    OBVIOUS
  <2>3. CASE s2c = <<Mine(u, "msg")>> /\ (Up /\ ~crypt[u] => Replied(u))
    <3>1. Head(s2c) = Mine(u, "msg") /\ Tail(s2c) = <<>>
      BY <2>3
    <3> QED  BY <1>2, <1>3, <2>2, <2>3, <3>1
  <2>4. CASE s2c = <<Mine(u, "msg"), Mine(u, "buf")>> /\ crypt[u]
    <3>1. Head(s2c) = Mine(u, "msg") /\ Tail(s2c) = <<Mine(u, "buf")>>
      BY <2>4
    <3> QED  BY <1>2, <1>3, <2>4, <3>1
  <2> QED  BY <2>1, <2>3, <2>4
<1>4. CASE at[u] = "readBuf"
  <2>1. s2c = <<Mine(u, "buf")>> /\ crypt[u] /\ (Up => Replied(u))
    BY <1>1, <1>4 DEF InPhase, Left, HalfReplied, Replied
  <2> QED  BY <1>2, <1>4, <2>1, Tuples
<1> QED  BY <1>3, <1>4

LEMMA ReadKeeps ==
  ASSUME LockInv, NEW u \in User, Read(u)
  PROVE  LockInv'
<1>1. InCall(u) /\ at[u] \in {"readMsg", "readBuf"} /\ UNCHANGED <<crypt, srv, job, c2s>> /\ Up' = Up
  BY DEF Read, InCall, serverVars, Up
<1>2. \A w \in User : InCall(w) => w = u
  BY <1>1 DEF LockInv, OneCall
<1>3. CASE s2c = <<>>
  <2>1. ~Up /\ UNCHANGED <<s2c, got>>
    BY <1>3 DEF Read
  <2>2. at' = [at EXCEPT ![u] = "idle"] \/ at' = [w \in User |-> "dead"]
    BY <1>3 DEF Read, Dies
  <2>3. \A w \in User : ~InCall(w)'
    BY <1>2, <2>2 DEF InCall, LockInv, TypeInv
  <2> QED
    BY <1>1, <1>3, <2>1, <2>2, <2>3 DEF LockInv, TypeInv, OneCall, OwnReply
<1>4. CASE s2c # <<>>
  <2>1. s2c' = Tail(s2c) /\ got' = [got EXCEPT ![u] = @ \cup {u}]
    BY <1>1, <1>4, ReplyIsOwn DEF Read
  <2>2. at' = [at EXCEPT ![u] = IF crypt[u] /\ @ = "readMsg" THEN "readBuf" ELSE "idle"]
    BY <1>4 DEF Read
  <2>3. OwnReply' /\ TypeInv'
    BY <1>1, <2>1, <2>2 DEF LockInv, TypeInv, OwnReply
  <2>4. CASE crypt[u] /\ at[u] = "readMsg"
    <3>1. at'[u] = "readBuf" /\ \A w \in User : InCall(w)' <=> w = u
      BY <1>1, <1>2, <2>2, <2>4 DEF InCall, LockInv, TypeInv
    <3>2. IF Up THEN InPhase(u) ELSE Left(u)
      BY <1>1 DEF LockInv
    <3>3. s2c' = IF s2c = Call(u) THEN <<Mine(u, "buf")>> ELSE <<>>
      BY <1>1, <1>4, <2>1, <2>4, ReplyIsOwn DEF Call
    <3>4. CASE Up
      <4>1. HalfReplied(u) \/ Replied(u)
        BY <1>4, <2>4, <3>2, <3>4 DEF InPhase, Unread, Loading, Serving
      <4>2. <<Mine(u, "msg")>> # <<Mine(u, "msg"), Mine(u, "buf")>>
        OBVIOUS
      <4>3. HalfReplied(u)' \/ Replied(u)'
        <5>1. Mine(u, "msg")' = Mine(u, "msg") /\ Mine(u, "buf")' = Mine(u, "buf") /\ crypt'[u]
          BY <1>1, <2>4 DEF Mine
        <5>2. HalfReplied(u) => s2c' = <<>>
          BY <2>4, <3>3, <4>2 DEF HalfReplied, Call
        <5>3. Replied(u) => s2c' = <<Mine(u, "buf")>>
          BY <2>4, <3>3 DEF Replied
        <5> QED  BY <1>1, <3>1, <4>1, <5>1, <5>2, <5>3 DEF HalfReplied, Replied
      <4> QED  BY <1>1, <2>3, <2>4, <3>1, <3>4, <4>3 DEF LockInv, InPhase, OneCall
    <3>5. CASE ~Up
      BY <1>1, <2>3, <2>4, <3>1, <3>3, <3>5 DEF LockInv, Left, OneCall, Mine
    <3> QED  BY <3>4, <3>5
  <2>5. CASE ~(crypt[u] /\ at[u] = "readMsg")
    <3>1. \A w \in User : ~InCall(w)'
      BY <1>2, <2>2, <2>5 DEF InCall, LockInv, TypeInv
    <3>2. s2c' = <<>> /\ (Up => Replied(u))
      BY <1>1, <1>4, <2>1, <2>5, ReplyIsOwn
    <3> QED  BY <1>1, <2>3, <3>1, <3>2 DEF LockInv, OneCall, Quiet, Replied
  <2> QED  BY <2>4, <2>5
<1> QED  BY <1>3, <1>4

\* The compartment works for the one user that is in a call.
LEMMA ServerKeeps ==
  ASSUME LockInv, ServerStep
  PROVE  LockInv'
<1>1. Up /\ UNCHANGED userVars
  BY DEF ServerStep, ServerReadMsg, ServerReadBuf, ServerWrite, Up
<1>2. ~Quiet
  BY DEF ServerStep, ServerReadMsg, ServerReadBuf, ServerWrite, Quiet
<1>3. PICK u \in User : InCall(u) /\ InPhase(u)
  BY <1>1, <1>2 DEF LockInv
<1>4. \A w \in User : (InCall(w)' <=> InCall(w)) /\ (InCall(w) => w = u)
  BY <1>1, <1>3 DEF LockInv, OneCall, InCall, userVars
<1>5. InPhase(u)' /\ Up' /\ srv' \in {"readMsg", "readBuf", "writeMsg", "writeBuf"}
  <2>1. at[u] # "writeMsg"
    BY <1>2, <1>3 DEF InPhase
  <2>2. CASE ServerReadMsg
    <3>1. Unread(u)
      BY <1>3, <2>1, <2>2, Tuples DEF ServerReadMsg, InPhase, Loading, Serving, HalfReplied, Replied, InCall
    <3>2. /\ Head(c2s) = Mine(u, "msg") /\ Mine(u, "msg").part = "msg" /\ Mine(u, "msg").crypt = crypt[u]
          /\ Tail(c2s) = IF at[u] # "writeBuf" /\ crypt[u] THEN <<Mine(u, "buf")>> ELSE <<>>
      BY <3>1, Tuples DEF Unread, Sent, Call, Mine, Element
    <3>3. /\ job' = Mine(u, "msg") /\ srv' = IF crypt[u] THEN "readBuf" ELSE "writeMsg"
          /\ c2s' = Tail(c2s) /\ s2c' = s2c
      BY <2>2, <3>2 DEF ServerReadMsg, Mine, Element
    <3>4. IF crypt[u] THEN Loading(u)' ELSE Serving(u)'
      BY <1>1, <1>3, <3>1, <3>2, <3>3 DEF Loading, Serving, Unread, Mine, userVars, InPhase
    <3> QED  BY <1>1, <1>3, <2>1, <3>1, <3>3, <3>4 DEF InPhase, Up, userVars, InCall, Unread, HalfReplied, Replied
  <2>3. CASE ServerReadBuf
    <3>1. Loading(u) /\ at[u] = "readMsg" /\ c2s = <<Mine(u, "buf")>>
      BY <1>3, <2>1, <2>3 DEF ServerReadBuf, InPhase, InCall, Unread, Loading, Serving, HalfReplied, Replied
    <3>2. Serving(u)'
      BY <1>1, <2>3, <3>1, Tuples DEF ServerReadBuf, Loading, Serving, Mine, userVars
    <3> QED  BY <1>1, <2>3, <3>1, <3>2 DEF InPhase, Up, userVars, ServerReadBuf
  <2>4. CASE ServerWrite
    <3>1. CASE srv = "writeMsg"
      <4>1. Serving(u) /\ at[u] = "readMsg"
        BY <1>3, <2>1, <3>1 DEF InPhase, InCall, Unread, Loading, Serving, HalfReplied, Replied
      <4>2. s2c' = <<Mine(u, "msg")>> /\ UNCHANGED <<job, c2s>> /\ srv' = IF crypt[u] THEN "writeBuf" ELSE "readMsg"
        BY <2>4, <3>1, <4>1, Tuples DEF ServerWrite, Serving, Mine, Element
      <4>3. HalfReplied(u)' \/ Replied(u)'
        BY <1>1, <4>1, <4>2 DEF Serving, HalfReplied, Replied, Call, Mine, userVars
      <4> QED  BY <1>1, <4>1, <4>2, <4>3 DEF InPhase, Up, userVars
    <3>2. CASE srv = "writeBuf"
      <4>1. HalfReplied(u) /\ crypt[u] /\ at[u] \in {"readMsg", "readBuf"}
        BY <1>3, <2>1, <3>2 DEF InPhase, InCall, Unread, Loading, Serving, HalfReplied, Replied
      <4>2. /\ UNCHANGED <<job, c2s>> /\ srv' = "readMsg"
            /\ s2c' = Append(s2c, Mine(u, "buf"))
        BY <2>4, <3>2, <4>1 DEF ServerWrite, HalfReplied, Mine, Element
      <4>3. Replied(u)'
        BY <1>1, <4>1, <4>2, Tuples DEF HalfReplied, Replied, Call, Mine, userVars
      <4> QED  BY <1>1, <4>1, <4>2, <4>3 DEF InPhase, Up, userVars
    <3> QED  BY <2>4, <3>1, <3>2 DEF ServerWrite
  <2> QED  BY <2>2, <2>3, <2>4 DEF ServerStep
<1>6. TypeInv' /\ OneCall' /\ OwnReply'
  BY <1>1, <1>5 DEF LockInv, TypeInv, OneCall, OwnReply, InCall, userVars
<1> QED  BY <1>3, <1>4, <1>5, <1>6 DEF LockInv

LEMMA CrashKeeps ==
  ASSUME LockInv, ServerCrash
  PROVE  LockInv'
<1>1. Up /\ ~Up' /\ UNCHANGED <<at, crypt, got, s2c>> /\ srv' = "dead"
  BY DEF ServerCrash, Up, userVars
<1>2. ASSUME NEW u \in User, InCall(u) PROVE Left(u)'
  <2>1. InPhase(u)
    BY <1>1, <1>2 DEF LockInv
  <2>2. Left(u)
    BY <2>1 DEF InPhase, Left, Quiet, Unread, Loading, Serving, HalfReplied, Replied
  <2> QED  BY <1>1, <2>2 DEF Left, Mine, Call
<1>3. TypeInv' /\ OneCall' /\ OwnReply'
  BY <1>1 DEF LockInv, TypeInv, OneCall, OwnReply, InCall
<1> QED  BY <1>1, <1>2, <1>3 DEF LockInv, InCall

-----------------------------------------------------------------------------
LEMMA SharedInvariant ==
  ASSUME Locked
  PROVE  Spec => []LockInv
<1>1. Init => LockInv
  BY DEF Init, LockInv, TypeInv, OneCall, OwnReply, InCall, Quiet
<1>2. ASSUME LockInv, [Next]_vars PROVE LockInv'
  <2>1. CASE UNCHANGED vars
    BY <1>2, <2>1 DEF vars, userVars, serverVars, LockInv, TypeInv, OneCall, OwnReply, InCall, Up, Quiet, InPhase,
       Left, Unread, Loading, Serving, HalfReplied, Replied, Sent, Call, Mine
  <2>2. CASE Next
    BY <1>2, <2>2, BeginKeeps, WriteKeeps, ReadKeeps, ServerKeeps, CrashKeeps DEF Next, Step
  <2> QED  BY <1>2, <2>1, <2>2
<1> QED  BY <1>1, <1>2, PTL DEF Spec

\* A lock around each call is all that threads need: every reply is then
\* read by the thread that asked, also when the compartment dies.
THEOREM LockSuffices ==
  ASSUME Locked
  PROVE  Spec => []OwnReply
<1>1. LockInv => OwnReply
  BY DEF LockInv
<1> QED  BY <1>1, SharedInvariant, PTL

-----------------------------------------------------------------------------
(***************************************************************************)
(* Every call ends, but for the fairness of the threads: somebody can go   *)
(* on, and each step counts.                                               *)
(***************************************************************************)
\* Its next system call does not block.
UserCanGo(u) ==
  \/ at[u] \in {"writeMsg", "writeBuf"}
  \/ at[u] \in {"readMsg", "readBuf"} /\ (s2c # <<>> \/ ~Up)
ServerCanGo ==
  \/ srv \in {"readMsg", "readBuf"} /\ c2s # <<>>
  \/ srv \in {"writeMsg", "writeBuf"}

\* No thread waits for an answer that the compartment is not about to give
\* (aes-comp-client.c:169-207).
SharedCallNotStuck == \A u \in User : InCall(u) => UserCanGo(u) \/ ServerCanGo

\* While a thread waits, its request or the reply is on its way, or the
\* compartment has gone and the read returns.
THEOREM SharedCallsNeverStick ==
  ASSUME Locked
  PROVE  Spec => []SharedCallNotStuck
<1>1. ASSUME LockInv, NEW u \in User, InCall(u) PROVE UserCanGo(u) \/ ServerCanGo
  <2>1. CASE at[u] \in {"writeMsg", "writeBuf"} \/ ~Up
    BY <1>1, <2>1 DEF UserCanGo, InCall
  <2>2. CASE at[u] \in {"readMsg", "readBuf"} /\ Up
    <3>1. /\ Unread(u) \/ Loading(u) \/ Serving(u) \/ HalfReplied(u) \/ Replied(u)
          /\ at[u] = "readBuf" => HalfReplied(u) \/ Replied(u)
      BY <1>1, <2>2 DEF LockInv, InPhase
    <3>2. CASE Unread(u) /\ at[u] = "readMsg"
      BY <3>2, Tuples DEF Unread, Sent, Call, ServerCanGo
    <3>3. CASE Loading(u) /\ at[u] = "readMsg"
      BY <3>3, Tuples DEF Loading, ServerCanGo
    <3>4. CASE Serving(u) \/ HalfReplied(u)
      BY <3>4 DEF Serving, HalfReplied, ServerCanGo
    <3>5. CASE Replied(u)
      BY <2>2, <3>5, Tuples DEF Replied, Call, UserCanGo
    <3> QED  BY <2>2, <3>1, <3>2, <3>3, <3>4, <3>5
  <2> QED  BY <1>1, <2>1, <2>2 DEF InCall
<1>2. LockInv => SharedCallNotStuck
  BY <1>1 DEF SharedCallNotStuck
<1> QED  BY <1>2, SharedInvariant, PTL
\* Nor is a call kept from its end by other threads or by the compartment:
\* each step of any of them leaves fewer to be made (aes-comp.c:50-156).
UserStepsLeft(u) ==
  CASE at[u] = "writeMsg" -> 4 [] at[u] = "writeBuf" -> 3
    [] at[u] = "readMsg" -> 2 [] at[u] = "readBuf" -> 1 [] OTHER -> 0
ServerStepsLeft ==
  CASE srv = "readMsg" -> (IF c2s = <<>> THEN 0 ELSE 4) [] srv = "readBuf" -> 3
    [] srv = "writeMsg" -> 2 [] srv = "writeBuf" -> 1 [] OTHER -> 0
StepsLeft(u) == 5 * UserStepsLeft(u) + ServerStepsLeft
SharedCallShortens ==
  [][\A u \in User : InCall(u) /\ (ServerStep \/ \E w \in User : Step(w)) =>
       StepsLeft(u)' < StepsLeft(u)]_vars


LEMMA StepsLeftRange ==
  /\ \A u \in User : UserStepsLeft(u) \in 0..4 /\ UserStepsLeft(u)' \in 0..4
  /\ ServerStepsLeft \in 0..4 /\ ServerStepsLeft' \in 0..4
BY DEF UserStepsLeft, ServerStepsLeft

\* A thread's step is one of its own call's, and of no other's.
LEMMA UserShortens ==
  ASSUME LockInv, NEW u \in User, InCall(u), NEW w \in User, Step(w)
  PROVE  StepsLeft(u)' < StepsLeft(u)
<1>1. w = u
  BY DEF LockInv, OneCall, InCall, Step, Write, Read
<1>2. UserStepsLeft(u)' < UserStepsLeft(u)
  <2>1. CASE Write(u)
    <3>1. at'[u] \in {"readMsg", "dead"} \/ (at[u] = "writeMsg" /\ at'[u] = "writeBuf")
      <4>1. CASE Up
        BY <2>1, <4>1 DEF Write, LockInv, TypeInv
      <4>2. CASE ~Up
        BY <2>1, <4>2 DEF Write, Dies
      <4> QED  BY <4>1, <4>2
    <3>2. at[u] \in {"writeMsg", "writeBuf"}
      BY <2>1 DEF Write
    <3> QED  BY <3>1, <3>2 DEF UserStepsLeft
  <2>2. CASE Read(u)
    BY <2>2 DEF Read, Dies, LockInv, TypeInv, UserStepsLeft
  <2> QED  BY <1>1, <2>1, <2>2 DEF Step
<1> QED  BY <1>2, StepsLeftRange DEF StepsLeft

\* What the compartment does is for the call, and takes it forward.
LEMMA ServerShortens ==
  ASSUME LockInv, NEW u \in User, InCall(u), ServerStep
  PROVE  StepsLeft(u)' < StepsLeft(u)
<1>1. Up /\ UNCHANGED userVars
  BY DEF ServerStep, ServerReadMsg, ServerReadBuf, ServerWrite, Up
<1>2. InPhase(u)
  BY <1>1 DEF LockInv
<1>3. UserStepsLeft(u)' = UserStepsLeft(u)
  BY <1>1 DEF UserStepsLeft, userVars
<1>4. ServerStepsLeft' < ServerStepsLeft
  <2>1. CASE ServerReadMsg
    <3>1. srv' \in {"stopped", "readBuf", "writeMsg"} /\ srv = "readMsg" /\ c2s # <<>>
      BY <2>1 DEF ServerReadMsg
    <3> QED  BY <3>1 DEF ServerStepsLeft
  <2>2. CASE ServerReadBuf
    BY <2>2 DEF ServerReadBuf, ServerStepsLeft
  <2>3. CASE ServerWrite
    <3>1. /\ c2s' = c2s
          /\ \/ srv' = "writeBuf" /\ srv = "writeMsg"
             \/ srv' = "readMsg" /\ srv \in {"writeMsg", "writeBuf"}
      BY <2>3 DEF ServerWrite
    <3>2. c2s = <<>>
      <4>1. at[u] \in {"readMsg", "readBuf"}
        BY <1>2, <3>1 DEF InPhase, Quiet, Unread, Loading, InCall
      <4> QED  BY <1>2, <3>1, <4>1
               DEF InPhase, Unread, Loading, Serving, HalfReplied, Replied
    <3> QED  BY <3>1, <3>2 DEF ServerStepsLeft
  <2> QED  BY <2>1, <2>2, <2>3 DEF ServerStep
<1> QED  BY <1>3, <1>4, StepsLeftRange DEF StepsLeft

\* Each step of any thread or of the compartment brings the call that is on
\* nearer to its end.
THEOREM SharedCallsShorten ==
  ASSUME Locked
  PROVE  Spec => SharedCallShortens
<1>1. LockInv /\ [Next]_vars =>
        [\A u \in User : InCall(u) /\ (ServerStep \/ \E w \in User : Step(w)) =>
           StepsLeft(u)' < StepsLeft(u)]_vars
  BY UserShortens, ServerShortens
<1> QED  BY <1>1, SharedInvariant, PTL DEF SharedCallShortens, Spec
=============================================================================
