------------------------------ MODULE AesShared ------------------------------
(***************************************************************************)
(* One connection, several threads.  The stub keeps its socket in a global *)
(* (aes-comp-client.c:24) and takes no lock; the library it replaces has   *)
(* no state but the caller's (aes.h:44-86).  What must a program with      *)
(* threads do to use the one like the other?                               *)
(*                                                                         *)
(* AesComp has one user and says what is in a message; here an element of  *)
(* a stream is the struct or the buffer of somebody's request, or of the   *)
(* reply to it.                                                            *)
(***************************************************************************)
EXTENDS Integers, Sequences, FiniteSets

CONSTANTS
  User,      \* the threads
  Locked     \* the program makes one call at a time

ASSUME UserAssumption == IsFiniteSet(User) /\ Locked \in BOOLEAN

VARIABLES
  at,        \* where each thread is
  crypt,     \* its call has a buffer: it is do_generic_crypt
  got,       \* history: whose replies it has read in this call
  srv,       \* where the compartment is
  job,       \* the request it serves
  c2s, s2c   \* the socket

userVars == <<at, crypt, got>>
serverVars == <<srv, job>>
vars == <<userVars, serverVars, c2s, s2c>>

Element(part, u, b) == [part |-> part, by |-> u, crypt |-> b]

Up == srv \notin {"stopped", "dead"}
InCall(u) == at[u] \in {"writeMsg", "writeBuf", "readMsg", "readBuf"}

\* Mutant: the caller does not wait for the others.
BeginUnlocked(u) ==
  /\ at[u] = "idle"
  /\ at' = [at EXCEPT ![u] = "writeMsg"]
  /\ \E b \in BOOLEAN : crypt' = [crypt EXCEPT ![u] = b]
  /\ got' = [got EXCEPT ![u] = {}]
  /\ UNCHANGED <<serverVars, c2s, s2c>>

\* An API call.
Begin(u) ==
  /\ at[u] = "idle"
  /\ Locked => \A w \in User : ~InCall(w)
  /\ at' = [at EXCEPT ![u] = "writeMsg"]
  /\ \E b \in BOOLEAN : crypt' = [crypt EXCEPT ![u] = b]
  /\ got' = [got EXCEPT ![u] = {}]
  /\ UNCHANGED <<serverVars, c2s, s2c>>

\* A signal or an errx() ends the process, with all its threads.
Dies == at' = [w \in User |-> "dead"]

\* A write, or the SIGPIPE it gets when the compartment has gone.
Write(u) ==
  /\ \/ /\ Up
        /\ \/ /\ at[u] = "writeMsg"
              /\ c2s' = Append(c2s, Element("msg", u, crypt[u]))
              /\ at' = [at EXCEPT ![u] = IF crypt[u] THEN "writeBuf" ELSE "readMsg"]
           \/ /\ at[u] = "writeBuf"
              /\ c2s' = Append(c2s, Element("buf", u, TRUE))
              /\ at' = [at EXCEPT ![u] = "readMsg"]
     \/ ~Up /\ at[u] \in {"writeMsg", "writeBuf"} /\ Dies /\ UNCHANGED c2s
  /\ UNCHANGED <<crypt, got, serverVars, s2c>>

\* A read takes what is next in the queue, whosever it is; after the
\* compartment has gone it fails, or finds the end of the file.
Read(u) ==
  /\ at[u] \in {"readMsg", "readBuf"}
  /\ \/ /\ s2c # <<>>
        /\ s2c' = Tail(s2c)
        /\ got' = [got EXCEPT ![u] = @ \cup {Head(s2c).by}]
        /\ at' = [at EXCEPT ![u] = IF crypt[u] /\ @ = "readMsg" THEN "readBuf" ELSE "idle"]
     \/ /\ s2c = <<>> /\ ~Up
        /\ at' = [at EXCEPT ![u] = "idle"] \/ Dies
        /\ UNCHANGED <<s2c, got>>
  /\ UNCHANGED <<crypt, serverVars, c2s>>

\* The compartment's next struct.  If a piece of a buffer is in its place,
\* it may read as any request.
ServerReadMsg ==
  /\ srv = "readMsg" /\ c2s # <<>>
  /\ c2s' = Tail(c2s)
  /\ \E part \in IF Head(c2s).part = "buf" THEN {"msg", "exit"} ELSE {Head(c2s).part} :
     \E b \in IF Head(c2s).part = "buf" THEN BOOLEAN ELSE {Head(c2s).crypt} :
       /\ job' = Element(part, Head(c2s).by, b)
       /\ srv' = CASE part = "exit" -> "stopped" [] b -> "readBuf" [] OTHER -> "writeMsg"
  /\ UNCHANGED <<userVars, s2c>>

\* The buffer is what comes next.
ServerReadBuf ==
  /\ srv = "readBuf" /\ c2s # <<>>
  /\ c2s' = Tail(c2s)
  /\ srv' = "writeMsg"
  /\ UNCHANGED <<userVars, job, s2c>>

\* Mutant: the buffer is not sent back.
ServerWriteMsgOnly ==
  /\ srv = "writeMsg" /\ srv' = "readMsg"
  /\ s2c' = Append(s2c, Element("msg", job.by, job.crypt))
  /\ UNCHANGED <<userVars, job, c2s>>

ServerWrite ==
  /\ \/ /\ srv = "writeMsg"
        /\ s2c' = Append(s2c, Element("msg", job.by, job.crypt))
        /\ srv' = IF job.crypt THEN "writeBuf" ELSE "readMsg"
     \/ /\ srv = "writeBuf"
        /\ s2c' = Append(s2c, Element("buf", job.by, TRUE))
        /\ srv' = "readMsg"
  /\ UNCHANGED <<userVars, job, c2s>>

ServerCrash ==
  /\ Up /\ srv' = "dead" /\ c2s' = <<>>
  /\ UNCHANGED <<userVars, job, s2c>>

Init ==
  /\ at = [u \in User |-> "idle"]
  /\ crypt = [u \in User |-> FALSE]
  /\ got = [u \in User |-> {}]
  /\ srv = "readMsg" /\ c2s = <<>> /\ s2c = <<>>
  /\ \E u \in User : job = Element("msg", u, FALSE)

Step(u) == Write(u) \/ Read(u)
ServerStep == ServerReadMsg \/ ServerReadBuf \/ ServerWrite

Next == ServerStep \/ ServerCrash \/ \E u \in User : Begin(u) \/ Step(u)

Spec == Init /\ [][Next]_vars

\* The operating system runs every thread, and the compartment.
FairSpec == Spec /\ WF_vars(ServerStep) /\ \A u \in User : WF_vars(Step(u))
-----------------------------------------------------------------------------
(***************************************************************************)
(* Properties.                                                             *)
(***************************************************************************)
\* What a call reads is the reply to its own request (aes-comp-client.c:
\* 173-184).  The library needs no lock for that: "It exposes the exact same
\* API as the library".
OwnReply == \A u \in User : got[u] \subseteq {u}

\* Every call ends.
SharedCallEnds == \A u \in User : InCall(u) ~> ~InCall(u)
=============================================================================
