----------------------------- MODULE AesStartup -----------------------------
(***************************************************************************)
(* How a program and its compartment find each other: the constructor and  *)
(* destructor of the stub (aes-comp-client.c:27-115) and what the          *)
(* compartment does around its service loop (aes-comp.c:14-43, 158-162).   *)
(*                                                                         *)
(* Programs run one after the other, as the hard-coded SOCKET_PATH asks    *)
(* (aes-comp.h:10-12), but nobody waits for a compartment to end: it may   *)
(* outlive its program and meet the next one.  Compartment r is the one    *)
(* that program r forks.  The service loop is AesComp's; here a call is a  *)
(* request and its answer.                                                 *)
(***************************************************************************)
EXTENDS Integers, Sequences

CONSTANTS
  Runs,       \* programs started, one after the other
  Tries,      \* turns of either loop of the constructor (1000 in the code)
  Backlog,    \* second argument of listen()
  FileBefore  \* a compartment killed earlier may have left its file behind

ASSUME StartupAssumption ==
  /\ Runs \in Nat \ {0}
  /\ Tries \in Nat \ {0}
  /\ Backlog \in Nat
  /\ FileBefore \in BOOLEAN

Run == 1..Runs
Nobody == 0
NoFile == 0
Stale == -1         \* a socket file nobody listens on, left from before

VARIABLES
  \* the programs
  prog,     \* where each is
  tries,    \* turns left of the loop it is in, 0 in none
  conn,     \* whose compartment its socket is connected to
  \* the compartments
  comp,     \* where each is
  peer,     \* the program whose connection it accepted
  queue,    \* connections it has not accepted
  \* the file system
  path      \* whose socket the file at SOCKET_PATH is

progVars == <<prog, tries, conn>>
compVars == <<comp, peer, queue>>
vars == <<progVars, compVars, path>>

ProgGone(r) == prog[r] \in {"exited", "dead"}
CompGone(c) == comp[c] \in {"none", "stopped", "dead"}
Accepting(c) == comp[c] \in {"listening", "serving", "spinning", "stopping"}

(***************************************************************************)
(* The program.                                                            *)
(***************************************************************************)
\* errx() in the constructor: exit() runs destroy(), whose message goes to an
\* unconnected socket, or to descriptor 0, and so to no compartment.
Abort(r) == prog' = [prog EXCEPT ![r] = "dead"]

\* start_server, up to fork.
Start(r) ==
  /\ prog[r] = "new"
  /\ \A q \in Run : q < r => ProgGone(q)
  /\ \/ /\ prog' = [prog EXCEPT ![r] = "waiting"]
        /\ tries' = [tries EXCEPT ![r] = Tries]
        /\ comp' = [comp EXCEPT ![r] = "forked"]
     \/ Abort(r) /\ UNCHANGED <<tries, comp>>            \* fork fails
  /\ UNCHANGED <<conn, peer, queue, path>>

\* Mutant: a turn too many.
NextTryTooFar(r) ==
  /\ tries' = [tries EXCEPT ![r] = @ - 1]
  /\ IF tries[r] > 0 THEN UNCHANGED prog ELSE Abort(r)

\* Another turn of a loop, or giving up after the last one.
NextTry(r) ==
  /\ tries' = [tries EXCEPT ![r] = @ - 1]
  /\ IF tries[r] > 1 THEN UNCHANGED prog ELSE Abort(r)

\* wait_for_socket: one stat().
Stat(r) ==
  /\ prog[r] = "waiting"
  /\ \/ /\ path # NoFile
        /\ prog' = [prog EXCEPT ![r] = "connecting"]
        /\ tries' = [tries EXCEPT ![r] = Tries]
     \/ path = NoFile /\ NextTry(r)
  /\ UNCHANGED <<conn, compVars, path>>

Listener(c) == c # NoFile /\ c # Stale /\ Accepting(c)


\* init_connection: one connect().  It is refused unless the file is the
\* socket of somebody listening, and blocks while that queue is full.
Connect(r) ==
  /\ prog[r] = "connecting"
  /\ \/ \E c \in Run :
          /\ path = c /\ Accepting(c) /\ Len(queue[c]) <= Backlog
          /\ prog' = [prog EXCEPT ![r] = "running"]
          /\ conn' = [conn EXCEPT ![r] = c]
          /\ queue' = [queue EXCEPT ![c] = Append(@, r)]
          /\ tries' = [tries EXCEPT ![r] = 0]
     \/ ~Listener(path) /\ NextTry(r) /\ UNCHANGED <<conn, queue>>
  /\ UNCHANGED <<comp, peer, path>>

\* An API call: SIGPIPE when the other end is closed.
Call(r) ==
  /\ prog[r] = "running"
  /\ prog' = [prog EXCEPT ![r] = IF Accepting(conn[r]) THEN "called" ELSE "dead"]
  /\ UNCHANGED <<tries, conn, compVars, path>>

\* The other end closes during a call: it returns at the end of the file, or
\* fails when the connection is reset.
CallBroken(r) ==
  /\ prog[r] = "called" /\ ~Accepting(conn[r])
  /\ \E s \in {"running", "dead"} : prog' = [prog EXCEPT ![r] = s]
  /\ UNCHANGED <<tries, conn, compVars, path>>

\* destroy, when main returns: EXIT goes to the compartment.
destroy(r) ==
  /\ prog[r] = "running"
  /\ prog' = [prog EXCEPT ![r] = IF Accepting(conn[r]) THEN "exited" ELSE "dead"]
  /\ UNCHANGED <<tries, conn, compVars, path>>

ProgCrash(r) ==
  /\ prog[r] # "new" /\ ~ProgGone(r)
  /\ prog' = [prog EXCEPT ![r] = "dead"]
  /\ tries' = [tries EXCEPT ![r] = 0]
  /\ UNCHANGED <<conn, compVars, path>>

(***************************************************************************)
(* The compartment.                                                        *)
(***************************************************************************)
Goes(c, from, to) == comp[c] = from /\ comp' = [comp EXCEPT ![c] = to]

\* The child of fork: execve, or an errx().
Exec(c) ==
  /\ Goes(c, "forked", "started") \/ Goes(c, "forked", "dead")
  /\ UNCHANGED <<progVars, peer, queue, path>>

Unlink(c) ==
  /\ Goes(c, "started", "unlinked")
  /\ path' = NoFile
  /\ UNCHANGED <<progVars, peer, queue>>

\* bind() fails if there is a file at the path again.
Bind(c) ==
  /\ \/ path = NoFile /\ Goes(c, "unlinked", "bound") /\ path' = c
     \/ path # NoFile /\ Goes(c, "unlinked", "dead") /\ UNCHANGED path
  /\ UNCHANGED <<progVars, peer, queue>>

Listen(c) ==
  /\ Goes(c, "bound", "listening")
  /\ UNCHANGED <<progVars, peer, queue, path>>

\* Mutant: a connection whose program has gone is closed unread, and the next
\* one awaited.
AcceptLive(c) ==
  /\ comp[c] = "listening" /\ queue[c] # <<>>
  /\ IF ProgGone(Head(queue[c])) THEN UNCHANGED <<comp, peer>>
       ELSE Goes(c, "listening", "serving") /\ peer' = [peer EXCEPT ![c] = Head(queue[c])]
  /\ queue' = [queue EXCEPT ![c] = Tail(@)]
  /\ UNCHANGED <<progVars, path>>

\* The one accept(): later connections stay in the queue.
Accept(c) ==
  /\ queue[c] # <<>>
  /\ Goes(c, "listening", "serving")
  /\ peer' = [peer EXCEPT ![c] = Head(queue[c])]
  /\ queue' = [queue EXCEPT ![c] = Tail(@)]
  /\ UNCHANGED <<progVars, path>>

\* Mutant: the request is read and not answered.
AnswerNot(c) ==
  /\ comp[c] = "serving"
  /\ \E p \in Run : peer[c] = p /\ prog[p] = "called"
  /\ UNCHANGED vars

Answer(c) ==
  /\ comp[c] = "serving"
  /\ \E p \in Run : peer[c] = p /\ prog[p] = "called" /\ prog' = [prog EXCEPT ![p] = "running"]
  /\ UNCHANGED <<tries, conn, compVars, path>>

\* Mutant: EXIT does not set stop_server.
ServiceEndsNoExit(c) ==
  /\ \E p \in Run :
       /\ peer[c] = p
       /\ prog[p] = "dead"
       /\ \E s \in {"stopping", "spinning"} : Goes(c, "serving", s)
  /\ UNCHANGED <<progVars, peer, queue, path>>

\* The service loop ends: EXIT arrives, or, as AesComp shows, a program that
\* died leaves the compartment to die, to spin, or even to see an EXIT.
ServiceEnds(c) ==
  /\ \E p \in Run :
       /\ peer[c] = p
       /\ \/ prog[p] = "exited" /\ Goes(c, "serving", "stopping")
          \/ /\ prog[p] = "dead"
             /\ \E s \in {"stopping", "spinning"} : Goes(c, "serving", s)
  /\ UNCHANGED <<progVars, peer, queue, path>>

\* close(client_fd), close(server_fd): resets the connections not accepted.
Close(c) ==
  /\ Goes(c, "stopping", "closed")
  /\ queue' = [queue EXCEPT ![c] = <<>>]
  /\ UNCHANGED <<progVars, peer, path>>

\* Whatever is at the path by now is removed.
LastUnlink(c) ==
  /\ Goes(c, "closed", "stopped")
  /\ path' = NoFile
  /\ UNCHANGED <<progVars, peer, queue>>

\* A failed socket(), bind(), ... ends in errx(); it can also be killed.
CompCrash(c) ==
  /\ ~CompGone(c)
  /\ comp' = [comp EXCEPT ![c] = "dead"]
  /\ queue' = [queue EXCEPT ![c] = <<>>]
  /\ UNCHANGED <<progVars, peer, path>>

(***************************************************************************)
(* The specification.                                                      *)
(***************************************************************************)
Init ==
  /\ prog = [r \in Run |-> "new"]
  /\ tries = [r \in Run |-> 0]
  /\ conn = [r \in Run |-> Nobody]
  /\ comp = [r \in Run |-> "none"]
  /\ peer = [r \in Run |-> Nobody]
  /\ queue = [r \in Run |-> <<>>]
  /\ path = NoFile \/ (FileBefore /\ path = Stale)

ProgStep(r) == Stat(r) \/ Connect(r) \/ CallBroken(r)
Program(r) == Start(r) \/ ProgStep(r) \/ Call(r) \/ destroy(r) \/ ProgCrash(r)
CompStep(c) ==
  \/ Exec(c) \/ Unlink(c) \/ Bind(c) \/ Listen(c) \/ Accept(c)
  \/ Answer(c) \/ ServiceEnds(c) \/ Close(c) \/ LastUnlink(c)

Next == \E r \in Run : Program(r) \/ CompStep(r) \/ CompCrash(r)

Spec == Init /\ [][Next]_vars

\* The operating system runs every process.  Nobody need start a program,
\* and a program need not make a call, nor end.
Fairness == \A r \in Run : WF_vars(ProgStep(r)) /\ WF_vars(CompStep(r))
FairSpec == Spec /\ Fairness
-----------------------------------------------------------------------------
(***************************************************************************)
(* Properties.                                                             *)
(***************************************************************************)
\* Every variable stays in its type; no loop of the constructor runs past
\* its last turn.
TypeOK ==
  /\ prog \in [Run -> {"new", "waiting", "connecting", "running", "called", "exited", "dead"}]
  /\ tries \in [Run -> 0..Tries]
  /\ \A r \in Run : prog[r] \in {"waiting", "connecting"} <=> tries[r] > 0
  /\ conn \in [Run -> Run \cup {Nobody}]
  /\ comp \in [Run -> {"none", "forked", "started", "unlinked", "bound", "listening", "serving",
                        "spinning", "stopping", "closed", "stopped", "dead"}]
  /\ peer \in [Run -> Run \cup {Nobody}]
  /\ queue \in [Run -> Seq(Run)]
  /\ path \in Run \cup {NoFile, Stale}

\* The constructor ends: connected, or with the program gone, unless it is
\* blocked in a connect() to a compartment whose queue is full and whose
\* service loop a dead program has left turning for ever.
Starting(r) == prog[r] \in {"waiting", "connecting"}
Blocked(r) ==
  prog[r] = "connecting" /\ \E c \in Run : path = c /\ comp[c] = "spinning" /\ Len(queue[c]) > Backlog

\* A program that called a compartment waits behind another program there,
\* whose death has left that compartment in its service loop for ever: the
\* one accept() was for the other.
Behind(r) == \E c \in Run : conn[r] = c /\ comp[c] = "spinning" /\ peer[c] # r

\* Every call ends, whichever compartment the program found at the path and
\* whether or not it has been accepted: with an answer, or broken off when
\* that compartment closes or dies, or else it is Behind.
CallAnswered == \A r \in Run : prog[r] = "called" ~> prog[r] # "called" \/ Behind(r)

\* "Wait for the socket to be created by the compartment server", says
\* aes-comp-client.c:27 of wait_for_socket: when the constructor is through,
\* the compartment it started has got as far as that.
SocketAwaited ==
  \A r \in Run : prog[r] \in {"running", "called"} => comp[r] \notin {"forked", "started", "unlinked"}

\* A program that ends normally takes the compartment it talked to with it
\* when that is its own, even if it ends before it was accepted.
ExitStopsOwn == \A r \in Run : (prog[r] = "exited" /\ conn[r] = r) ~> CompGone(r)

\* A compartment whose program has gone ends, or serves a later program, or
\* is stuck: in accept() with nobody in its queue, or in its service loop.
Orphaned(r) ==
  \/ CompGone(r)
  \/ comp[r] = "listening" /\ queue[r] = <<>>
  \/ comp[r] = "serving" /\ peer[r] # r
  \/ comp[r] = "spinning"
OrphanFate == \A r \in Run : ProgGone(r) ~> Orphaned(r)

\* The compartment that r forked has r before it, or has done with r.
Awaited(r) ==
  \/ comp[r] = "listening" /\ queue[r] # <<>> /\ Head(queue[r]) = r
  \/ comp[r] = "serving" /\ peer[r] = r
  \/ comp[r] \in {"stopping", "closed", "stopped"} /\ ProgGone(r)
  \/ comp[r] = "spinning" /\ prog[r] = "dead"
  \/ comp[r] = "dead"

\* A program that has reached its own compartment is the first there: the one
\* accept() takes it, until it has gone or the compartment has died.
OwnFirst == \A r \in Run : conn[r] = r => Awaited(r)
=============================================================================
