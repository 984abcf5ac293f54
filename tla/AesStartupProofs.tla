-------------------------- MODULE AesStartupProofs --------------------------
(***************************************************************************)
(* Proofs about AesStartup, for any number of runs, of turns of the loops  *)
(* and any length of the queue, and with or without a stale file.          *)
(***************************************************************************)
EXTENDS AesStartup, TLAPS

\* Runs come one after the other, and a compartment is not there before its
\* program is.
InOrder ==
  /\ \A q, r \in Run : q < r /\ prog[r] # "new" => ProgGone(q)
  /\ \A r \in Run : prog[r] = "new" => comp[r] = "none" /\ conn[r] = Nobody
  /\ \A r \in Run : prog[r] \in {"waiting", "connecting"} => conn[r] = Nobody

IInv == TypeOK /\ InOrder

Status == {"new", "waiting", "connecting", "running", "called", "exited", "dead"}
CompStatus == {"none", "forked", "started", "unlinked", "bound", "listening", "serving",
               "spinning", "stopping", "closed", "stopped", "dead"}
-----------------------------------------------------------------------------
\* No turn of a loop of the constructor is past the last, and every variable
\* has its type, to begin with.
LEMMA TypeInit == Init => TypeOK
<1>1. <<>> \in Seq(Run)
  OBVIOUS
<1>2. Init => path \in {NoFile, Stale}
  BY DEF Init
<1>3. QED
  BY <1>1, <1>2, StartupAssumption DEF Init, TypeOK, StartupAssumption, Nobody, NoFile, Stale

\* The same after every step of a program.
LEMMA TypeProgram ==
  ASSUME TypeOK, NEW r \in Run, Program(r)
  PROVE  TypeOK'
<1> USE StartupAssumption DEF StartupAssumption, Nobody, NoFile, Stale
<1>1. CASE Start(r)
  <2>1. prog[r] = "new" /\ UNCHANGED <<conn, peer, queue, path>>
    BY <1>1 DEF Start
  <2>2. CASE Abort(r) /\ UNCHANGED <<tries, comp>>
    BY <2>1, <2>2 DEF TypeOK, Abort
  <2>3. CASE /\ prog' = [prog EXCEPT ![r] = "waiting"] /\ tries' = [tries EXCEPT ![r] = Tries]
             /\ comp' = [comp EXCEPT ![r] = "forked"]
    BY <2>1, <2>3 DEF TypeOK
  <2> QED  BY <1>1, <2>2, <2>3 DEF Start
<1>2. ASSUME NextTry(r), UNCHANGED <<conn, comp, peer, queue, path>>,
             prog[r] \in {"waiting", "connecting"}
      PROVE  TypeOK'
  <2>1. tries[r] \in 1..Tries /\ tries' = [tries EXCEPT ![r] = tries[r] - 1]
    BY <1>2 DEF TypeOK, NextTry
  <2>2. CASE tries[r] > 1
    <3>1. tries[r] - 1 \in 1..Tries /\ UNCHANGED prog
      BY <1>2, <2>1, <2>2 DEF NextTry
    <3> QED  BY <1>2, <2>1, <3>1 DEF TypeOK
  <2>3. CASE ~(tries[r] > 1)
    <3>1. tries[r] - 1 = 0 /\ prog' = [prog EXCEPT ![r] = "dead"]
      BY <1>2, <2>1, <2>3 DEF NextTry, Abort
    <3> QED  BY <1>2, <2>1, <3>1 DEF TypeOK
  <2> QED  BY <2>2, <2>3
<1>3. CASE Stat(r) \/ Connect(r)
  <2>1. CASE NextTry(r) /\ UNCHANGED <<conn, queue>>
    <3>1. UNCHANGED <<conn, comp, peer, queue, path>> /\ prog[r] \in {"waiting", "connecting"}
      BY <1>3, <2>1 DEF Stat, Connect, compVars
    <3> QED  BY <1>2, <2>1, <3>1
  <2>2. CASE Stat(r) /\ prog' = [prog EXCEPT ![r] = "connecting"] /\ tries' = [tries EXCEPT ![r] = Tries]
    BY <2>2 DEF TypeOK, Stat, compVars
  <2>3. CASE Connect(r) /\ \E c \in Run : /\ prog' = [prog EXCEPT ![r] = "running"]
                                          /\ conn' = [conn EXCEPT ![r] = c]
                                          /\ queue' = [queue EXCEPT ![c] = Append(@, r)]
                                          /\ tries' = [tries EXCEPT ![r] = 0]
    <3>1. PICK c \in Run : /\ prog' = [prog EXCEPT ![r] = "running"] /\ conn' = [conn EXCEPT ![r] = c]
                           /\ queue' = [queue EXCEPT ![c] = Append(@, r)]
                           /\ tries' = [tries EXCEPT ![r] = 0]
      BY <2>3
    <3>2. queue' \in [Run -> Seq(Run)]
      BY <3>1 DEF TypeOK
    <3> QED  BY <2>3, <3>1, <3>2 DEF TypeOK, Connect
  <2> QED  BY <1>3, <2>1, <2>2, <2>3 DEF Stat, Connect, compVars
<1>4. CASE CallBroken(r) \/ Call(r) \/ destroy(r) \/ ProgCrash(r)
  <2>1. CASE ProgCrash(r)
    BY <2>1 DEF TypeOK, ProgCrash, compVars
  <2>2. CASE CallBroken(r) \/ Call(r) \/ destroy(r)
    <3>1. PICK s \in {"running", "called", "exited", "dead"} : prog' = [prog EXCEPT ![r] = s]
      BY <2>2 DEF CallBroken, Call, destroy
    <3>2. prog[r] \in {"running", "called"} /\ UNCHANGED <<tries, conn, comp, peer, queue, path>>
      BY <2>2 DEF CallBroken, Call, destroy, compVars
    <3> QED  BY <3>1, <3>2 DEF TypeOK
  <2> QED  BY <1>4, <2>1, <2>2
<1>5. QED
  BY <1>1, <1>2, <1>3, <1>4 DEF Program, ProgStep

\* The same after every step of a compartment.
LEMMA TypeCompartment ==
  ASSUME TypeOK, NEW c \in Run, CompStep(c) \/ CompCrash(c)
  PROVE  TypeOK'
<1> USE DEF Nobody, NoFile, Stale, progVars, Goes
<1>1. CASE Exec(c) \/ Unlink(c) \/ Bind(c) \/ Listen(c)
  BY <1>1 DEF TypeOK, Exec, Unlink, Bind, Listen
<1>2. CASE Accept(c)
  <2>1. queue[c] \in Seq(Run) /\ queue[c] # <<>>
    BY <1>2 DEF TypeOK, Accept
  <2>2. Head(queue[c]) \in Run /\ Tail(queue[c]) \in Seq(Run)
    BY <2>1
  <2>3. QED
    BY <1>2, <2>2 DEF TypeOK, Accept
<1>3. CASE Answer(c)
  <2>1. PICK p \in Run : prog' = [prog EXCEPT ![p] = "running"]
    BY <1>3 DEF Answer
  <2>2. QED
    BY <1>3, <2>1 DEF TypeOK, Answer, compVars
<1>4. CASE ServiceEnds(c) \/ LastUnlink(c)
  BY <1>4 DEF TypeOK, ServiceEnds, LastUnlink
<1>5. CASE Close(c) \/ CompCrash(c)
  <2>1. queue' = [queue EXCEPT ![c] = <<>>] /\ \E s \in {"closed", "dead"} : comp' = [comp EXCEPT ![c] = s]
    BY <1>5 DEF Close, CompCrash
  <2>2. UNCHANGED <<prog, tries, conn, peer, path>>
    BY <1>5 DEF Close, CompCrash
  <2>3. queue' \in [Run -> Seq(Run)]
    BY <2>1 DEF TypeOK
  <2>4. QED
    BY <2>1, <2>2, <2>3 DEF TypeOK
<1>6. QED
  BY <1>1, <1>2, <1>3, <1>4, <1>5 DEF CompStep
-----------------------------------------------------------------------------
\* What the steps other than Start do to the order of things.
ProgMoves(r, s) ==
  /\ prog[r] # "new" /\ ~ProgGone(r) /\ s # "new"
  /\ s \in {"waiting", "connecting"} => prog[r] \in {"waiting", "connecting"}
  /\ prog' = [prog EXCEPT ![r] = s]
  /\ UNCHANGED <<comp, conn>>

Connects(r, c) ==
  /\ prog[r] = "connecting" /\ prog' = [prog EXCEPT ![r] = "running"]
  /\ conn' = [conn EXCEPT ![r] = c]
  /\ UNCHANGED comp

CompMoves(c, s) ==
  /\ ~CompGone(c)
  /\ comp' = [comp EXCEPT ![c] = s]
  /\ UNCHANGED <<prog, conn>>

\* A step is a start, or moves one program, or one compartment, or neither.
LEMMA StepShape ==
  ASSUME TypeOK, [Next]_vars
  PROVE  \/ \E r \in Run : Start(r)
         \/ \E r \in Run, s \in Status : ProgMoves(r, s)
         \/ \E r, c \in Run : Connects(r, c)
         \/ \E c \in Run, s \in CompStatus \ {"none"} : CompMoves(c, s)
         \/ UNCHANGED <<prog, comp, conn>>
<1>1. CASE \E r \in Run : Stat(r)
  <2>1. PICK r \in Run : Stat(r)
    BY <1>1
  <2>2. UNCHANGED prog \/ \E s \in {"connecting", "dead"} : prog' = [prog EXCEPT ![r] = s]
    BY <2>1 DEF Stat, NextTry, Abort
  <2>3. QED
    BY <2>1, <2>2 DEF Stat, ProgMoves, ProgGone, Status, compVars
<1>2. CASE \E r \in Run : Connect(r)
  <2>1. PICK r \in Run : Connect(r)
    BY <1>2
  <2>2. \/ \E c \in Run : prog' = [prog EXCEPT ![r] = "running"]
                           /\ conn' = [conn EXCEPT ![r] = c]
        \/ (UNCHANGED prog \/ prog' = [prog EXCEPT ![r] = "dead"]) /\ UNCHANGED conn
    BY <2>1 DEF Connect, NextTry, Abort
  <2>3. prog[r] = "connecting" /\ UNCHANGED comp
    BY <2>1 DEF Connect
  <2>4. QED
    BY <2>2, <2>3 DEF Connects, ProgMoves, ProgGone, Status
<1>3. CASE \E r \in Run : CallBroken(r) \/ Call(r) \/ destroy(r) \/ ProgCrash(r)
  <2>1. PICK r \in Run : CallBroken(r) \/ Call(r) \/ destroy(r) \/ ProgCrash(r)
    BY <1>3
  <2>2. \E s \in {"running", "called", "exited", "dead"} : prog' = [prog EXCEPT ![r] = s]
    BY <2>1 DEF CallBroken, Call, destroy, ProgCrash
  <2>3. prog[r] # "new" /\ ~ProgGone(r) /\ UNCHANGED <<comp, conn>>
    BY <2>1 DEF CallBroken, Call, destroy, ProgCrash, ProgGone, compVars
  <2>4. QED
    BY <2>2, <2>3 DEF ProgMoves, Status
<1>4. CASE \E c \in Run : Answer(c)
  <2>1. PICK p \in Run : prog[p] = "called" /\ prog' = [prog EXCEPT ![p] = "running"]
                        /\ UNCHANGED <<comp, conn>>
    BY <1>4 DEF Answer, compVars
  <2>2. QED
    BY <2>1 DEF ProgMoves, ProgGone, Status
<1>5. CASE \E c \in Run : CompStep(c) /\ ~Answer(c)
  <2>1. PICK c \in Run : CompStep(c) /\ ~Answer(c)
    BY <1>5
  <2>2. CASE Exec(c) \/ Unlink(c) \/ Bind(c)
    BY <2>2 DEF Exec, Unlink, Bind, Goes, progVars, CompMoves, CompGone, CompStatus
  <2>3. CASE Listen(c) \/ Accept(c) \/ Close(c) \/ LastUnlink(c)
    BY <2>3 DEF Listen, Accept, Close, LastUnlink, Goes, progVars, CompMoves, CompGone, CompStatus
  <2>4. CASE ServiceEnds(c)
    <3>1. \E s \in {"stopping", "spinning"} : Goes(c, "serving", s)
      BY <2>4 DEF ServiceEnds
    <3>2. UNCHANGED <<prog, conn>>
      BY <2>4 DEF ServiceEnds, progVars
    <3>3. QED
      BY <3>1, <3>2 DEF Goes, CompMoves, CompGone, CompStatus
  <2>5. QED
    BY <2>1, <2>2, <2>3, <2>4 DEF CompStep
<1>6. CASE \E c \in Run : CompCrash(c)
  BY <1>6 DEF CompCrash, progVars, CompMoves, CompStatus
<1>7. CASE UNCHANGED vars
  BY <1>7 DEF vars, progVars, compVars
<1>8. QED
  BY <1>1, <1>2, <1>3, <1>4, <1>5, <1>6, <1>7 DEF Next, Program, ProgStep

\* The order of programs and compartments is kept by a step.
LEMMA OrderKept ==
  ASSUME IInv, [Next]_vars
  PROVE  InOrder'
<1> USE DEF ProgGone, CompGone, Run
<1>1. CASE \E r \in Run : Start(r)
  <2>1. PICK r \in Run : Start(r)
    BY <1>1
  <2>2. PICK s \in {"waiting", "dead"} : prog' = [prog EXCEPT ![r] = s]
    BY <2>1 DEF Start, Abort
  <2>3. (comp' = [comp EXCEPT ![r] = "forked"] \/ comp' = comp) /\ conn' = conn
    BY <2>1 DEF Start
  <2>4. prog[r] = "new" /\ \A q \in Run : q < r => ProgGone(q)
    BY <2>1 DEF Start
  <2> QED
    BY <2>2, <2>3, <2>4 DEF IInv, TypeOK, InOrder
<1>2. CASE \E r \in Run, s \in Status : ProgMoves(r, s)
  BY <1>2 DEF IInv, TypeOK, InOrder, ProgMoves
<1>3. CASE \E r, c \in Run : Connects(r, c)
  BY <1>3 DEF IInv, TypeOK, InOrder, Connects
<1>4. CASE \E c \in Run, s \in CompStatus \ {"none"} : CompMoves(c, s)
  BY <1>4 DEF IInv, TypeOK, InOrder, CompMoves
<1>5. CASE UNCHANGED <<prog, comp, conn>>
  BY <1>5 DEF IInv, InOrder
<1>6. QED
  BY <1>1, <1>2, <1>3, <1>4, <1>5, StepShape DEF IInv
-----------------------------------------------------------------------------
\* The inductive invariant holds in every state.
LEMMA StartupInvariant == Spec => []IInv
<1>1. Init => IInv
  BY TypeInit DEF Init, IInv, InOrder, ProgGone
<1>2. IInv /\ [Next]_vars => IInv'
  <2>1. TypeOK /\ Next => TypeOK'
    BY TypeProgram, TypeCompartment DEF Next
  <2>2. TypeOK /\ UNCHANGED vars => TypeOK'
    BY DEF TypeOK, vars, progVars, compVars
  <2>3. QED
    BY <2>1, <2>2, OrderKept DEF IInv
<1>3. QED
  BY <1>1, <1>2, PTL DEF Spec

\* The constructor's loops are never past their last turn, and every variable
\* has its type (aes-comp-client.c:28-71).
THEOREM TypeCorrect == Spec => []TypeOK
BY StartupInvariant, PTL DEF IInv

-----------------------------------------------------------------------------
(***************************************************************************)
(* The constructor's loops end, and what is left of CallAnswered and       *)
(* ExitStopsOwn without fairness: nobody is before a program in the queue  *)
(* of its own compartment, since no other program runs until it has gone.  *)
(***************************************************************************)
\* Nobody has met the compartment of a program that is still starting.
Unmet ==
  \A r \in Run : prog[r] \in {"new", "waiting", "connecting"} =>
    queue[r] = <<>> /\ comp[r] \notin {"serving", "spinning", "stopping", "closed"}

\* A step that changes only where program p is, and keeps it from starting or
\* from going: nothing that Awaited looks at.
LEMMA ProgKeepsFirst ==
  ASSUME IInv, OwnFirst, Unmet, NEW p \in Run, NEW s \in Status \ {"new"},
         ~ProgGone(p), prog[p] # "new", prog' = [prog EXCEPT ![p] = s], UNCHANGED <<conn, compVars>>,
         s \in {"waiting", "connecting"} => prog[p] \in {"waiting", "connecting"}
  PROVE  OwnFirst' /\ Unmet'
<1>1. \A r \in Run : prog'[r] = IF r = p THEN s ELSE prog[r]
  BY DEF IInv, TypeOK
<1>2. Unmet'
  BY <1>1 DEF Unmet, compVars
<1>3. ASSUME NEW r \in Run, conn'[r] = r PROVE Awaited(r)'
  <2>1. Awaited(r)
    BY <1>3 DEF OwnFirst
  <2> QED
    BY <1>1, <2>1 DEF Awaited, ProgGone, compVars
<1> QED
  BY <1>2, <1>3 DEF OwnFirst

\* A compartment whose own program has not met it moves on, or one that dies.
LEMMA CompKeepsFirst ==
  ASSUME IInv, OwnFirst, Unmet, NEW c \in Run, NEW s, comp' = [comp EXCEPT ![c] = s],
         UNCHANGED <<prog, conn, peer>>, queue' = queue \/ queue' = [queue EXCEPT ![c] = <<>>],
         \/ s = "dead"
         \/ /\ comp[c] \in {"forked", "started", "unlinked", "bound"}
            /\ s \in {"started", "unlinked", "bound", "listening"}
         \/ comp[c] = "stopping" /\ s = "closed"
         \/ comp[c] = "closed" /\ s = "stopped"
  PROVE  OwnFirst' /\ Unmet'
<1>1. /\ \A r \in Run : comp'[r] = IF r = c THEN s ELSE comp[r]
      /\ \A r \in Run : r # c => queue'[r] = queue[r]
      /\ queue'[c] = queue[c] \/ queue'[c] = <<>>
  BY DEF IInv, TypeOK
<1>2. Unmet'
  BY <1>1 DEF Unmet
<1>3. ASSUME NEW r \in Run, conn'[r] = r PROVE Awaited(r)'
  <2>1. Awaited(r)
    BY <1>3 DEF OwnFirst
  <2>2. CASE r # c
    BY <1>1, <2>1, <2>2 DEF Awaited, ProgGone
  <2>3. CASE r = c
    BY <1>1, <2>1, <2>3 DEF Awaited, ProgGone
  <2> QED
    BY <2>2, <2>3
<1> QED
  BY <1>2, <1>3 DEF OwnFirst

\* A connection goes to the end of the queue; nobody but program c can be the
\* first in that of compartment c while program c is starting.
LEMMA ConnectKeepsFirst ==
  ASSUME IInv, OwnFirst, Unmet, NEW r \in Run, NEW c \in Run,
         prog[r] = "connecting", Accepting(c),
         prog' = [prog EXCEPT ![r] = "running"], conn' = [conn EXCEPT ![r] = c],
         queue' = [queue EXCEPT ![c] = Append(@, r)], UNCHANGED <<comp, peer>>
  PROVE  OwnFirst' /\ Unmet'
<1>1. /\ \A q \in Run : prog'[q] = IF q = r THEN "running" ELSE prog[q]
      /\ \A q \in Run : conn'[q] = IF q = r THEN c ELSE conn[q]
      /\ \A q \in Run : queue'[q] = IF q = c THEN Append(queue[q], r) ELSE queue[q]
      /\ queue[c] \in Seq(Run)
  BY DEF IInv, TypeOK
<1>2. c # r => ProgGone(c)
  <2>1. c > r => prog[c] = "new"
    BY DEF IInv, InOrder, ProgGone
  <2>2. c < r => ProgGone(c)
    BY DEF IInv, InOrder
  <2>3. prog[c] # "new"
    BY DEF IInv, InOrder, Accepting
  <2> QED
    BY <2>1, <2>2, <2>3 DEF Run
<1>3. Unmet'
  BY <1>1, <1>2 DEF Unmet, ProgGone
<1>4. ASSUME NEW q \in Run, conn'[q] = q PROVE Awaited(q)'
  <2>1. CASE q = r
    <3>1. q = c /\ queue[c] = <<>> /\ comp[c] = "listening"
      BY <1>1, <1>4, <2>1 DEF Unmet, Accepting
    <3>2. Append(queue[c], r) # <<>> /\ Head(Append(queue[c], r)) = r
      BY <3>1
    <3> QED
      BY <1>1, <2>1, <3>1, <3>2 DEF Awaited
  <2>2. CASE q # r
    <3>1. Awaited(q)
      BY <1>1, <1>4, <2>2 DEF OwnFirst
    <3>2. queue[q] # <<>> => queue'[q] # <<>> /\ Head(queue'[q]) = Head(queue[q])
      BY <1>1
    <3> QED
      BY <1>1, <2>2, <3>1, <3>2 DEF Awaited, ProgGone
  <2> QED
    BY <2>1, <2>2
<1> QED
  BY <1>3, <1>4 DEF OwnFirst

LEMMA StartKeepsFirst ==
  ASSUME IInv, OwnFirst, Unmet, NEW r \in Run, Start(r)
  PROVE  OwnFirst' /\ Unmet'
<1>1. /\ prog[r] = "new" /\ conn[r] = Nobody /\ UNCHANGED <<conn, peer, queue>>
      /\ \A q \in Run : q # r => prog'[q] = prog[q] /\ comp'[q] = comp[q]
      /\ comp'[r] \in {"none", "forked"}
  BY DEF Start, Abort, IInv, TypeOK, InOrder
<1>2. Unmet'
  BY <1>1 DEF Unmet
<1>3. ASSUME NEW q \in Run, conn'[q] = q PROVE Awaited(q)'
  BY <1>1, <1>3 DEF OwnFirst, Awaited, ProgGone, Nobody, Run
<1> QED
  BY <1>2, <1>3 DEF OwnFirst

\* accept takes the first of the queue, and a service loop ends when the
\* program it serves has gone.
LEMMA AcceptKeepsFirst ==
  ASSUME IInv, OwnFirst, Unmet, NEW c \in Run, Accept(c) \/ ServiceEnds(c)
  PROVE  OwnFirst' /\ Unmet'
<1>1. CASE Accept(c)
  <2>1. /\ queue[c] # <<>> /\ comp[c] = "listening" /\ UNCHANGED <<prog, conn>>
        /\ \A r \in Run : comp'[r] = IF r = c THEN "serving" ELSE comp[r]
        /\ \A r \in Run : peer'[r] = IF r = c THEN Head(queue[c]) ELSE peer[r]
        /\ \A r \in Run : r # c => queue'[r] = queue[r]
    BY <1>1 DEF Accept, Goes, IInv, TypeOK, progVars
  <2>2. Unmet'
    BY <2>1 DEF Unmet
  <2>3. OwnFirst'
    BY <2>1 DEF OwnFirst, Awaited, ProgGone
  <2> QED
    BY <2>2, <2>3
<1>2. CASE ServiceEnds(c)
  <2>1. PICK p \in Run, s \in {"stopping", "spinning"} :
          /\ peer[c] = p /\ Goes(c, "serving", s)
          /\ (prog[p] = "exited" /\ s = "stopping") \/ prog[p] = "dead"
    BY <1>2 DEF ServiceEnds
  <2>2. UNCHANGED <<prog, conn, peer, queue>>
    BY <1>2 DEF ServiceEnds, progVars
  <2>3. comp[c] = "serving" /\ \A r \in Run : comp'[r] = IF r = c THEN s ELSE comp[r]
    BY <2>1 DEF Goes, IInv, TypeOK
  <2>4. Unmet'
    BY <2>2, <2>3 DEF Unmet
  <2>5. OwnFirst'
    BY <2>1, <2>2, <2>3 DEF OwnFirst, Awaited, ProgGone
  <2> QED
    BY <2>4, <2>5
<1> QED
  BY <1>1, <1>2

LEMMA FirstStep ==
  ASSUME IInv, OwnFirst, Unmet, [Next]_vars
  PROVE  OwnFirst' /\ Unmet'
<1>1. CASE \E r \in Run : Start(r)
  BY <1>1, StartKeepsFirst
<1>2. CASE \E r \in Run : Stat(r)
  <2>1. PICK r \in Run : Stat(r)
    BY <1>2
  <2>2. prog[r] = "waiting" /\ UNCHANGED <<conn, compVars>>
    BY <2>1 DEF Stat
  <2>3. \E s \in {"waiting", "connecting", "dead"} : prog' = [prog EXCEPT ![r] = s]
    BY <2>1 DEF Stat, NextTry, Abort, IInv, TypeOK
  <2> QED
    BY <2>2, <2>3, ProgKeepsFirst DEF Status, ProgGone
<1>3. CASE \E r \in Run : Connect(r)
  <2>1. PICK r \in Run : Connect(r)
    BY <1>3
  <2>2. prog[r] = "connecting" /\ UNCHANGED <<comp, peer>>
    BY <2>1 DEF Connect
  <2>3. CASE \E c \in Run :
               /\ Accepting(c) /\ prog' = [prog EXCEPT ![r] = "running"]
               /\ conn' = [conn EXCEPT ![r] = c] /\ queue' = [queue EXCEPT ![c] = Append(@, r)]
    BY <2>2, <2>3, ConnectKeepsFirst
  <2>4. CASE NextTry(r) /\ UNCHANGED <<conn, queue>>
    <3>1. \E s \in {"connecting", "dead"} : prog' = [prog EXCEPT ![r] = s]
      BY <2>2, <2>4 DEF NextTry, Abort, IInv, TypeOK
    <3> QED
      BY <2>2, <2>4, <3>1, ProgKeepsFirst DEF Status, ProgGone, compVars
  <2> QED
    BY <2>1, <2>3, <2>4 DEF Connect
<1>4. CASE \E r \in Run : CallBroken(r) \/ Call(r) \/ destroy(r) \/ ProgCrash(r)
  <2>1. PICK r \in Run : CallBroken(r) \/ Call(r) \/ destroy(r) \/ ProgCrash(r)
    BY <1>4
  <2>2. \E s \in {"running", "called", "exited", "dead"} : prog' = [prog EXCEPT ![r] = s]
    BY <2>1 DEF CallBroken, Call, destroy, ProgCrash
  <2>3. prog[r] # "new" /\ ~ProgGone(r) /\ UNCHANGED <<conn, compVars>>
    BY <2>1 DEF CallBroken, Call, destroy, ProgCrash, ProgGone
  <2> QED
    BY <2>2, <2>3, ProgKeepsFirst DEF Status
<1>5. CASE \E c \in Run : Answer(c)
  <2>1. PICK p \in Run : prog[p] = "called" /\ prog' = [prog EXCEPT ![p] = "running"]
    BY <1>5 DEF Answer
  <2>2. UNCHANGED <<conn, compVars>>
    BY <1>5 DEF Answer
  <2> QED
    BY <2>1, <2>2, ProgKeepsFirst DEF Status, ProgGone
<1>6. CASE \E c \in Run : Exec(c) \/ Unlink(c) \/ Bind(c) \/ Listen(c)
  <2>1. PICK c \in Run : Exec(c) \/ Unlink(c) \/ Bind(c) \/ Listen(c)
    BY <1>6
  <2>2. /\ comp[c] \in {"forked", "started", "unlinked", "bound"}
        /\ \E s \in {"started", "unlinked", "bound", "listening", "dead"} :
             comp' = [comp EXCEPT ![c] = s]
    BY <2>1 DEF Exec, Unlink, Bind, Listen, Goes
  <2>3. UNCHANGED <<prog, conn, peer, queue>>
    BY <2>1 DEF Exec, Unlink, Bind, Listen, progVars
  <2> QED
    BY <2>2, <2>3, CompKeepsFirst
<1>7. CASE \E c \in Run : Accept(c) \/ ServiceEnds(c)
  BY <1>7, AcceptKeepsFirst
<1>8. CASE \E c \in Run : Close(c) \/ LastUnlink(c) \/ CompCrash(c)
  <2>1. PICK c \in Run : Close(c) \/ LastUnlink(c) \/ CompCrash(c)
    BY <1>8
  <2>2. UNCHANGED <<prog, conn, peer>> /\ (queue' = queue \/ queue' = [queue EXCEPT ![c] = <<>>])
    BY <2>1 DEF Close, LastUnlink, CompCrash, progVars
  <2>3. \/ comp' = [comp EXCEPT ![c] = "dead"]
        \/ comp[c] = "stopping" /\ comp' = [comp EXCEPT ![c] = "closed"]
        \/ comp[c] = "closed" /\ comp' = [comp EXCEPT ![c] = "stopped"]
    BY <2>1 DEF Close, LastUnlink, CompCrash, Goes
  <2> QED
    BY <2>2, <2>3, CompKeepsFirst
<1>9. CASE UNCHANGED vars
  BY <1>9 DEF vars, progVars, compVars, OwnFirst, Unmet, Awaited, ProgGone
<1> QED
  BY <1>1, <1>2, <1>3, <1>4, <1>5, <1>6, <1>7, <1>8, <1>9 DEF Next, Program, ProgStep, CompStep

\* A program that is connected to its own compartment is the first it accepts
\* and the one it serves: its calls are answered and its EXIT is read, unless
\* the compartment dies (aes-comp-client.c:107-114, aes-comp.c:39-51).
THEOREM ProgramIsFirst == Spec => []OwnFirst
<1>1. Init => OwnFirst /\ Unmet
  BY DEF Init, OwnFirst, Unmet, Nobody, Run
<1> QED
  BY <1>1, StartupInvariant, FirstStep, PTL DEF Spec

\* A turn of a loop of the constructor, and a file or a listener found, leave
\* fewer turns to be made, whatever the compartments do meanwhile.
TurnsLeft(r) ==
  CASE prog[r] = "waiting" -> Tries + tries[r] [] prog[r] = "connecting" -> tries[r] [] OTHER -> 0
StartShortens == [][\A r \in Run : Starting(r) /\ ProgStep(r) => TurnsLeft(r)' < TurnsLeft(r)]_vars

\* Each turn of the constructor's loops counts, and the loops are two
\* (aes-comp-client.c:27-71).
THEOREM ConstructorShortens == Spec => StartShortens
<1>1. ASSUME TypeOK, NEW r \in Run, Starting(r), ProgStep(r) PROVE TurnsLeft(r)' < TurnsLeft(r)
  <2>1. tries[r] \in 1..Tries /\ Tries \in Nat
    BY <1>1, StartupAssumption DEF TypeOK, Starting
  <2>2. CASE NextTry(r)
    <3>1. /\ prog'[r] \in {prog[r], "dead"} /\ tries'[r] = tries[r] - 1
          /\ prog[r] \in {"waiting", "connecting"}
      BY <1>1, <2>2 DEF NextTry, Abort, TypeOK, Starting
    <3> QED
      BY <2>1, <3>1 DEF TurnsLeft
  <2>3. CASE Stat(r) /\ ~NextTry(r)
    <3>1. prog[r] = "waiting" /\ prog'[r] = "connecting" /\ tries'[r] = Tries
      BY <1>1, <2>3 DEF Stat, TypeOK
    <3> QED
      BY <2>1, <3>1 DEF TurnsLeft
  <2>4. CASE Connect(r) /\ ~NextTry(r)
    <3>1. prog[r] = "connecting" /\ prog'[r] = "running"
      BY <1>1, <2>4 DEF Connect, TypeOK
    <3> QED
      BY <2>1, <3>1 DEF TurnsLeft
  <2>5. ~CallBroken(r)
    BY <1>1 DEF CallBroken, Starting
  <2> QED
    BY <1>1, <2>2, <2>3, <2>4, <2>5 DEF ProgStep
<1>2. TypeOK /\ [Next]_vars =>
        [\A r \in Run : Starting(r) /\ ProgStep(r) => TurnsLeft(r)' < TurnsLeft(r)]_vars
  BY <1>1
<1> QED
  BY <1>2, TypeCorrect, PTL DEF StartShortens, Spec

\* A program waits for its own compartment: for an answer, or to be taken
\* off by it after EXIT.
Waits(r) == prog[r] \in {"called", "exited"} /\ conn[r] = r
OwnCanGo(r) ==
  \/ comp[r] = "listening" /\ queue[r] # <<>>
  \/ comp[r] = "serving" /\ \E p \in Run : peer[r] = p /\ prog[p] \in {"called", "exited", "dead"}
  \/ comp[r] \in {"stopping", "closed"}

\* Neither waits for the other: the compartment that is waited for has a step
\* to take, or has gone (aes-comp.c:39-162).
OwnNotStuck == \A r \in Run : Waits(r) => OwnCanGo(r) \/ CompGone(r)

\* A program that calls its own compartment, or has sent it EXIT, has it
\* going: in accept() with this program first, in service, or on its way out.
THEOREM OwnNeverSticks == Spec => []OwnNotStuck
<1>1. OwnFirst => OwnNotStuck
  BY DEF OwnFirst, Awaited, OwnNotStuck, Waits, OwnCanGo, CompGone, ProgGone
<1> QED
  BY <1>1, ProgramIsFirst, PTL

\* The steps a compartment has before it, an answer not counted.
CompStepsLeft(r) ==
  CASE comp[r] = "forked" -> 8 [] comp[r] = "started" -> 7 [] comp[r] = "unlinked" -> 6
    [] comp[r] = "bound" -> 5 [] comp[r] = "listening" -> 4 [] comp[r] = "serving" -> 3
    [] comp[r] = "stopping" -> 2 [] comp[r] = "closed" -> 1 [] OTHER -> 0

\* Nobody keeps it from that: until it answers or has gone, each step of it
\* leaves fewer, and no step of another process or program adds any
\* (aes-comp.c:39-162).
OwnShortens ==
  [][\A r \in Run : Waits(r) /\ Waits(r)' =>
       /\ CompStepsLeft(r)' <= CompStepsLeft(r)
       /\ CompStep(r) => CompStepsLeft(r)' < CompStepsLeft(r)]_vars

\* A step of a compartment, when it is not an answer, takes it further on the
\* one way there is.
LEMMA CompGoesOn ==
  ASSUME TypeOK, NEW r \in Run, CompStep(r), ~Answer(r)
  PROVE  CompStepsLeft(r)' < CompStepsLeft(r)
<1>1. ASSUME NEW a, NEW b, Goes(r, a, b) PROVE comp[r] = a /\ comp'[r] = b
  BY <1>1 DEF Goes, TypeOK
<1>2. CASE Exec(r) \/ Unlink(r) \/ Bind(r) \/ Listen(r)
  <2>1. \/ comp[r] = "forked" /\ comp'[r] \in {"started", "dead"}
        \/ comp[r] = "started" /\ comp'[r] = "unlinked"
        \/ comp[r] = "unlinked" /\ comp'[r] \in {"bound", "dead"}
        \/ comp[r] = "bound" /\ comp'[r] = "listening"
    BY <1>1, <1>2 DEF Exec, Unlink, Bind, Listen
  <2> QED
    BY <2>1 DEF CompStepsLeft
<1>3. CASE Accept(r) \/ ServiceEnds(r) \/ Close(r) \/ LastUnlink(r)
  <2>1. \/ comp[r] = "listening" /\ comp'[r] = "serving"
        \/ comp[r] = "serving" /\ comp'[r] \in {"stopping", "spinning"}
        \/ comp[r] = "stopping" /\ comp'[r] = "closed"
        \/ comp[r] = "closed" /\ comp'[r] = "stopped"
    BY <1>1, <1>3 DEF Accept, ServiceEnds, Close, LastUnlink
  <2> QED
    BY <2>1 DEF CompStepsLeft
<1> QED
  BY <1>2, <1>3 DEF CompStep

\* The others leave a compartment where it is, unless it is killed.
LEMMA OthersAddNone ==
  ASSUME TypeOK, NEW r \in Run, prog[r] # "new", [Next]_vars, ~CompStep(r)
  PROVE  CompStepsLeft(r)' <= CompStepsLeft(r)
<1>1. ASSUME NEW c \in Run, Program(c) PROVE comp'[r] = comp[r]
  BY <1>1 DEF Program, Start, ProgStep, Stat, Connect, CallBroken, Call, destroy, ProgCrash, compVars, TypeOK
<1>2. ASSUME NEW c \in Run, CompStep(c) PROVE comp'[r] = comp[r]
  <2>1. c # r
    BY <1>2
  <2>2. ASSUME NEW a, NEW b, Goes(c, a, b) PROVE comp'[r] = comp[r]
    BY <2>1, <2>2 DEF Goes, TypeOK
  <2> QED
    BY <1>2, <2>2 DEF CompStep, Exec, Unlink, Bind, Listen, Accept, Answer, ServiceEnds, Close, LastUnlink,
         compVars
<1>3. ASSUME NEW c \in Run, CompCrash(c) PROVE comp'[r] = comp[r] \/ comp'[r] = "dead"
  BY <1>3 DEF CompCrash, TypeOK
<1>4. UNCHANGED vars => comp'[r] = comp[r]
  BY DEF vars, compVars
<1>5. comp'[r] = comp[r] \/ comp'[r] = "dead"
  BY <1>1, <1>2, <1>3, <1>4 DEF Next
<1>6. CompStepsLeft(r)' = CompStepsLeft(r) \/ CompStepsLeft(r)' = 0
  BY <1>5 DEF CompStepsLeft
<1>7. CompStepsLeft(r) \in Nat
  BY DEF CompStepsLeft
<1> QED
  BY <1>6, <1>7

\* And each step of that compartment counts, whatever the other processes do.
THEOREM OwnStepsShorten == Spec => OwnShortens
<1>1. ASSUME TypeOK, OwnFirst, NEW r \in Run, Waits(r), Waits(r)', CompStep(r)
      PROVE  CompStepsLeft(r)' < CompStepsLeft(r)
  <2>1. \/ comp[r] = "listening"
        \/ comp[r] = "serving" /\ peer[r] = r
        \/ comp[r] \in {"stopping", "closed", "stopped", "dead"}
    BY <1>1 DEF OwnFirst, Awaited, Waits
  <2>2. ~Answer(r)
    BY <1>1, <2>1 DEF Answer, Waits, TypeOK
  <2> QED
    BY <1>1, <2>2, CompGoesOn
<1>2. ASSUME TypeOK, NEW r \in Run, Waits(r), [Next]_vars, ~CompStep(r)
      PROVE  CompStepsLeft(r)' <= CompStepsLeft(r)
  BY <1>2, OthersAddNone DEF Waits
<1>3. TypeOK /\ OwnFirst /\ [Next]_vars =>
        [\A r \in Run : Waits(r) /\ Waits(r)' =>
           /\ CompStepsLeft(r)' <= CompStepsLeft(r)
           /\ CompStep(r) => CompStepsLeft(r)' < CompStepsLeft(r)]_vars
  <2>1. \A r : CompStepsLeft(r) \in Int /\ CompStepsLeft(r)' \in Int
    BY DEF CompStepsLeft
  <2> QED
    BY <1>1, <1>2, <2>1
<1> QED
  BY <1>3, TypeCorrect, ProgramIsFirst, PTL DEF OwnShortens, Spec

\* connect() blocks, now or for ever, in the queue of an earlier program's
\* compartment only: nobody is before a program in that of its own
\* (aes-comp-client.c:58-68, aes-comp.c:37).
BlocksBehindOlder ==
  \A r, c \in Run :
    prog[r] = "connecting" /\ path = c /\ Accepting(c) /\ Len(queue[c]) > Backlog => c < r

\* So what StartEnds excepts takes a compartment that outlived its program.
THEOREM OnlyOlderBlock == Spec => []BlocksBehindOlder
<1>1. ASSUME IInv, Unmet, NEW r \in Run, NEW c \in Run,
             prog[r] = "connecting", Accepting(c), Len(queue[c]) > Backlog
      PROVE  c < r
  <2>1. c # r
    BY <1>1, StartupAssumption DEF Unmet
  <2>2. ~(r < c)
    BY <1>1 DEF IInv, InOrder, Accepting, ProgGone
  <2> QED
    BY <2>1, <2>2 DEF Run
<1>2. IInv /\ Unmet => BlocksBehindOlder
  BY <1>1 DEF BlocksBehindOlder
<1>3. Init => OwnFirst /\ Unmet
  BY DEF Init, OwnFirst, Unmet, Nobody, Run
<1> QED
  BY <1>2, <1>3, StartupInvariant, FirstStep, PTL DEF Spec

\* A compartment whose program has gone, and that has come to none of the
\* ends of Orphaned, has a step to take (aes-comp.c:14-162).
OrphanCanGo(r) ==
  \/ comp[r] \in {"forked", "started", "unlinked", "bound", "stopping", "closed"}
  \/ comp[r] = "listening" /\ queue[r] # <<>>
  \/ comp[r] = "serving" /\ prog[r] \in {"exited", "dead"} /\ peer[r] = r
OrphanNotStuck == \A r \in Run : ProgGone(r) => Orphaned(r) \/ OrphanCanGo(r)

\* And each brings it nearer to one, whatever later programs do
\* (aes-comp.c:14-162).
OrphanShortens ==
  [][\A r \in Run : ProgGone(r) /\ ~Orphaned(r) =>
       /\ ProgGone(r)'
       /\ CompStepsLeft(r)' <= CompStepsLeft(r)
       /\ CompStep(r) => CompStepsLeft(r)' < CompStepsLeft(r)]_vars

\* So no compartment that is left behind, from fork() on, is lost between the
\* ends OrphanFate names: it waits for nobody before it is at one of them,
THEOREM OrphansNeverStick == Spec => []OrphanNotStuck
<1>1. TypeOK => OrphanNotStuck
  BY DEF TypeOK, OrphanNotStuck, Orphaned, OrphanCanGo, ProgGone, CompGone
<1> QED
  BY <1>1, TypeCorrect, PTL

\* and if it keeps running it gets there.
THEOREM OrphansShorten == Spec => OrphanShortens
<1>1. ASSUME TypeOK, NEW r \in Run, ProgGone(r), ~Orphaned(r), CompStep(r)
      PROVE  CompStepsLeft(r)' < CompStepsLeft(r)
  <2>1. ~Answer(r)
    BY <1>1 DEF Answer, Orphaned, ProgGone
  <2> QED
    BY <1>1, <2>1, CompGoesOn
<1>2. ASSUME TypeOK, NEW r \in Run, ProgGone(r), [Next]_vars PROVE ProgGone(r)'
  <2>1. ASSUME NEW q \in Run, Program(q) PROVE prog'[r] = prog[r]
    <3>1. q # r
      BY <1>2, <2>1 DEF ProgGone, Program, ProgStep, Start, Stat, Connect, CallBroken, Call, destroy, ProgCrash
    <3> QED
      BY <1>2, <2>1, <3>1 DEF Program, ProgStep, Start, Stat, Connect, NextTry, Abort, CallBroken, Call, destroy,
           ProgCrash, TypeOK
  <2>2. ASSUME NEW c \in Run, CompStep(c) \/ CompCrash(c) PROVE prog'[r] = prog[r]
    BY <1>2, <2>2 DEF CompStep, CompCrash, Exec, Unlink, Bind, Listen, Accept, Answer, ServiceEnds, Close,
         LastUnlink, progVars, ProgGone, TypeOK
  <2>3. prog'[r] = prog[r]
    BY <1>2, <2>1, <2>2 DEF Next, vars, progVars
  <2> QED
    BY <1>2, <2>3 DEF ProgGone
<1>3. ASSUME TypeOK, NEW r \in Run, ProgGone(r), [Next]_vars, ~CompStep(r)
      PROVE  CompStepsLeft(r)' <= CompStepsLeft(r)
  BY <1>3, OthersAddNone DEF ProgGone
<1>4. \A r : CompStepsLeft(r) \in Int /\ CompStepsLeft(r)' \in Int
  BY DEF CompStepsLeft
<1>5. TypeOK /\ [Next]_vars =>
        [\A r \in Run : ProgGone(r) /\ ~Orphaned(r) =>
           /\ ProgGone(r)'
           /\ CompStepsLeft(r)' <= CompStepsLeft(r)
           /\ CompStep(r) => CompStepsLeft(r)' < CompStepsLeft(r)]_vars
  BY <1>1, <1>2, <1>3, <1>4
<1> QED
  BY <1>5, TypeCorrect, PTL DEF OrphanShortens, Spec
=============================================================================
