------------------------------ MODULE DaemonProofs ------------------------------
(***************************************************************************)
(* Proofs about Daemon, for any number of daemons and clients.             *)
(***************************************************************************)

EXTENDS Daemon, TLAPS

\* Two daemons that are running have been sharing the directory; one that has
\* not is alone in touching the socket file, which is gone when it binds, unless
\* looking for it or removing it went wrong.
DaemonInv ==
  /\ \A d \in Daemons : loop[d] # "none" => main[d] \in {"up", "locking", "stopping", "returned"}
  /\ \A d, e \in Daemons : d # e /\ Alive(d) /\ Alive(e) => d \in shared
  /\ \A d \in Daemons \ shared :
       /\ main[d] = "binding" => path = Nobody \/ d \in faulty
       /\ main[d] = "chmod" \/ loop[d] = "accepting" => path = d

Undelivered == {"idle", "connecting", "notfound", "refused", "broken"}

\* A request is in one place: with the client, in the socket, with the handler,
\* or executed.
CallInv ==
  \A c \in Clients :
    /\ call[c] \in Undelivered => handler[c] = "none"
    /\ call[c] \in Undelivered \cup {"connected"} => executed[c] = 0
    /\ call[c] = "connected" => handler[c] \in {"none", "backlog", "reading"} /\ c \notin request
    /\ c \in request => executed[c] = 0 /\ handler[c] \in {"backlog", "reading"}
    /\ handler[c] \in Serving \ {"reply"} => executed[c] = 0
    /\ c \in answer \/ handler[c] = "reply" \/ call[c] = "answered" => executed[c] = 1
    /\ executed[c] <= 1

PeerInv == \A c \in Clients : handler[c] # "none" => peer[c] \in Daemons

IInv == TypeOK /\ DaemonInv /\ CallInv /\ PeerInv

--------------------------------------------------------------------------------
(* What the steps leave alone.                                             *)

LEMMA InitIInv == Init => IInv
BY DaemonAssumption
   DEF Init, IInv, TypeOK, DaemonInv, CallInv, PeerInv, Undelivered, Alive, Starting, Ended, Serving

Entry == [who : Daemons \cup Clients, mode : {"read", "write"}]

\* The lock's queue stays one, whoever joins or leaves it.
LEMMA RequestKeepsTypes ==
  ASSUME TypeOK, NEW d \in Daemons, NEW who \in Daemons \cup Clients,
         NEW mode \in {"read", "write"}, Request(d, who, mode)
  PROVE  lock' \in [Daemons -> Seq(Entry)]
<1>1. lock \in [Daemons -> Seq(Entry)] /\ [who |-> who, mode |-> mode] \in Entry
  BY DEF TypeOK, Entry
<1>2. Append(lock[d], [who |-> who, mode |-> mode]) \in Seq(Entry)
  BY <1>1
<1> QED
  BY <1>1, <1>2 DEF Request

LEMMA ReleaseKeepsTypes ==
  ASSUME TypeOK, NEW d \in Daemons, NEW i \in DOMAIN lock[d], Release(d, i)
  PROVE  lock' \in [Daemons -> Seq(Entry)]
<1>1. lock \in [Daemons -> Seq(Entry)]
  BY DEF TypeOK, Entry
<1>2. lock[d] \in Seq(Entry) /\ i \in 1..Len(lock[d])
  BY <1>1
<1>3. SubSeq(lock[d], 1, i - 1) \in Seq(Entry) /\ SubSeq(lock[d], i + 1, Len(lock[d])) \in Seq(Entry)
  BY <1>2
<1>4. SubSeq(lock[d], 1, i - 1) \o SubSeq(lock[d], i + 1, Len(lock[d])) \in Seq(Entry)
  BY <1>3
<1> QED
  BY <1>1, <1>4 DEF Release

\* The daemon's end of a connection may be dropped at any time.
LEMMA CloseKeepsCalls ==
  ASSUME IInv, NEW who \in SUBSET Clients, Close(who), UNCHANGED call
  PROVE  CallInv' /\ PeerInv'
<1>1. CallInv'
  BY DEF IInv, TypeOK, CallInv, Close, Undelivered, Serving
<1>2. PeerInv'
  BY DEF IInv, TypeOK, PeerInv, Close
<1> QED
  BY <1>1, <1>2

LEMMA CloseKeepsTypes ==
  ASSUME TypeOK, NEW who \in SUBSET Clients, Close(who)
  PROVE  /\ peer' \in [Clients -> Daemons \cup {Nobody}]
         /\ handler' \in [Clients -> {"none", "backlog", "reading"} \cup Serving]
         /\ request' \in SUBSET Clients /\ answer' \in SUBSET Clients
         /\ executed' \in [Clients -> Nat]
BY DEF TypeOK, Close

\* Only a connection that comes about has a new peer.
LEMMA ClientKeepsPeers ==
  ASSUME IInv, NEW c \in Clients, ClientStep(c) \/ Handler(c)
  PROVE  PeerInv'
<1> USE DEF IInv, TypeOK, PeerInv
<1>1. CASE HangUp(c)
  BY <1>1, CloseKeepsCalls DEF HangUp
<1>2. CASE Connect(c)
  BY <1>2 DEF Connect
<1>3. CASE UNCHANGED peer /\ \A b \in Clients : handler[b] = "none" => handler'[b] = "none"
  BY <1>3
<1>4. CASE ClientStep(c) /\ ~Connect(c)
  BY <1>3, <1>4 DEF ClientStep, Invoke, CannotConnect, Write, Receive, Interrupt, connectionVars
<1>5. CASE Handler(c) /\ ~HangUp(c)
  BY <1>3, <1>5 DEF Handler, Accept, Read, Dispatch, UnderLock, Borrow, Work, Reply, GoTo
<1> QED
  BY <1>1, <1>2, <1>4, <1>5 DEF ClientStep, Handler

\* A client and its handler do not touch the daemons.
LEMMA ClientKeepsDaemons ==
  ASSUME NEW c \in Clients, ClientStep(c) \/ Handler(c)
  PROVE  UNCHANGED daemonVars
BY DEF ClientStep, Handler, Invoke, CannotConnect, Connect, Write, Receive, Interrupt,
       Accept, Read, HangUp, Dispatch, UnderLock, Borrow, Work, Reply

LEMMA DaemonsKeepInv ==
  ASSUME IInv, UNCHANGED daemonVars
  PROVE  DaemonInv'
BY DEF IInv, DaemonInv, daemonVars, Alive

--------------------------------------------------------------------------------
(* The steps of a client and its handler.                                  *)

LEMMA ClientStepInv ==
  ASSUME IInv, NEW c \in Clients, ClientStep(c)
  PROVE  TypeOK' /\ CallInv'
<1> USE DEF IInv, Becomes, connectionVars, daemonVars, Ended, Undelivered
<1>1. CASE Invoke(c)
  <2>1. TypeOK'
    BY <1>1 DEF TypeOK, Invoke
  <2>2. CallInv'
    BY <1>1 DEF TypeOK, CallInv, Invoke
  <2> QED
    BY <2>1, <2>2
<1>2. CASE CannotConnect(c)
  BY <1>2 DEF TypeOK, CallInv, CannotConnect
<1>3. CASE Connect(c)
  BY <1>3 DEF TypeOK, CallInv, Connect
<1>4. CASE Write(c)
  BY <1>4 DEF TypeOK, CallInv, Write
<1>5. CASE Receive(c)
  BY <1>5 DEF TypeOK, CallInv, Receive
<1>6. CASE Interrupt(c)
  BY <1>6 DEF TypeOK, CallInv, Interrupt
<1> QED
  BY <1>1, <1>2, <1>3, <1>4, <1>5, <1>6 DEF ClientStep

\* A command is executed on its way from the socket to the reply, once.
LEMMA ExecuteOnce ==
  ASSUME IInv, NEW c \in Clients, handler[c] \in Serving \ {"reply"},
         Execute(c), GoTo(c, "reply"), UNCHANGED <<call, request, answer>>
  PROVE  /\ executed' \in [Clients -> Nat] /\ handler' \in [Clients -> {"none", "backlog", "reading"} \cup Serving]
         /\ CallInv'
<1> USE DEF IInv
<1>1. executed[c] = 0
  BY DEF CallInv
<1>2. executed' = [executed EXCEPT ![c] = 1] /\ executed' \in [Clients -> Nat]
  BY <1>1 DEF Execute, TypeOK
<1>3. handler' = [handler EXCEPT ![c] = "reply"] /\ handler' \in [Clients -> {"none", "backlog", "reading"} \cup Serving]
  BY DEF GoTo, TypeOK, Serving
<1>4. call[c] \notin Undelivered \cup {"connected"} /\ c \notin request
  BY DEF CallInv, Serving
<1> QED
  BY <1>2, <1>3, <1>4 DEF CallInv, TypeOK, Serving, Undelivered

LEMMA HandlerInv ==
  ASSUME IInv, NEW c \in Clients, Handler(c)
  PROVE  TypeOK' /\ CallInv'
<1> USE DEF IInv, daemonVars
<1>1. CASE Accept(c)
  BY <1>1 DEF TypeOK, CallInv, Accept, GoTo, Serving, Undelivered
<1>2. CASE Read(c)
  BY <1>2 DEF TypeOK, CallInv, Read, GoTo, Serving, Undelivered
<1>3. CASE HangUp(c)
  BY <1>3, CloseKeepsCalls, CloseKeepsTypes DEF TypeOK, HangUp
<1>4. CASE Dispatch(c)
  <2>1. lock' \in [Daemons -> Seq(Entry)]
    <3>1. peer[c] \in Daemons
      BY <1>4 DEF PeerInv, Dispatch
    <3> QED
      BY <1>4, <3>1, RequestKeepsTypes DEF TypeOK, Dispatch, Entry
  <2>2. PICK step \in Serving \ {"dispatch", "reply"} : GoTo(c, step)
    BY <1>4 DEF Dispatch, Serving
  <2>3. TypeOK'
    BY <1>4, <2>1, <2>2 DEF TypeOK, Dispatch, Entry, GoTo
  <2>4. CallInv'
    BY <1>4, <2>2 DEF TypeOK, CallInv, Dispatch, GoTo, Serving, Undelivered
  <2> QED
    BY <2>3, <2>4
<1>5. CASE UnderLock(c) \/ Borrow(c)
  <2>1. lock' \in [Daemons -> Seq(Entry)]
    <3>1. peer[c] \in Daemons
      BY <1>5 DEF PeerInv, UnderLock, Borrow
    <3> QED
      BY <1>5, <3>1, ReleaseKeepsTypes DEF UnderLock, Borrow
  <2>2. CASE UnderLock(c)
    <3>1. handler[c] \in Serving \ {"reply"}
      BY <2>2 DEF UnderLock, Serving
    <3> QED
      BY <2>1, <2>2, <3>1, ExecuteOnce DEF TypeOK, UnderLock, Entry
  <2>3. CASE Borrow(c)
    <3>1. TypeOK'
      BY <2>1, <2>3 DEF TypeOK, Borrow, Entry, GoTo, Serving
    <3>2. CallInv'
      BY <2>3 DEF TypeOK, CallInv, Borrow, GoTo, Serving, Undelivered
    <3> QED
      BY <3>1, <3>2
  <2> QED
    BY <1>5, <2>2, <2>3
<1>6. CASE Work(c)
  <2>1. handler[c] \in Serving \ {"reply"}
    BY <1>6 DEF Work, Serving
  <2> QED
    BY <1>6, <2>1, ExecuteOnce DEF TypeOK, Work
<1>7. CASE Reply(c)
  BY <1>7 DEF TypeOK, CallInv, Reply, GoTo, Serving, Undelivered
<1> QED
  BY <1>1, <1>2, <1>3, <1>4, <1>5, <1>6, <1>7 DEF Handler

--------------------------------------------------------------------------------
(* The steps of a daemon.                                                  *)

\* A daemon's steps leave calls alone, or drop its end of connections.
LEMMA DaemonStepKeepsCalls ==
  ASSUME IInv, NEW d \in Daemons, DaemonStep(d)
  PROVE  CallInv' /\ PeerInv'
<1> USE DEF IInv
<1>1. CASE UNCHANGED <<call, connectionVars>>
  BY <1>1 DEF CallInv, PeerInv, connectionVars
<1>2. CASE UNCHANGED call /\ \E who \in SUBSET Clients : Close(who)
  BY <1>2, CloseKeepsCalls
<1>3. Of(d) \in SUBSET Clients /\ {c \in Of(d) : handler[c] = "backlog"} \in SUBSET Clients
  BY DEF Of
<1>4. CASE \/ Launch(d) \/ Check(d) \/ Remove(d) \/ Bind(d) \/ Stop(d) \/ Signal(d)
           \/ Unlink(d) \/ Return(d)
  BY <1>4, <1>1 DEF Launch, Check, Remove, Bind, Stop, Signal, Unlink, Return, connectionVars
<1>5. CASE Chmod(d) \/ LoopEnds(d) \/ Exit(d) \/ Crash(d)
  BY <1>5, <1>1, <1>2, <1>3 DEF Chmod, LoopEnds, Exit, Crash
<1> QED
  BY <1>4, <1>5 DEF DaemonStep

LEMMA DaemonStepTypes ==
  ASSUME TypeOK, NEW d \in Daemons, DaemonStep(d)
  PROVE  TypeOK'
<1> USE DEF TypeOK, MainBecomes, LoopBecomes, connectionVars, Starting, Fault, NoFault
<1>1. Of(d) \in SUBSET Clients /\ {c \in Of(d) : handler[c] = "backlog"} \in SUBSET Clients
  BY DEF Of
<1>2. CASE Launch(d)
  BY <1>2 DEF Launch
<1>3. CASE Check(d) \/ Remove(d) \/ Bind(d) \/ Unlink(d) \/ Return(d)
  BY <1>3 DEF Check, Remove, Bind, Unlink, Return
<1>4. CASE Chmod(d)
  BY <1>4, <1>1, CloseKeepsTypes DEF Chmod
<1>5. CASE LoopEnds(d)
  BY <1>5, <1>1, CloseKeepsTypes DEF LoopEnds
<1>6. CASE Exit(d) \/ Crash(d)
  <2>1. lock' \in [Daemons -> Seq(Entry)]
    <3>1. lock \in [Daemons -> Seq(Entry)]
      BY DEF Entry
    <3>2. <<>> \in Seq(Entry)
      OBVIOUS
    <3> QED
      BY <1>6, <3>1, <3>2 DEF Exit, Crash
  <2> QED
    BY <1>6, <1>1, <2>1, CloseKeepsTypes DEF Exit, Crash, Entry
<1>7. CASE Stop(d)
  BY <1>7, RequestKeepsTypes DEF Stop, Entry
<1>8. CASE Signal(d)
  BY <1>8, ReleaseKeepsTypes DEF Signal, Entry
<1> QED
  BY <1>2, <1>3, <1>4, <1>5, <1>6, <1>7, <1>8 DEF DaemonStep

LEMMA DaemonStepInv ==
  ASSUME IInv, NEW d \in Daemons, DaemonStep(d)
  PROVE  DaemonInv'
<1> USE DaemonAssumption DEF IInv, TypeOK, DaemonInv, Alive, MainBecomes, LoopBecomes, Fault, NoFault
<1>1. CASE Launch(d)
  BY <1>1 DEF Launch
<1>2. CASE Check(d)
  BY <1>2 DEF Check
<1>3. CASE Remove(d)
  BY <1>3 DEF Remove
<1>4. CASE Bind(d)
  BY <1>4 DEF Bind
<1>5. CASE Chmod(d)
  BY <1>5 DEF Chmod
<1>6. CASE Stop(d)
  BY <1>6 DEF Stop
<1>7. CASE LoopEnds(d)
  BY <1>7 DEF LoopEnds
<1>8. CASE Unlink(d)
  BY <1>8 DEF Unlink
<1>9. CASE Exit(d)
  BY <1>9 DEF Exit
<1>10. CASE Crash(d)
  BY <1>10 DEF Crash
<1>11. CASE Signal(d) \/ Return(d)
  BY <1>11 DEF Signal, Return
<1> QED
  BY <1>1, <1>2, <1>3, <1>4, <1>5, <1>6, <1>7, <1>8, <1>9, <1>10, <1>11 DEF DaemonStep

--------------------------------------------------------------------------------

LEMMA NextIInv ==
  ASSUME IInv, [Next]_vars
  PROVE  IInv'
<1>1. CASE \E c \in Clients : ClientStep(c) \/ Handler(c)
  BY <1>1, ClientStepInv, HandlerInv, ClientKeepsPeers, ClientKeepsDaemons, DaemonsKeepInv DEF IInv
<1>2. CASE \E d \in Daemons : DaemonStep(d)
  BY <1>2, DaemonStepKeepsCalls, DaemonStepTypes, DaemonStepInv DEF IInv
<1>3. CASE UNCHANGED vars
  BY <1>3 DEF IInv, TypeOK, DaemonInv, CallInv, PeerInv, vars, daemonVars, connectionVars, Alive
<1> QED
  BY <1>1, <1>2, <1>3 DEF Next

\* The inductive invariant holds throughout.
LEMMA Invariant == Spec => []IInv
BY InitIInv, NextIInv, PTL DEF Spec

\* A client's report is what happened to its command: an answered one was
\* executed exactly once, one that could not be delivered was not, and none is
\* executed twice.
THEOREM ReportsAreTrue == Spec => []OutcomeIsTrue
<1>1. IInv => OutcomeIsTrue
  BY DEF IInv, CallInv, OutcomeIsTrue, Undelivered
<1> QED
  BY <1>1, Invariant, PTL

\* A daemon that has the base directory to itself starts, unless an operation of
\* its own on the socket file fails, and stays reachable.
THEOREM AloneIsServed == Spec => AloneServes
<1>1. IInv => \A d \in Daemons : loop[d] = "accepting" /\ d \notin shared => path = d
  BY DEF IInv, DaemonInv
<1>2. ASSUME IInv, [Next]_vars, NEW d \in Daemons, main'[d] = "failed", main[d] # "failed"
      PROVE  d \in shared \cup faulty'
  <2>1. PICK e \in Daemons : DaemonStep(e)
    BY <1>2, ClientKeepsDaemons DEF Next, vars, daemonVars
  <2>2. Bind(d) \/ Chmod(d)
    BY <1>2, <2>1 DEF IInv, TypeOK, DaemonStep, Launch, Check, Remove, Bind, Chmod, Stop,
         Signal, LoopEnds, Unlink, Return, Exit, Crash, MainBecomes
  <2> QED
    BY <1>2, <2>2, DaemonAssumption DEF IInv, TypeOK, DaemonInv, Bind, Chmod, MainBecomes, Fault, NoFault
<1>3. IInv /\ [Next]_vars
        => [\A d \in Daemons : main'[d] = "failed" /\ main[d] # "failed" => d \in shared \cup faulty']_vars
  BY <1>2
<1> QED
  BY <1>1, <1>3, Invariant, PTL DEF Spec, AloneServes

================================================================================
