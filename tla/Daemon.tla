--------------------------------- MODULE Daemon ---------------------------------
(***************************************************************************)
(* Daemons that share one base directory, and the command line clients     *)
(* that look for them at the socket file in it.                            *)
(*                                                                         *)
(* AlmeServer opens up one management server, with any client.  Here a     *)
(* server is as coarse as a client can tell, and the starts and stops of   *)
(* several processes (main.rs, spawn_server) interleave step by step:      *)
(* nothing in the code keeps a second daemon from starting.                *)
(*                                                                         *)
(* A listener is named by its daemon, which has at most one.  A file may   *)
(* outlive its listener: path is then the name of a daemon that does not   *)
(* listen.                                                                 *)
(***************************************************************************)

EXTENDS Naturals, Sequences

CONSTANTS
  Daemons,    \* processes that run the daemon, one after the other
  Clients,    \* processes that run the command line client, likewise
  Nobody

ASSUME DaemonAssumption ==
  /\ Nobody \notin Daemons
  /\ Daemons \cap Clients = {}

VARIABLES
  main,      \* where main() of each daemon is
  loop,      \* run_server_loop and the removal of the socket file after it
  path,      \* the daemon that created the socket file, or Nobody
  lock,      \* who holds or waits for each daemon's RwLock, first come first
  call,      \* where each client is, or how its last call ended
  peer,      \* the daemon a client is connected to
  handler,   \* that daemon's end of the connection
  request,   \* clients whose request is in the socket, unread
  answer,    \* clients whose response is in the socket, unread
  (******************************** history ********************************)
  executed,  \* how often a client's command has been dispatched
  shared,    \* daemons another was running beside, since they started
  faulty     \* daemons of whose own operations on the socket file one failed

daemonVars == <<main, loop, path, shared, faulty>>
connectionVars == <<peer, handler, request, answer, executed>>
vars == <<daemonVars, lock, call, connectionVars>>

Starting == {"checking", "removing", "binding", "chmod"}
Serving == {"dispatch", "locking", "borrowing", "working", "reply"}
Ended == {"notfound", "refused", "broken", "closed", "answered", "killed"}

TypeOK ==
  /\ main \in [Daemons -> {"down", "failed", "up", "locking", "stopping", "returned"} \cup Starting]
  /\ loop \in [Daemons -> {"none", "accepting", "unlinking", "ended"}]
  /\ path \in Daemons \cup {Nobody}
  /\ lock \in [Daemons -> Seq([who : Daemons \cup Clients, mode : {"read", "write"}])]
  /\ call \in [Clients -> {"idle", "connecting", "connected", "waiting"} \cup Ended]
  /\ peer \in [Clients -> Daemons \cup {Nobody}]
  /\ handler \in [Clients -> {"none", "backlog", "reading"} \cup Serving]
  /\ request \in SUBSET Clients
  /\ answer \in SUBSET Clients
  /\ executed \in [Clients -> Nat]
  /\ shared \in SUBSET Daemons
  /\ faulty \in SUBSET Daemons

Init ==
  /\ main = [d \in Daemons |-> "down"]
  /\ loop = [d \in Daemons |-> "none"]
  /\ path = Nobody
  /\ lock = [d \in Daemons |-> <<>>]
  /\ call = [c \in Clients |-> "idle"]
  /\ peer = [c \in Clients |-> Nobody]
  /\ handler = [c \in Clients |-> "none"]
  /\ request = {} /\ answer = {}
  /\ executed = [c \in Clients |-> 0]
  /\ shared = {} /\ faulty = {}

Alive(d) == main[d] \notin {"down", "failed"}

Listening(d) == main[d] = "chmod" \/ loop[d] = "accepting"

\* The daemon's end of these connections is dropped.
Close(who) ==
  /\ handler' = [c \in Clients |-> IF c \in who THEN "none" ELSE handler[c]]
  /\ peer' = [c \in Clients |-> IF c \in who THEN Nobody ELSE peer[c]]
  /\ request' = request \ who
  /\ UNCHANGED <<answer, executed>>

Of(d) == {c \in Clients : peer[c] = d}

Request(d, who, mode) == lock' = [lock EXCEPT ![d] = Append(@, [who |-> who, mode |-> mode])]

\* A reader waits for the writers before it, a writer for all before it.
Granted(d, who, i) ==
  /\ i \in DOMAIN lock[d]
  /\ lock[d][i].who = who
  /\ \A j \in 1..(i - 1) : lock[d][j].mode = "read" /\ lock[d][i].mode = "read"

Release(d, i) ==
  lock' = [lock EXCEPT ![d] = SubSeq(@, 1, i - 1) \o SubSeq(@, i + 1, Len(@))]

--------------------------------------------------------------------------------
(* The client: main, handle_command and exec_alme_cmd run send_alme_request *)
(* once, without a time limit.                                             *)

Becomes(c, state) == call' = [call EXCEPT ![c] = state]

Invoke(c) ==
  /\ call[c] \in Ended \cup {"idle"}
  /\ handler[c] = "none"
  /\ Becomes(c, "connecting")
  /\ answer' = answer \ {c}
  /\ executed' = [executed EXCEPT ![c] = 0]
  /\ UNCHANGED <<daemonVars, lock, peer, handler, request>>

\* There is no socket file, or nobody listens on it any more.
CannotConnect(c) ==
  /\ call[c] = "connecting"
  /\ \/ path = Nobody /\ Becomes(c, "notfound")
     \/ path # Nobody /\ ~Listening(path) /\ Becomes(c, "refused")
  /\ UNCHANGED <<daemonVars, lock, connectionVars>>

Connect(c) ==
  /\ call[c] = "connecting"
  /\ path # Nobody /\ Listening(path)
  /\ Becomes(c, "connected")
  /\ peer' = [peer EXCEPT ![c] = path]
  /\ handler' = [handler EXCEPT ![c] = "backlog"]
  /\ UNCHANGED <<daemonVars, lock, request, answer, executed>>

Write(c) ==
  /\ call[c] = "connected"
  /\ Becomes(c, IF handler[c] = "none" THEN "broken" ELSE "waiting")
  /\ request' = IF handler[c] = "none" THEN request ELSE request \cup {c}
  /\ UNCHANGED <<daemonVars, lock, peer, handler, answer, executed>>

\* read_line returns the response, or nothing at all.
Receive(c) ==
  /\ call[c] = "waiting"
  /\ \/ c \in answer /\ Becomes(c, "answered")
     \/ c \notin answer /\ handler[c] = "none" /\ Becomes(c, "closed")
  /\ UNCHANGED <<daemonVars, lock, connectionVars>>

\* The user interrupts the client, which may have written the request up to the
\* end of the line: the daemon takes that for a line.
Interrupt(c) ==
  /\ call[c] \in {"connecting", "connected", "waiting"}
  /\ Becomes(c, "killed")
  /\ \/ UNCHANGED request
     \/ /\ call[c] = "connected" /\ handler[c] # "none"
        /\ request' = request \cup {c}
  /\ UNCHANGED <<daemonVars, lock, peer, handler, answer, executed>>

ClientStep(c) ==
  Invoke(c) \/ CannotConnect(c) \/ Connect(c) \/ Write(c) \/ Receive(c) \/ Interrupt(c)

--------------------------------------------------------------------------------
(* handle_connection, for the one request such a client sends.             *)

GoTo(c, step) == handler' = [handler EXCEPT ![c] = step]

Accept(c) ==
  /\ handler[c] = "backlog"
  /\ loop[peer[c]] = "accepting"
  /\ GoTo(c, "reading")
  /\ UNCHANGED <<daemonVars, lock, call, peer, request, answer, executed>>

ReadKeepingBuffer(c) ==
  /\ handler[c] = "reading" /\ c \in request
  /\ GoTo(c, "dispatch")
  /\ UNCHANGED <<daemonVars, lock, call, peer, request, answer, executed>>

Read(c) ==
  /\ handler[c] = "reading" /\ c \in request
  /\ GoTo(c, "dispatch")
  /\ request' = request \ {c}
  /\ UNCHANGED <<daemonVars, lock, call, peer, answer, executed>>

\* End of file, the timeout of a reader, or the shutdown signal.
HangUp(c) ==
  /\ handler[c] = "reading"
  /\ c \notin request \/ main[peer[c]] \in {"stopping", "returned"}
  /\ Close({c})
  /\ UNCHANGED <<daemonVars, lock, call>>

Execute(c) == executed' = [executed EXCEPT ![c] = @ + 1]

\* dispatch_command, for a command that does without the runtime (ping, log:tail,
\* module:list), reads it (status) or writes it (module:start, module:stop), or
\* takes what it needs from it and then works without (module:install and
\* module:deploy, through from_runtime).
Dispatch(c) ==
  /\ handler[c] = "dispatch"
  /\ \/ GoTo(c, "working") /\ UNCHANGED lock
     \/ GoTo(c, "locking") /\ \E mode \in {"read", "write"} : Request(peer[c], c, mode)
     \/ GoTo(c, "borrowing") /\ Request(peer[c], c, "read")
  /\ UNCHANGED <<daemonVars, call, peer, request, answer, executed>>

\* The guard is released at the end of the command.
UnderLock(c) ==
  /\ handler[c] = "locking"
  /\ \E i \in DOMAIN lock[peer[c]] : Granted(peer[c], c, i) /\ Release(peer[c], i)
  /\ GoTo(c, "reply")
  /\ Execute(c)
  /\ UNCHANGED <<daemonVars, call, peer, request, answer>>

BorrowAndKeep(c) ==
  /\ handler[c] = "borrowing"
  /\ \E i \in DOMAIN lock[peer[c]] : Granted(peer[c], c, i)
  /\ GoTo(c, "working")
  /\ UNCHANGED <<daemonVars, lock, call, peer, request, answer, executed>>

\* The guard is released at the end of from_runtime.
Borrow(c) ==
  /\ handler[c] = "borrowing"
  /\ \E i \in DOMAIN lock[peer[c]] : Granted(peer[c], c, i) /\ Release(peer[c], i)
  /\ GoTo(c, "working")
  /\ UNCHANGED <<daemonVars, call, peer, request, answer, executed>>

\* What a command does without the lock: for module:install and module:deploy,
\* what Install and Deploy describe.
Work(c) ==
  /\ handler[c] = "working"
  /\ Execute(c)
  /\ GoTo(c, "reply")
  /\ UNCHANGED <<daemonVars, lock, call, peer, request, answer>>

Reply(c) ==
  /\ handler[c] = "reply"
  /\ answer' = IF call[c] = "waiting" THEN answer \cup {c} ELSE answer
  /\ GoTo(c, "reading")
  /\ UNCHANGED <<daemonVars, lock, call, peer, request, executed>>

Handler(c) ==
  \/ Accept(c) \/ Read(c) \/ HangUp(c)
  \/ Dispatch(c) \/ UnderLock(c) \/ Borrow(c) \/ Work(c) \/ Reply(c)

--------------------------------------------------------------------------------
(* main and spawn_server.                                                  *)

MainBecomes(d, state) == main' = [main EXCEPT ![d] = state]
LoopBecomes(d, state) == loop' = [loop EXCEPT ![d] = state]

\* main loads the configuration and initializes logging, storage, cache and
\* runtime, none of which touches the socket.
Launch(d) ==
  LET others == {e \in Daemons \ {d} : Alive(e)}
  IN  /\ ~Alive(d)
      /\ MainBecomes(d, "checking")
      /\ shared' = IF others = {} THEN shared \ {d} ELSE shared \cup others \cup {d}
      /\ faulty' = faulty \ {d}
      /\ UNCHANGED <<loop, path, lock, call, connectionVars>>

CheckForListener(d) ==
  /\ main[d] = "checking"
  /\ MainBecomes(d, IF path # Nobody /\ Listening(path) THEN "removing" ELSE "binding")
  /\ UNCHANGED <<loop, path, lock, call, connectionVars, shared, faulty>>

\* An operation of the daemon on the socket file fails, not for the state the
\* file is in: no permission, no memory, no space.
Fault(d) == faulty' = faulty \cup {d}
NoFault == UNCHANGED faulty

\* socket_path.exists(), which also answers false if it cannot tell.
Check(d) ==
  /\ main[d] = "checking"
  /\ \/ MainBecomes(d, IF path = Nobody THEN "binding" ELSE "removing") /\ NoFault
     \/ path # Nobody /\ MainBecomes(d, "binding") /\ Fault(d)
  /\ UNCHANGED <<loop, path, lock, call, connectionVars, shared>>

\* Whoever's file it is by now; an error is logged and ignored.
Remove(d) ==
  /\ main[d] = "removing"
  /\ MainBecomes(d, "binding")
  /\ \/ path' = Nobody /\ NoFault
     \/ path' = path /\ Fault(d)
  /\ UNCHANGED <<loop, lock, call, connectionVars, shared>>

\* UnixListener::bind creates the file and listens, and fails if there is one.
\* Listening may fail with the file made.
Bind(d) ==
  /\ main[d] = "binding"
  /\ \/ path = Nobody /\ path' = d /\ MainBecomes(d, "chmod") /\ NoFault
     \/ path # Nobody /\ path' = path /\ MainBecomes(d, "failed") /\ NoFault
     \/ path = Nobody /\ path' \in {d, Nobody} /\ MainBecomes(d, "failed") /\ Fault(d)
  /\ UNCHANGED <<loop, lock, call, connectionVars, shared>>

\* set_permissions fails if the file is gone, or for its own reasons; the error
\* is returned, which drops the listener and leaves the file.
Chmod(d) ==
  /\ main[d] = "chmod"
  /\ \/ /\ path # Nobody /\ MainBecomes(d, "up") /\ LoopBecomes(d, "accepting")
        /\ UNCHANGED connectionVars /\ NoFault
     \/ /\ MainBecomes(d, "failed") /\ Close(Of(d)) /\ UNCHANGED loop
        /\ IF path = Nobody THEN NoFault ELSE Fault(d)
  /\ UNCHANGED <<path, lock, call, shared>>

\* ctrl-c.
Stop(d) ==
  /\ main[d] = "up"
  /\ MainBecomes(d, "locking")
  /\ Request(d, d, "write")
  /\ UNCHANGED <<loop, path, call, connectionVars, shared, faulty>>

\* The runtime's shutdown(), which does nothing yet, and then the signal.
Signal(d) ==
  /\ main[d] = "locking"
  /\ \E i \in DOMAIN lock[d] : Granted(d, d, i) /\ Release(d, i)
  /\ MainBecomes(d, "stopping")
  /\ UNCHANGED <<loop, path, call, connectionVars, shared, faulty>>

\* run_server_loop ends at the signal, or when accept fails, and drops the
\* listener and its backlog.
LoopEndsKeepingListener(d) ==
  /\ loop[d] = "accepting"
  /\ LoopBecomes(d, "unlinking")
  /\ UNCHANGED <<main, path, lock, call, connectionVars, shared, faulty>>

LoopEnds(d) ==
  /\ loop[d] = "accepting"
  /\ LoopBecomes(d, "unlinking")
  /\ Close({c \in Of(d) : handler[c] = "backlog"})
  /\ UNCHANGED <<main, path, lock, call, shared, faulty>>

\* The loop's task removes the file at the path, whoever created it; an error is
\* logged and ignored.
Unlink(d) ==
  /\ loop[d] = "unlinking"
  /\ LoopBecomes(d, "ended")
  /\ path' \in {Nobody, path}
  /\ UNCHANGED <<main, lock, call, connectionVars, shared, faulty>>

\* main waits for the loop's task and returns.
Return(d) ==
  /\ main[d] = "stopping"
  /\ loop[d] = "ended"
  /\ MainBecomes(d, "returned")
  /\ UNCHANGED <<loop, path, lock, call, connectionVars, shared, faulty>>

\* The process ends, and its handlers with it; when that is depends on what
\* they are at.
Exit(d) ==
  /\ main[d] = "returned"
  /\ MainBecomes(d, "down") /\ LoopBecomes(d, "none")
  /\ lock' = [lock EXCEPT ![d] = <<>>]
  /\ Close(Of(d))
  /\ faulty' = faulty \ {d}
  /\ UNCHANGED <<path, call, shared>>

\* Killed, interrupted before main listens for ctrl-c, or ended by an error of a
\* step of main that comes before the socket.
Crash(d) ==
  /\ Alive(d)
  /\ MainBecomes(d, "down") /\ LoopBecomes(d, "none")
  /\ lock' = [lock EXCEPT ![d] = <<>>]
  /\ Close(Of(d))
  /\ faulty' = faulty \ {d}
  /\ UNCHANGED <<path, call, shared>>

DaemonStep(d) ==
  \/ Launch(d) \/ Check(d) \/ Remove(d) \/ Bind(d) \/ Chmod(d)
  \/ Stop(d) \/ Signal(d) \/ LoopEnds(d) \/ Unlink(d) \/ Return(d) \/ Exit(d) \/ Crash(d)

--------------------------------------------------------------------------------

Next ==
  \/ \E c \in Clients : ClientStep(c) \/ Handler(c)
  \/ \E d \in Daemons : DaemonStep(d)

Spec == Init /\ [][Next]_vars

\* A client that was started runs, and a task of a daemon that can run does.
\* Nobody is obliged to start or stop a daemon, and nothing says that the work of
\* a command ends.
Fairness ==
  /\ \A c \in Clients :
       /\ WF_vars(CannotConnect(c) \/ Connect(c)) /\ WF_vars(Write(c)) /\ WF_vars(Receive(c))
       /\ WF_vars(Accept(c)) /\ WF_vars(Read(c)) /\ WF_vars(Dispatch(c))
       /\ WF_vars(UnderLock(c)) /\ WF_vars(Borrow(c)) /\ WF_vars(Reply(c))
  /\ \A d \in Daemons :
       /\ WF_vars(Chmod(d)) /\ WF_vars(Signal(d))
       /\ WF_vars(LoopEnds(d) /\ main[d] = "stopping")
       /\ WF_vars(Unlink(d)) /\ WF_vars(Return(d))

FairSpec == Spec /\ Fairness

--------------------------------------------------------------------------------
(* Properties.                                                             *)

\* What the client reports is what happened, whichever daemons started or
\* stopped meanwhile: an answered command was executed exactly once, one that
\* could not be delivered was not, and none is executed twice, however the call
\* ended (send_alme_request sends once).
OutcomeIsTrue ==
  \A c \in Clients :
    /\ executed[c] <= 1
    /\ call[c] = "answered" => executed[c] = 1
    /\ call[c] \in {"notfound", "refused", "broken"} => executed[c] = 0

\* A daemon that has had the base directory to itself since it started comes up,
\* unless one of its own operations on the socket file fails, and is reachable as
\* long as it accepts connections: whatever its predecessors left behind, and
\* wherever they died or failed ("Automatically cleans up stale socket files on
\* startup", server.rs:23).
AloneServes ==
  /\ [](\A d \in Daemons : loop[d] = "accepting" /\ d \notin shared => path = d)
  /\ [][\A d \in Daemons :
          main'[d] = "failed" /\ main[d] # "failed" => d \in shared \cup faulty']_vars

\* A call comes to an end, with an answer or without, although the client has no
\* time limit, several daemons may take the socket from one another, and
\* commands wait for each other's locks: nothing but the work of the command
\* itself can keep the client waiting.
CallEnds ==
  \A c \in Clients : call[c] = "connecting" ~> call[c] \in Ended \/ handler[c] = "working"

\* ctrl-c stops a daemon, even if an installation in progress never ends:
\* commands hold the lock that main waits for only briefly (commands.rs, "Do the
\* heavy lifting without locking the runtime").
StopCompletes ==
  \A d \in Daemons : main[d] = "locking" ~> main[d] \in {"returned", "down"}

================================================================================
