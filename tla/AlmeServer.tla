------------------------------- MODULE AlmeServer -------------------------------
(***************************************************************************)
(* The management server of the daemon (arcella/src/alme/): the accept     *)
(* loop on a Unix socket, one handler task per connection, and the         *)
(* shutdown that main.rs starts at ctrl-c.                                 *)
(*                                                                         *)
(* Kind says what the handler makes of a line: a well-formed request, one  *)
(* it rejects (not JSON, or over MAX_REQUEST_LENGTH), a blank one, or one  *)
(* that is not UTF-8, which read_line fails on.  A line the client does    *)
(* not finish before it hangs up is read as a line of one of these kinds.  *)
(* A response is represented by the line it answers.                       *)
(***************************************************************************)

EXTENDS Naturals, SequencesExt

CONSTANTS
  Conns,      \* connections, each used again once it is closed
  Lines,      \* lines a client may send
  Kind,       \* [Lines -> Kinds]
  MaxLines,   \* [Conns -> Nat]: bounds the lines sent over a connection
  NoLine

Kinds == {"command", "rejected", "blank", "garbled"}

ASSUME LinesAssumption ==
  /\ Kind \in [Lines -> Kinds]
  /\ NoLine \notin Lines
  /\ MaxLines \in [Conns -> Nat]

VARIABLES
  main,      \* main(): "down", "up", "stopping" once the shutdown is sent, "exited"
  loop,      \* run_server_loop and the removal of the socket file after it
  file,      \* there is a file at socket_path
  conn,      \* where each connection's handler is
  signal,    \* handlers whose shutdown_rx holds the shutdown message
  line,      \* the line a handler is serving
  client,    \* the client's end: "open", "stalled" (does not read), "gone"
  unread,    \* lines in the socket, not yet read by the handler
  (************************ history, per connection *************************)
  sent,      \* lines the client has sent
  executed,  \* lines dispatched to the runtime
  replies    \* responses delivered to the client

serverVars == <<main, loop, file>>
historyVars == <<sent, executed, replies>>
vars == <<serverVars, conn, signal, line, client, unread, historyVars>>

Handling == {"reading", "dispatch", "reply"}

TypeOK ==
  /\ main \in {"down", "up", "stopping", "exited"}
  /\ loop \in {"none", "accepting", "unlinking", "ended", "leftover"}
  /\ file \in BOOLEAN
  /\ conn \in [Conns -> {"closed", "backlog"} \cup Handling]
  /\ signal \in SUBSET Conns
  /\ line \in [Conns -> Lines \cup {NoLine}]
  /\ client \in [Conns -> {"open", "stalled", "gone"}]
  /\ \A h \in {unread, sent, executed, replies} : h \in [Conns -> Seq(Lines)]

Empty == [c \in Conns |-> <<>>]

Init ==
  /\ main = "down" /\ loop = "none" /\ file = FALSE
  /\ conn = [c \in Conns |-> "closed"]
  /\ signal = {}
  /\ line = [c \in Conns |-> NoLine]
  /\ client = [c \in Conns |-> "gone"]
  /\ unread = Empty /\ sent = Empty /\ executed = Empty /\ replies = Empty

GoTo(c, step) == conn' = [conn EXCEPT ![c] = step]

\* The server's end of these connections is dropped, and what is left of them
\* is forgotten.
Close(who) ==
  LET closed(f, v) == [c \in Conns |-> IF c \in who THEN v ELSE f[c]]
  IN  /\ conn' = closed(conn, "closed")
      /\ signal' = signal \ who
      /\ line' = closed(line, NoLine)
      /\ client' = closed(client, "gone")
      /\ unread' = closed(unread, <<>>)
      /\ sent' = closed(sent, <<>>)
      /\ executed' = closed(executed, <<>>)
      /\ replies' = closed(replies, <<>>)

--------------------------------------------------------------------------------
(* The clients.                                                            *)

\* A connection to a listener that is bound waits in its backlog.
Connect(c) ==
  /\ conn[c] = "closed"
  /\ loop = "accepting" /\ file
  /\ GoTo(c, "backlog")
  /\ client' = [client EXCEPT ![c] = "open"]
  /\ UNCHANGED <<serverVars, signal, line, unread, historyVars>>

\* Lines may be pipelined: nothing makes a client wait for a response.
Send(c) ==
  /\ conn[c] # "closed" /\ client[c] # "gone"
  /\ Len(sent[c]) < MaxLines[c]
  /\ \E l \in Lines :
       /\ unread' = [unread EXCEPT ![c] = Append(@, l)]
       /\ sent' = [sent EXCEPT ![c] = Append(@, l)]
  /\ UNCHANGED <<serverVars, conn, signal, line, client, executed, replies>>

\* The client stops reading, and its socket buffer fills up.
Stall(c) ==
  /\ conn[c] # "closed" /\ client[c] = "open"
  /\ client' = [client EXCEPT ![c] = "stalled"]
  /\ UNCHANGED <<serverVars, conn, signal, line, unread, historyVars>>

HangUp(c) ==
  /\ conn[c] # "closed" /\ client[c] # "gone"
  /\ client' = [client EXCEPT ![c] = "gone"]
  /\ UNCHANGED <<serverVars, conn, signal, line, unread, historyVars>>

ClientStep(c) == Connect(c) \/ Send(c) \/ Stall(c) \/ HangUp(c)

--------------------------------------------------------------------------------
(* handle_connection.                                                      *)

\* Where reading a line of each kind takes the handler.
AfterAnsweringBlank ==
  [command |-> "dispatch", rejected |-> "reply", blank |-> "reply", garbled |-> "closed"]

AfterIgnoringLength ==
  [command |-> "dispatch", rejected |-> "dispatch", blank |-> "reading", garbled |-> "closed"]

After ==
  [command |-> "dispatch", rejected |-> "reply", blank |-> "reading", garbled |-> "closed"]

Read(c) ==
  /\ conn[c] = "reading"
  /\ unread[c] # <<>>
  /\ LET l == Head(unread[c])
         next == After[Kind[l]]
     IN  IF next = "closed" THEN Close({c})
         ELSE /\ GoTo(c, next)
              /\ line' = [line EXCEPT ![c] = IF next = "reading" THEN NoLine ELSE l]
              /\ unread' = [unread EXCEPT ![c] = Tail(@)]
              /\ UNCHANGED <<signal, client, historyVars>>
  /\ UNCHANGED serverVars

\* EOF, or the reset of a connection whose client is gone.
Eof(c) ==
  /\ conn[c] = "reading"
  /\ client[c] = "gone"
  /\ Close({c})
  /\ UNCHANGED serverVars

TimeoutWhileDispatching(c) ==
  /\ conn[c] \in {"reading", "dispatch"}
  /\ unread[c] = <<>>
  /\ Close({c})
  /\ UNCHANGED serverVars

\* No whole line arrives within MAX_READER_TIMEOUT.
Timeout(c) ==
  /\ conn[c] = "reading"
  /\ unread[c] = <<>>
  /\ Close({c})
  /\ UNCHANGED serverVars

ShutdownSeenInMessageOnly(c) == c \in signal

\* shutdown_rx.recv() returns: the message is there, or the sender has been
\* dropped, as it is right after the message is sent.
ShutdownSeen(c) == c \in signal \/ main = "stopping"

Terminate(c) ==
  /\ conn[c] = "reading"
  /\ ShutdownSeen(c)
  /\ Close({c})
  /\ UNCHANGED serverVars

DispatchClearingLine(c) ==
  /\ conn[c] = "dispatch"
  /\ executed' = [executed EXCEPT ![c] = Append(@, line[c])]
  /\ line' = [line EXCEPT ![c] = NoLine]
  /\ GoTo(c, "reply")
  /\ UNCHANGED <<serverVars, signal, client, unread, sent, replies>>

\* dispatch_command: not part of the select!, so no shutdown and no timeout
\* interrupts it.
Dispatch(c) ==
  /\ conn[c] = "dispatch"
  /\ executed' = [executed EXCEPT ![c] = Append(@, line[c])]
  /\ GoTo(c, "reply")
  /\ UNCHANGED <<serverVars, signal, line, client, unread, sent, replies>>

\* send_response, which waits while the client's buffer is full, and reports
\* success even if the client is gone.
Reply(c) ==
  /\ conn[c] = "reply"
  /\ client[c] # "stalled"
  /\ replies' = IF client[c] = "gone" THEN replies
                ELSE [replies EXCEPT ![c] = Append(@, line[c])]
  /\ line' = [line EXCEPT ![c] = NoLine]
  /\ GoTo(c, "reading")
  /\ UNCHANGED <<serverVars, signal, client, unread, sent, executed>>

Handler(c) == Read(c) \/ Eof(c) \/ Timeout(c) \/ Terminate(c) \/ Dispatch(c) \/ Reply(c)

--------------------------------------------------------------------------------
(* run_server_loop and main.                                               *)

Accept(c) ==
  /\ loop = "accepting"
  /\ conn[c] = "backlog"
  /\ GoTo(c, "reading")
  /\ signal' = signal \ {c}
  /\ UNCHANGED <<serverVars, line, client, unread, historyVars>>

\* The loop receives the shutdown, or accept fails; the listener is dropped,
\* and the connections in its backlog with it.
LoopEnds ==
  /\ loop = "accepting"
  /\ loop' = "unlinking"
  /\ Close({c \in Conns : conn[c] = "backlog"})
  /\ UNCHANGED <<main, file>>

\* The loop's task removes the socket file; an error is only logged.
Unlink ==
  /\ loop = "unlinking"
  /\ \/ loop' = "ended" /\ file' = FALSE
     \/ loop' = "leftover" /\ UNCHANGED file
  /\ UNCHANGED <<main, conn, signal, line, client, unread, historyVars>>

StartBindingFirst ==
  /\ main \in {"down", "exited"}
  /\ main' = "up" /\ loop' = "accepting" /\ file' = (~file)
  /\ UNCHANGED <<conn, signal, line, client, unread, historyVars>>

\* spawn_server: removes whatever file is at the path, left by an earlier run
\* of the daemon, and binds.  (If it cannot, the daemon does not start.)
Start ==
  /\ main \in {"down", "exited"}
  /\ main' = "up" /\ loop' = "accepting" /\ file' = TRUE
  /\ UNCHANGED <<conn, signal, line, client, unread, historyVars>>

\* ctrl-c: AlmeServerHandle::shutdown sends the message to every receiver there
\* is, drops the sender, and waits for the loop's task.
Stop ==
  /\ main = "up"
  /\ main' = "stopping"
  /\ signal' = {c \in Conns : conn[c] \in Handling}
  /\ UNCHANGED <<loop, file, conn, line, client, unread, historyVars>>

\* The process ends: the handlers, wherever they are, go with it.
Gone ==
  /\ loop' = "none"
  /\ Close(Conns)
  /\ UNCHANGED file

ExitWithoutWaiting == main = "stopping" /\ main' = "exited" /\ Gone

\* main returns once the loop's task has ended; it does not wait for handlers.
Exit ==
  /\ main = "stopping"
  /\ loop \in {"ended", "leftover"}
  /\ main' = "exited"
  /\ Gone

Crash == main \in {"up", "stopping"} /\ main' = "down" /\ Gone

--------------------------------------------------------------------------------

ServerStep == LoopEnds \/ Unlink \/ Start \/ Stop \/ Exit \/ Crash

Next == ServerStep \/ \E c \in Conns : ClientStep(c) \/ Accept(c) \/ Handler(c)

Spec == Init /\ [][Next]_vars

\* Every task that can run does, a command comes to an end, and select! leaves
\* neither of its branches aside for ever.  No client is obliged to anything,
\* and no timeout is assumed to fire.
Fairness ==
  /\ WF_vars(LoopEnds /\ main = "stopping") /\ WF_vars(Unlink)
  /\ \A c \in Conns :
       WF_vars(Read(c)) /\ WF_vars(Dispatch(c)) /\ WF_vars(Reply(c)) /\ WF_vars(Terminate(c))

FairSpec == Spec /\ Fairness

--------------------------------------------------------------------------------
(* Properties.                                                             *)

\* The lines of some kinds, in their order.
OfKinds(lines, kinds) ==
  LET upTo[n \in 0..Len(lines)] ==
        IF n = 0 THEN <<>>
        ELSE IF Kind[lines[n]] \in kinds THEN Append(upTo[n - 1], lines[n]) ELSE upTo[n - 1]
  IN  upTo[Len(lines)]

AskedIn(lines) == OfKinds(lines, {"command", "rejected"})
CommandsOf(lines) == OfKinds(lines, {"command"})

Asked(c) == AskedIn(sent[c])

\* Responses come back one for each line that is not blank and in the order of
\* the lines, however many are pipelined and whatever fails (server.rs,
\* handle_connection steps 1 to 5): a client may match them by counting.
RepliesInOrder == \A c \in Conns : IsPrefix(replies[c], Asked(c))

\* The runtime sees the well-formed requests of a connection in order and each
\* at most once, and no response to a command is sent before it is executed.
CommandsOnce ==
  \A c \in Conns :
    /\ IsPrefix(executed[c], CommandsOf(sent[c]))
    /\ IsPrefix(CommandsOf(replies[c]), executed[c])

\* The daemon hangs up on a client that is still there only when all it asked
\* has been answered, or what it sent is not text: the timeout and the limit on
\* lines never cost a client an answer.
NeverCutOff ==
  [][\A c \in Conns :
       conn[c] \in Handling /\ conn'[c] = "closed" /\ client[c] = "open"
         => \/ main = "stopping" \/ main' = "down"
            \/ replies[c] = Asked(c)
            \/ unread[c] # <<>> /\ Kind[Head(unread[c])] = "garbled"]_vars

\* Whenever the loop accepts connections, clients can reach it, even after a
\* crash that left a stale socket; and a daemon that exits in order leaves no
\* socket behind, unless removing it failed (server.rs:56-61).
SocketFollowsServer ==
  /\ [](loop = "accepting" => file)
  /\ [][main' = "exited" /\ main # "exited" => (file' => loop = "leftover")]_vars

\* After the shutdown is sent every handler ends by itself, even one accepted
\* after the message went out; only a client that has stopped reading can keep
\* its handler (server.rs:59-61: "notifies all active connection handlers to
\* terminate").
HandlersEnd ==
  \A c \in Conns :
    main = "stopping" ~>
      \/ main # "stopping"
      \/ conn[c] = "closed"
      \/ conn[c] = "reply" /\ client[c] = "stalled"

================================================================================
