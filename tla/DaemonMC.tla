-------------------------------- MODULE DaemonMC --------------------------------
(***************************************************************************)
(* A small instance of Daemon.  All four processes at once are too many    *)
(* states for the liveness properties, so the second daemon and the second *)
(* client take turns: two daemons compete for the socket before one        *)
(* client, and two clients for the lock of one daemon.                     *)
(***************************************************************************)

EXTENDS Daemon

CONSTANTS d1, d2, c1, c2

\* The second client starts calling only while the second daemon does not run,
\* and that one does not start any more afterwards.  Neither step is one that
\* fairness asks for.
MCNext == Next /\ (call'[c2] = "idle" \/ main'[d2] \in {"down", "failed"})

MCSpec == Init /\ [][MCNext]_vars /\ Fairness

================================================================================
