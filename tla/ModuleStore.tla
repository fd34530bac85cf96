------------------------------ MODULE ModuleStore ------------------------------
(***************************************************************************)
(* What installing a module promises to a client of the daemon, with no    *)
(* file, lock or log in sight: a registry that maps each module id to the  *)
(* package it was installed from.  An installation either registers its    *)
(* module, once and for good, or leaves the registry alone; a client that  *)
(* was told "ok" was registered; and no crash takes a registration back.   *)
(* A client may be told "failed" although its module was registered: the   *)
(* log may hold a record whose write was reported as an error.             *)
(* Install.tla is shown to implement this specification.                   *)
(***************************************************************************)

CONSTANTS
  Clients,    \* whoever sends module:install requests
  Modules,    \* module ids (name@version)
  Packages,   \* package revisions
  IdOf,       \* the module id each package declares, or None
  None

VARIABLES
  phase,      \* where each client's request stands
  registry    \* the package each module was installed from, or None

vars == <<phase, registry>>

Phases == {"idle", "pending", "registered", "ok", "failed"}

TypeOK ==
  /\ phase \in [Clients -> Phases]
  /\ registry \in [Modules -> Packages \cup {None}]

Init ==
  /\ phase = [c \in Clients |-> "idle"]
  /\ registry = [m \in Modules |-> None]

Ask(c) ==
  /\ phase[c] \in {"idle", "ok", "failed"}
  /\ phase' = [phase EXCEPT ![c] = "pending"]
  /\ UNCHANGED registry

\* The one step that changes the registry: only a free id, only to a package
\* that declares that id.
Register(c) ==
  /\ phase[c] = "pending"
  /\ \E p \in Packages :
       /\ IdOf[p] \in Modules
       /\ registry[IdOf[p]] = None
       /\ registry' = [registry EXCEPT ![IdOf[p]] = p]
  /\ \E outcome \in {"registered", "failed"} :
       phase' = [phase EXCEPT ![c] = outcome]

Refuse(c) ==
  /\ phase[c] = "pending"
  /\ phase' = [phase EXCEPT ![c] = "failed"]
  /\ UNCHANGED registry

Confirm(c) ==
  /\ phase[c] = "registered"
  /\ phase' = [phase EXCEPT ![c] = "ok"]
  /\ UNCHANGED registry

\* Every request in progress is lost; the registry is not.
Crash ==
  /\ phase' = [c \in Clients |-> "idle"]
  /\ UNCHANGED registry

Next ==
  \/ \E c \in Clients : Ask(c) \/ Register(c) \/ Refuse(c) \/ Confirm(c)
  \/ Crash

Spec == Init /\ [][Next]_vars

================================================================================
