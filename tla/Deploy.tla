--------------------------------- MODULE Deploy --------------------------------
(***************************************************************************)
(* Deployment requests beside installations: ArcellaRuntime::              *)
(* deploy_module_from_path (arcella-core/src/runtime/mod.rs) and           *)
(* runtime/deploy.rs.  A deployment takes no lock: it works on a snapshot  *)
(* of the state taken when it starts, while installations, crashes and     *)
(* restarts go on.  Nothing is recorded: the code answers with placeholder *)
(* ids and applies no DeployModule mutation.                               *)
(*                                                                         *)
(* A deployment spec is abstract: the module id it refers to, or None for  *)
(* a file that is no valid spec.                                           *)
(***************************************************************************)

EXTENDS Install

CONSTANTS Deployers  \* handler tasks that serve module:deploy requests

VARIABLES
  dpc,         \* where each task is in deploy_module_from_path
  spec,        \* the spec now at the path the request names
  dsnapshot,   \* the ids of the state snapshot
  checked,     \* the module id that was looked up in the snapshot
  dstaged,     \* the spec in the staging directory
  known,       \* history: the installed ids when the request was sent
  edited       \* history: the file was rewritten between the look-up and the copy

deployVars == <<dpc, spec, dsnapshot, checked, dstaged, known, edited>>
allVars == <<vars, deployVars>>

DResting == {"idle", "ok", "notinstalled", "failed"}
DInFlight == {"snapshot", "check", "stage", "parse"}

Specs == Modules \cup {None}

DTypeOK ==
  /\ TypeOK
  /\ dpc \in [Deployers -> DResting \cup DInFlight]
  /\ spec \in [Deployers -> Specs]
  /\ dsnapshot \in [Deployers -> SUBSET Modules]
  /\ checked \in [Deployers -> Specs]
  /\ dstaged \in [Deployers -> Specs]
  /\ known \in [Deployers -> SUBSET Modules]
  /\ edited \in [Deployers -> BOOLEAN]

DInit ==
  /\ Init
  /\ dpc = [d \in Deployers |-> "idle"]
  /\ spec = [d \in Deployers |-> None]
  /\ dsnapshot = [d \in Deployers |-> {}]
  /\ checked = [d \in Deployers |-> None]
  /\ dstaged = [d \in Deployers |-> None]
  /\ known = [d \in Deployers |-> {}]
  /\ edited = [d \in Deployers |-> FALSE]

DGoTo(d, step) == dpc' = [dpc EXCEPT ![d] = step]

\* A handler task starts on a file whose name is a valid deployment id.
DRequest(d) ==
  /\ running
  /\ dpc[d] \in DResting
  /\ DGoTo(d, "snapshot")
  /\ \E s \in Specs : spec' = [spec EXCEPT ![d] = s]
  /\ known' = [known EXCEPT ![d] = Keys(installed)]
  /\ checked' = [checked EXCEPT ![d] = None]
  /\ dstaged' = [dstaged EXCEPT ![d] = None]
  /\ edited' = [edited EXCEPT ![d] = FALSE]
  /\ UNCHANGED <<vars, dsnapshot>>

\* The user rewrites the file while the request runs.
DEdit(d) ==
  /\ dpc[d] \in DInFlight
  /\ \E s \in Specs : spec' = [spec EXCEPT ![d] = s]
  /\ edited' = [edited EXCEPT ![d] = @ \/ dpc[d] = "stage"]
  /\ UNCHANGED <<vars, dpc, dsnapshot, checked, dstaged, known>>

\* The snapshot is not taken: the task goes on with an old one.
SnapshotKeptFromBefore(d) ==
  /\ dpc[d] = "snapshot"
  /\ DGoTo(d, "check")
  /\ UNCHANGED <<vars, spec, dsnapshot, checked, dstaged, known, edited>>

\* validate_deploy_package, then a clone of the state.
DSnapshot(d) ==
  /\ dpc[d] = "snapshot"
  /\ dsnapshot' = [dsnapshot EXCEPT ![d] = Keys(installed)]
  /\ DGoTo(d, "check")
  /\ UNCHANGED <<vars, spec, checked, dstaged, known, edited>>

FoundInStateOrOnDisk(d) == spec[d] \in dsnapshot[d] \cup Keys(modulesDir)

\* The spec is parsed where the user left it, and its module looked up in the
\* snapshot: in the state alone.
Found(d) == spec[d] \in dsnapshot[d]

DCheck(d) ==
  /\ dpc[d] = "check"
  /\ spec[d] # None
  /\ checked' = [checked EXCEPT ![d] = spec[d]]
  /\ DGoTo(d, IF Found(d) THEN "stage" ELSE "notinstalled")
  /\ UNCHANGED <<vars, spec, dsnapshot, dstaged, known, edited>>

\* The file is copied into a fresh staging directory ...
DStage(d) ==
  /\ dpc[d] = "stage"
  /\ dstaged' = [dstaged EXCEPT ![d] = spec[d]]
  /\ DGoTo(d, "parse")
  /\ UNCHANGED <<vars, spec, dsnapshot, checked, known, edited>>

\* ... and parsed again there.  The staging directory stays behind.
DParse(d) ==
  /\ dpc[d] = "parse"
  /\ dstaged[d] # None
  /\ DGoTo(d, "ok")
  /\ UNCHANGED <<vars, spec, dsnapshot, checked, dstaged, known, edited>>

\* The file is gone or no spec, or a file operation fails.
DFails(d) ==
  /\ dpc[d] \in DInFlight
  /\ DGoTo(d, "failed")
  /\ UNCHANGED <<vars, spec, dsnapshot, checked, dstaged, known, edited>>

DProgress(d) == DSnapshot(d) \/ DCheck(d) \/ DStage(d) \/ DParse(d) \/ DFails(d)

DeployStep == \E d \in Deployers : DRequest(d) \/ DEdit(d) \/ DProgress(d)

DeployersLost ==
  /\ dpc' = [d \in Deployers |-> "idle"]
  /\ spec' = [d \in Deployers |-> None]
  /\ dsnapshot' = [d \in Deployers |-> {}]
  /\ checked' = [d \in Deployers |-> None]
  /\ dstaged' = [d \in Deployers |-> None]
  /\ known' = [d \in Deployers |-> {}]
  /\ edited' = [d \in Deployers |-> FALSE]

DNext ==
  \/ DeployStep
  \/ InstallStep /\ UNCHANGED deployVars
  \/ (ProcessCrash \/ PowerLoss) /\ DeployersLost
  \/ Restart /\ UNCHANGED deployVars

DSpec == DInit /\ [][DNext]_allVars

DFairSpec ==
  /\ DSpec
  /\ Fairness
  /\ \A d \in Deployers : WF_allVars(DProgress(d))

--------------------------------------------------------------------------------

\* Unless the user rewrites the file between the look-up and the copy, the spec
\* a deployment is accepted with, which is the staged copy that is parsed again,
\* names a module that is registered and whose files would survive a power loss:
\* the snapshot it was looked up in may be old by then, and no lock is held.
AcceptedIsInstalled ==
  \A d \in Deployers :
    dpc[d] = "ok" /\ ~edited[d] =>
      /\ dstaged[d] \in Keys(installed)
      /\ Complete(dstaged[d]) /\ Durable(dstaged[d])

\* A module whose installation was acknowledged before the deployment request
\* was sent is never reported as not installed.
AcknowledgedIsDeployable ==
  \A d \in Deployers : dpc[d] = "notinstalled" => checked[d] \notin known[d]

\* Every request is answered, unless the daemon dies first: an installation
\* waiting for the lock of its module id and a deployment alike.
EveryRequestEnds ==
  /\ \A i \in Installers : pc[i] \in InFlight ~> pc[i] \in Resting
  /\ \A d \in Deployers : dpc[d] \in DInFlight ~> dpc[d] \in DResting

--------------------------------------------------------------------------------
(* A claim of deploy.rs that the code does not meet.                       *)

\* deploy.rs:126-128: the deployment file is staged and its contents are
\* validated, which "also ensures that the referenced module is already
\* installed (in state or on disk)".  The copy that is staged, and accepted, is
\* not the text that was looked up.
AcceptedSpecIsInstalled ==
  \A d \in Deployers : dpc[d] = "ok" => dstaged[d] \in Keys(installed) \cup Keys(modulesDir)

================================================================================
