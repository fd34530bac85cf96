-------------------------------- MODULE Install --------------------------------
(***************************************************************************)
(* The installation pipeline of the daemon: ArcellaRuntime::               *)
(* install_module_from_path (arcella-core/src/runtime/mod.rs) and the      *)
(* steps it calls (runtime/install.rs, utils/fs/mod.rs), run by several    *)
(* handler tasks at once, with I/O errors at every fallible step, process  *)
(* crashes and power losses between any two steps, and the restart that    *)
(* replays the write-ahead log.                                            *)
(*                                                                         *)
(* A package is a directory listing: which of the .wasm, .component.toml   *)
(* and .deployment.template.toml files it has, and what each holds.  IdOf  *)
(* says which module id its manifest declares (None: it does not parse).   *)
(* The files at the path of a request are the user's, who may replace any  *)
(* of them at any moment: each read of one finds any content.              *)
(*                                                                         *)
(* The disk is modelled twice over: what system calls see (the fields      *)
(* below) and how much of it fsync has made durable (synced, entries,      *)
(* linked); PowerLoss keeps the durable part and any part of the rest.     *)
(***************************************************************************)

EXTENDS FiniteSets

CONSTANTS
  Installers,  \* handler tasks that serve module:install requests
  Modules,     \* module ids (name@version)
  Files,       \* kinds of file a package may have
  Wasm,        \* the one it must have
  Contents,    \* what a file may hold
  IdOf,        \* [Packages -> Modules \cup {None}]: the id its manifest declares
  None

\* What a directory may hold of a package, and the packages: with a .wasm.
Listings == UNION {[F -> Contents] : F \in SUBSET Files}

Packages == {listing \in Listings : Wasm \in DOMAIN listing}

\* A directory under modules_dir: the package its files were copied from, the
\* files present, those fsynced, and whether the directory's own entries are.
Dirs == [pkg: Packages, files: SUBSET Files, synced: SUBSET Files, entries: BOOLEAN]

ASSUME PackagesAssumption ==
  /\ Wasm \in Files
  /\ IdOf \in [Packages -> Modules \cup {None}]

ASSUME NoneAssumption ==
  /\ None \notin Modules
  /\ None \notin Listings
  /\ None \notin Dirs
  /\ None \notin Installers

VARIABLES
  (*************************** the handler tasks ****************************)
  pc,          \* where each task is in install_module_from_path
  found,       \* while staging: the files validation found at the path
  staged,      \* the staging directory of the task's request, or None
  bundle,      \* the parsed ComponentBundle: the package it was read from
  snapshot,    \* the ids of the state snapshot taken before the checks
  dest,        \* the temporary directory under modules_dir, or None
  (************************* the daemon's memory ****************************)
  running,     \* the daemon is up
  holder,      \* install_locks: who holds the lock of each module id
  installed,   \* ArcellaState.installed_modules, in memory
  (******************************* the disk *********************************)
  modulesDir,  \* the published directory of each module, or None
  linked,      \* module entries of modules_dir that are durable
  wal          \* what replaying arcella.wal.jsonl yields

taskVars == <<pc, found, staged, bundle, snapshot, dest>>
diskVars == <<modulesDir, linked, wal>>
vars == <<taskVars, running, holder, installed, diskVars>>

Resting == {"idle", "ok", "failed"}
\* Between taking the per-id lock and returning.
Locked == {"snapshot", "check", "mkdest", "copy", "sync", "syncdest", "rename",
           "syncmodules", "record", "cleanup"}
InFlight == {"validate", "stage", "parse", "lock"} \cup Locked

IdTable == [Modules -> Packages \cup {None}]

TypeOK ==
  /\ pc \in [Installers -> Resting \cup InFlight]
  /\ found \in [Installers -> SUBSET Files]
  /\ staged \in [Installers -> Listings \cup {None}]
  /\ bundle \in [Installers -> Packages \cup {None}]
  /\ snapshot \in [Installers -> SUBSET Modules]
  /\ dest \in [Installers -> Dirs \cup {None}]
  /\ running \in BOOLEAN
  /\ holder \in [Modules -> Installers \cup {None}]
  /\ installed \in IdTable
  /\ modulesDir \in [Modules -> Dirs \cup {None}]
  /\ linked \in SUBSET Modules
  /\ wal \in IdTable

Init ==
  /\ pc = [i \in Installers |-> "idle"]
  /\ found = [i \in Installers |-> {}]
  /\ staged = [i \in Installers |-> None]
  /\ bundle = [i \in Installers |-> None]
  /\ snapshot = [i \in Installers |-> {}]
  /\ dest = [i \in Installers |-> None]
  /\ running = TRUE
  /\ holder = [m \in Modules |-> None]
  /\ installed = [m \in Modules |-> None]
  /\ modulesDir = [m \in Modules |-> None]
  /\ linked = {}
  /\ wal = [m \in Modules |-> None]

\* module_id: the id of the bundle the task has parsed.
Id(i) == IdOf[bundle[i]]

Keys(table) == {m \in Modules : table[m] # None}

GoTo(i, step) == pc' = [pc EXCEPT ![i] = step]

At(i, step) == pc[i] = step

ReturnKeepingLock(i, outcome) ==
  /\ GoTo(i, outcome)
  /\ found' = [found EXCEPT ![i] = {}]
  /\ bundle' = IF outcome = "ok" THEN bundle ELSE [bundle EXCEPT ![i] = None]
  /\ UNCHANGED holder

\* The answer is sent: the request's path and locals are gone, and so is the
\* MutexGuard of the per-id lock, on every return.  An "ok" names the module.
Return(i, outcome) ==
  /\ GoTo(i, outcome)
  /\ found' = [found EXCEPT ![i] = {}]
  /\ bundle' = IF outcome = "ok" THEN bundle ELSE [bundle EXCEPT ![i] = None]
  /\ holder' = [m \in Modules |-> IF holder[m] = i THEN None ELSE holder[m]]

--------------------------------------------------------------------------------
(* The environment: users place packages at paths and send requests.       *)

\* A handler task starts install_module_from_path for a path.
\* What an earlier request of the same task left behind is forgotten here: it
\* lies in directories with fresh UUID names that nothing looks at again.
Request(i) ==
  /\ running
  /\ pc[i] \in Resting
  /\ GoTo(i, "validate")
  /\ staged' = [staged EXCEPT ![i] = None]
  /\ bundle' = [bundle EXCEPT ![i] = None]
  /\ dest' = [dest EXCEPT ![i] = None]
  /\ UNCHANGED <<found, snapshot, running, holder, installed, diskVars>>

--------------------------------------------------------------------------------
(* The pipeline, step by step.                                             *)

Empty == [f \in {} |-> None]

\* Step 1: validate_install_package finds the .wasm and which of its siblings
\* are there, and prepare_install_package_in_temp makes a fresh directory.
Validate(i) ==
  /\ At(i, "validate")
  /\ \E F \in SUBSET Files : Wasm \in F /\ found' = [found EXCEPT ![i] = F]
  /\ staged' = [staged EXCEPT ![i] = Empty]
  /\ GoTo(i, "stage")
  /\ UNCHANGED <<bundle, snapshot, dest, running, holder, installed, diskVars>>

AddFile(listing, f, content) ==
  [g \in DOMAIN listing \cup {f} |-> IF g = f THEN content ELSE listing[g]]

\* The files found are copied, unsynced, in parallel: each is read at a moment
\* of its own, and may hold another revision than the one copied before it.
StageFile(i) ==
  /\ At(i, "stage")
  /\ \E f \in found[i] \ DOMAIN staged[i], content \in Contents :
       staged' = [staged EXCEPT ![i] = AddFile(@, f, content)]
  /\ UNCHANGED <<pc, found, bundle, snapshot, dest, running, holder, installed, diskVars>>

Staged(i) ==
  /\ At(i, "stage")
  /\ DOMAIN staged[i] = found[i]
  /\ found' = [found EXCEPT ![i] = {}]
  /\ GoTo(i, "parse")
  /\ UNCHANGED <<staged, bundle, snapshot, dest, running, holder, installed, diskVars>>

\* The path is no package, the directory is not made, or a file found a moment
\* ago is gone or not copied: what the directory holds so far stays behind.
StagingFails(i) ==
  /\ pc[i] \in {"validate", "stage"}
  /\ Return(i, "failed")
  /\ UNCHANGED <<staged, snapshot, dest, running, installed, diskVars>>

\* Step 2: ComponentBundle is read from the staged files.
Parse(i) ==
  /\ At(i, "parse")
  /\ IdOf[staged[i]] # None
  /\ bundle' = [bundle EXCEPT ![i] = staged[i]]
  /\ GoTo(i, "lock")
  /\ UNCHANGED <<found, staged, snapshot, dest, running, holder, installed, diskVars>>

ParseFails(i) ==
  /\ At(i, "parse")
  /\ IdOf[staged[i]] = None
  /\ Return(i, "failed")
  /\ UNCHANGED <<staged, snapshot, dest, running, installed, diskVars>>

\* Step 3: the lock of this module id, created on first use.
LockIgnoringHolder(i) ==
  /\ At(i, "lock")
  /\ holder' = [holder EXCEPT ![Id(i)] = i]
  /\ GoTo(i, "snapshot")
  /\ UNCHANGED <<found, staged, bundle, snapshot, dest, running, installed, diskVars>>

Lock(i) ==
  /\ At(i, "lock")
  /\ holder[Id(i)] = None
  /\ holder' = [holder EXCEPT ![Id(i)] = i]
  /\ GoTo(i, "snapshot")
  /\ UNCHANGED <<found, staged, bundle, snapshot, dest, running, installed, diskVars>>

\* Step 4: a clone of the state, then the checks against it and the disk.
TakeSnapshot(i) ==
  /\ At(i, "snapshot")
  /\ snapshot' = [snapshot EXCEPT ![i] = Keys(installed)]
  /\ GoTo(i, "check")
  /\ UNCHANGED <<found, staged, bundle, dest, running, holder, installed, diskVars>>

\* ModuleAlreadyInstalled or ModuleDirAlreadyExists.
CheckFails(i) ==
  /\ At(i, "check")
  /\ Id(i) \in snapshot[i] \/ modulesDir[Id(i)] # None
  /\ Return(i, "failed")
  /\ snapshot' = [snapshot EXCEPT ![i] = {}]
  /\ UNCHANGED <<staged, dest, running, installed, diskVars>>

Check(i) ==
  /\ At(i, "check")
  /\ Id(i) \notin snapshot[i]
  /\ modulesDir[Id(i)] = None
  /\ GoTo(i, "mkdest")
  /\ snapshot' = [snapshot EXCEPT ![i] = {}]
  /\ UNCHANGED <<found, staged, bundle, dest, running, holder, installed, diskVars>>

--------------------------------------------------------------------------------
(* Step 5, install_module_files_to_storage.                                *)

MakeDestFromSource(i) ==
  /\ At(i, "mkdest")
  /\ \E p \in Packages :
       dest' = [dest EXCEPT ![i] = [pkg |-> p, files |-> {}, synced |-> {}, entries |-> FALSE]]
  /\ GoTo(i, "copy")
  /\ UNCHANGED <<found, staged, bundle, snapshot, running, holder, installed, diskVars>>

\* An empty directory under modules_dir, named after the id and a UUID.
MakeDest(i) ==
  /\ At(i, "mkdest")
  /\ dest' = [dest EXCEPT ![i] =
                [pkg |-> staged[i], files |-> {}, synced |-> {}, entries |-> FALSE]]
  /\ GoTo(i, "copy")
  /\ UNCHANGED <<found, staged, bundle, snapshot, running, holder, installed, diskVars>>

Copying(dir, f) == [dir EXCEPT !.files = @ \cup {f}]

Syncing(dir, f) == [dir EXCEPT !.synced = @ \cup {f}]

SyncingEntries(dir) == [dir EXCEPT !.entries = TRUE]

\* copy_files_to_dir copies the files in parallel: they finish in any order,
\* and an error leaves those already copied.
CopyFile(i) ==
  /\ At(i, "copy")
  /\ \E f \in DOMAIN dest[i].pkg \ dest[i].files :
       dest' = [dest EXCEPT ![i] = Copying(@, f)]
  /\ UNCHANGED <<pc, found, staged, bundle, snapshot, running, holder, installed, diskVars>>

CopiedWithoutSync(i) ==
  /\ At(i, "copy")
  /\ dest[i].files = DOMAIN dest[i].pkg
  /\ GoTo(i, "syncdest")
  /\ UNCHANGED <<found, staged, bundle, snapshot, dest, running, holder, installed, diskVars>>

Copied(i) ==
  /\ At(i, "copy")
  /\ dest[i].files = DOMAIN dest[i].pkg
  /\ GoTo(i, "sync")
  /\ UNCHANGED <<found, staged, bundle, snapshot, dest, running, holder, installed, diskVars>>

\* With sync = true, the copied files are fsynced, in parallel too.
SyncFile(i) ==
  /\ At(i, "sync")
  /\ \E f \in dest[i].files \ dest[i].synced :
       dest' = [dest EXCEPT ![i] = Syncing(@, f)]
  /\ UNCHANGED <<pc, found, staged, bundle, snapshot, running, holder, installed, diskVars>>

Synced(i) ==
  /\ At(i, "sync")
  /\ dest[i].synced = dest[i].files
  /\ GoTo(i, "syncdest")
  /\ UNCHANGED <<found, staged, bundle, snapshot, dest, running, holder, installed, diskVars>>

\* sync_directory on the temporary directory.
SyncDest(i) ==
  /\ At(i, "syncdest")
  /\ dest' = [dest EXCEPT ![i] = SyncingEntries(@)]
  /\ GoTo(i, "rename")
  /\ UNCHANGED <<found, staged, bundle, snapshot, running, holder, installed, diskVars>>

\* atomic_rename: a directory that is there, and not empty, is not replaced.
Rename(i) ==
  /\ At(i, "rename")
  /\ modulesDir[Id(i)] = None
  /\ modulesDir' = [modulesDir EXCEPT ![Id(i)] = dest[i]]
  /\ dest' = [dest EXCEPT ![i] = None]
  /\ GoTo(i, "syncmodules")
  /\ UNCHANGED <<found, staged, bundle, snapshot, running, holder, installed, linked, wal>>

SyncModulesDirSkipped(i) ==
  /\ At(i, "syncmodules")
  /\ GoTo(i, "record")
  /\ UNCHANGED <<found, staged, bundle, snapshot, dest, running, holder, installed, diskVars>>

\* sync_directory on modules_dir: makes every rename done so far durable, the
\* other tasks' included.
SyncModulesDir(i) ==
  /\ At(i, "syncmodules")
  /\ linked' = {m \in Modules : modulesDir[m] # None}
  /\ GoTo(i, "record")
  /\ UNCHANGED <<found, staged, bundle, snapshot, dest, running, holder, installed, modulesDir, wal>>

--------------------------------------------------------------------------------
(* Steps 6 and 7.                                                          *)

InsertIdAsManifest(table, m, p) == [table EXCEPT ![m] = m]

\* InstallModule::apply, on the state in memory and on what replay rebuilds.
Insert(table, m, p) == [table EXCEPT ![m] = p]

\* StateManager::apply appends the mutation to the log and applies it.
Record(i) ==
  /\ At(i, "record")
  /\ wal' = Insert(wal, Id(i), bundle[i])
  /\ installed' = Insert(installed, Id(i), bundle[i])
  /\ GoTo(i, "cleanup")
  /\ UNCHANGED <<found, staged, bundle, snapshot, dest, running, holder, modulesDir, linked>>

RecordErrorIgnored(i) ==
  /\ At(i, "record")
  /\ wal' \in {wal, Insert(wal, Id(i), bundle[i])}
  /\ GoTo(i, "cleanup")
  /\ UNCHANGED <<found, staged, bundle, snapshot, dest, running, holder, installed, modulesDir, linked>>

RecordFailsAfterApply(i) ==
  /\ At(i, "record")
  /\ installed' = Insert(installed, Id(i), bundle[i])
  /\ Return(i, "failed")
  /\ UNCHANGED <<staged, snapshot, dest, running, diskVars>>

\* The append is reported as failed; the line may have reached the file or not.
RecordFails(i) ==
  /\ At(i, "record")
  /\ wal' \in {wal, Insert(wal, Id(i), bundle[i])}
  /\ Return(i, "failed")
  /\ UNCHANGED <<staged, snapshot, dest, running, installed, modulesDir, linked>>

\* remove_dir_all on the staging directory, its error ignored; then Ok(id).
Cleanup(i) ==
  /\ At(i, "cleanup")
  /\ staged' \in {staged, [staged EXCEPT ![i] = None]}
  /\ Return(i, "ok")
  /\ UNCHANGED <<snapshot, dest, running, installed, diskVars>>

\* Any other file operation fails, the rename onto an existing directory among
\* them: the error is returned and nothing is undone.
Fallible == {"mkdest", "copy", "sync", "syncdest", "rename", "syncmodules"}

IoFails(i) ==
  /\ pc[i] \in Fallible
  /\ Return(i, "failed")
  /\ UNCHANGED <<staged, snapshot, dest, running, installed, diskVars>>

--------------------------------------------------------------------------------
(* Crashes and restarts.                                                   *)

\* Every task, every lock and the state in memory go with the process.
LoseMemory ==
  /\ running
  /\ running' = FALSE
  /\ pc' = [i \in Installers |-> "idle"]
  /\ found' = [i \in Installers |-> {}]
  /\ staged' = [i \in Installers |-> None]
  /\ bundle' = [i \in Installers |-> None]
  /\ snapshot' = [i \in Installers |-> {}]
  /\ dest' = [i \in Installers |-> None]
  /\ holder' = [m \in Modules |-> None]
  /\ installed' = [m \in Modules |-> None]

\* The process is killed, or exits at ctrl-c while installations run: main
\* returns and the tasks are dropped at their await points.  The file system
\* keeps what system calls have done.
ProcessCrash == LoseMemory /\ UNCHANGED diskVars

\* Of an unsynced rename and of unsynced files, any part may be lost.
Survivor(dir, lost) ==
  LET kept == dir.files \ (IF dir.entries THEN lost \ dir.synced ELSE lost)
  IN  [pkg |-> dir.pkg, files |-> kept, synced |-> kept, entries |-> TRUE]

PowerLoss ==
  /\ LoseMemory
  /\ \E unlinked \in SUBSET (Keys(modulesDir) \ linked), lost \in [Modules -> SUBSET Files] :
       modulesDir' = [m \in Modules |->
                        IF modulesDir[m] = None \/ m \in unlinked
                          THEN None
                          ELSE Survivor(modulesDir[m], lost[m])]
  /\ linked' = {m \in Modules : modulesDir'[m] # None}
  /\ UNCHANGED wal

RestartTruncatingLog ==
  /\ ~running
  /\ running' = TRUE
  /\ wal' = [m \in Modules |-> None]
  /\ installed' = [m \in Modules |-> None]
  /\ UNCHANGED <<taskVars, holder, modulesDir, linked>>

\* StorageManager::new and ArcellaRuntime::new: StateManager::open replays the
\* log; nothing looks at what modules_dir holds.
Restart ==
  /\ ~running
  /\ running' = TRUE
  /\ installed' = wal
  /\ UNCHANGED <<taskVars, holder, diskVars>>

--------------------------------------------------------------------------------

Progress(i) ==
  \/ Validate(i) \/ StageFile(i) \/ Staged(i) \/ StagingFails(i) \/ Parse(i) \/ ParseFails(i)
  \/ TakeSnapshot(i) \/ Check(i) \/ CheckFails(i)
  \/ MakeDest(i) \/ CopyFile(i) \/ Copied(i) \/ SyncFile(i) \/ Synced(i)
  \/ SyncDest(i) \/ Rename(i) \/ SyncModulesDir(i)
  \/ Record(i) \/ RecordFails(i) \/ Cleanup(i) \/ IoFails(i)

InstallStep == \E i \in Installers : Request(i) \/ Lock(i) \/ Progress(i)

Next == InstallStep \/ ProcessCrash \/ PowerLoss \/ Restart

Spec == Init /\ [][Next]_vars

\* The executor runs every ready task, and tokio's Mutex hands a lock over in
\* the order it was asked for, so a task that waits for it is not passed over
\* for ever.  Nothing obliges users, crashes or restarts to happen.
Fairness == \A i \in Installers : WF_vars(Progress(i)) /\ SF_vars(Lock(i))

FairSpec == Spec /\ Fairness

--------------------------------------------------------------------------------
(* Properties.                                                             *)

Complete(m) ==
  /\ modulesDir[m] # None
  /\ modulesDir[m].files = DOMAIN modulesDir[m].pkg
  /\ IdOf[modulesDir[m].pkg] = m

Durable(m) ==
  /\ m \in linked
  /\ modulesDir[m].entries
  /\ modulesDir[m].synced = modulesDir[m].files

\* Whatever is published under a module id, recorded or not, before and after
\* any crash, is a whole package that declares that id: no reader of modules/
\* ever sees some of a module's files (install.rs, "Atomic Commit").
PublishedIsComplete == \A m \in Keys(modulesDir) : Complete(m)

\* A module the log holds has its directory, and a power loss at this moment
\* would leave it whole: the record never becomes durable before the files.
RegisteredIsDurable == \A m \in Keys(wal) : Complete(m) /\ Durable(m)

\* The manifest recorded for a module was parsed from the very files that were
\* installed, although the user may replace files of the package at any time:
\* also when that made the staged copy a mix of two revisions.
ManifestMatchesFiles == \A m \in Keys(wal) : modulesDir[m] # None => modulesDir[m].pkg = wal[m]

\* At most one task is between the duplicate check and its return for a module
\* id, on every error path and across crashes, and it holds that id's lock.
OneInstallerPerModule ==
  /\ \A i, j \in Installers :
       pc[i] \in Locked /\ pc[j] \in Locked /\ Id(i) = Id(j) => i = j
  /\ \A i \in Installers : pc[i] \in Locked => holder[Id(i)] = i

\* Nothing is visible in memory that a crash would take back: what snapshot()
\* shows to an installation or a deployment is what replay would rebuild.
MemoryWithinLog == \A m \in Keys(installed) : installed[m] = wal[m]

\* A client told that module id is installed finds it in the state, and, until
\* the next crash, so does everybody else.
OkMeansRegistered ==
  \A i \in Installers : pc[i] = "ok" => Id(i) \in Keys(installed)

\* What a client of the registry makes of where a task is.
PhaseOf(step) ==
  IF step \in Resting THEN step ELSE IF step = "cleanup" THEN "registered" ELSE "pending"

Store == INSTANCE ModuleStore WITH
  Clients  <- Installers,
  registry <- wal,
  phase    <- [i \in Installers |-> PhaseOf(pc[i])]

\* A registered module is never registered again, replaced or forgotten, and an
\* answer "ok" follows a registration: the abstract registry, with the log in
\* the part of the registry.
ImplementsModuleStore == Store!Spec

--------------------------------------------------------------------------------
(* A claim of install.rs that the code does not meet.                      *)

\* install.rs:12-14: the workflow is crash-safe "to ensure filesystem
\* consistency even in the event of process crashes or power loss".  With no
\* installation in progress, the directories under modules/ are those of the
\* modules in the state.
DiskAgreesWithState ==
  running /\ (\A i \in Installers : pc[i] \in Resting)
    => Keys(modulesDir) = Keys(installed)

================================================================================
