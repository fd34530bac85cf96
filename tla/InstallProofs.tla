----------------------------- MODULE InstallProofs -----------------------------
(***************************************************************************)
(* Proofs about Install and Deploy.  The first part: type correctness of   *)
(* Install, the inductive invariant behind its safety properties, and that *)
(* it implements ModuleStore, for any sets of tasks, modules, packages and *)
(* files.  The second part: what a deployment found in its snapshot stays  *)
(* true, because installations only add to the state, and the daemon that  *)
(* forgets a module forgets the deployment with it; and the staged copy it *)
(* is accepted with names what was found, unless the file was rewritten.   *)
(***************************************************************************)

EXTENDS Deploy, TLAPS

--------------------------------------------------------------------------------
(* The inductive invariant, part by part.                                  *)

\* What a task carries: the files validation found, then as much of them as is
\* staged, then the bundle parsed from the staged copy, which is that copy.
Parsed(i) == bundle[i] \in Packages /\ IdOf[bundle[i]] \in Modules

TaskInv ==
  \A i \in Installers :
    /\ pc[i] = "stage" => Wasm \in found[i] /\ staged[i] \in Listings
    /\ pc[i] = "parse" => staged[i] \in Packages
    /\ pc[i] \in {"lock"} \cup Locked => Parsed(i) /\ staged[i] = bundle[i]
    /\ pc[i] = "ok" => Parsed(i) /\ installed[Id(i)] # None
    /\ ~running => pc[i] = "idle"

\* A task past the lock holds the lock of its module id.
LockInv == \A i \in Installers : pc[i] \in Locked => holder[Id(i)] = i

\* The temporary directory fills up with the files of the parsed package, and
\* is synced file by file, then as a whole, before the rename.
DestInv ==
  \A i \in Installers :
    /\ pc[i] \in {"copy", "sync", "syncdest", "rename"} =>
         dest[i] \in Dirs /\ dest[i].pkg = bundle[i]
    /\ pc[i] \in {"sync", "syncdest", "rename"} => dest[i].files = DOMAIN bundle[i]
    /\ pc[i] \in {"syncdest", "rename"} => dest[i].synced = dest[i].files
    /\ pc[i] = "rename" => dest[i].entries

\* What is published is whole and synced, but perhaps not linked durably.
DiskInv ==
  \A m \in Modules :
    modulesDir[m] # None =>
      /\ modulesDir[m].files = DOMAIN modulesDir[m].pkg
      /\ modulesDir[m].synced = modulesDir[m].files
      /\ modulesDir[m].entries
      /\ IdOf[modulesDir[m].pkg] = m

\* The log is behind the durable disk, memory is behind the log.
LogInv ==
  \A m \in Modules :
    /\ wal[m] # None => m \in linked /\ modulesDir[m] # None /\ modulesDir[m].pkg = wal[m]
    /\ installed[m] # None => installed[m] = wal[m]

\* Between its rename and its record, a task's module is on disk and, since
\* nobody else can be there, not yet in the log.
CommitInv ==
  \A i \in Installers :
    /\ pc[i] \in {"syncmodules", "record", "cleanup"} =>
         modulesDir[Id(i)] # None /\ modulesDir[Id(i)].pkg = bundle[i]
    /\ pc[i] \in {"syncmodules", "record"} => wal[Id(i)] = None
    /\ pc[i] \in {"record", "cleanup"} => Id(i) \in linked
    /\ pc[i] = "cleanup" => installed[Id(i)] # None

IInv == TypeOK /\ TaskInv /\ LockInv /\ DestInv /\ DiskInv /\ LogInv /\ CommitInv

--------------------------------------------------------------------------------
(* Packages, as sets of files.                                             *)

\* None is no package, since it is no listing of any kind.
LEMMA NoneIsNoPackage == None \notin Packages
BY NoneAssumption DEF Packages

\* An empty directory lists no file.
LEMMA EmptyListing == Empty \in Listings
<1>1. Empty \in [{} -> Contents]
  BY DEF Empty
<1> QED
  BY <1>1 DEF Listings

\* One more file of those a package may have makes another listing, which lists
\* that file and those before.
LEMMA AddingFile ==
  ASSUME NEW listing \in Listings, NEW f \in Files, NEW content \in Contents
  PROVE  AddFile(listing, f, content) \in Listings
<1>1. PICK F \in SUBSET Files : listing \in [F -> Contents]
  BY DEF Listings
<1>2. AddFile(listing, f, content) \in [F \cup {f} -> Contents]
  BY <1>1 DEF AddFile
<1> QED
  BY <1>1, <1>2 DEF Listings

--------------------------------------------------------------------------------
(* Filling and syncing a directory gives a directory of the same package.  *)

\* Copying one more of the package's files.
LEMMA CopyingDir ==
  ASSUME NEW dir \in Dirs, NEW f \in DOMAIN dir.pkg
  PROVE  /\ Copying(dir, f) \in Dirs
         /\ Copying(dir, f).pkg = dir.pkg
<1>1. dir.pkg \in Packages
  BY DEF Dirs
<1>2. PICK F \in SUBSET Files : dir.pkg \in [F -> Contents]
  BY <1>1 DEF Packages, Listings
<1>3. f \in Files
  BY <1>2
<1> QED
  BY <1>3 DEF Copying, Dirs

\* Syncing one more of the files that are there.
LEMMA SyncingDir ==
  ASSUME NEW dir \in Dirs, NEW f \in dir.files
  PROVE  /\ Syncing(dir, f) \in Dirs
         /\ Syncing(dir, f).pkg = dir.pkg
         /\ Syncing(dir, f).files = dir.files
<1>1. f \in Files
  BY DEF Dirs
<1> QED
  BY <1>1 DEF Syncing, Dirs

\* Syncing the directory's own entries.
LEMMA SyncingEntriesDir ==
  ASSUME NEW dir \in Dirs
  PROVE  /\ SyncingEntries(dir) \in Dirs
         /\ SyncingEntries(dir).pkg = dir.pkg
         /\ SyncingEntries(dir).files = dir.files
         /\ SyncingEntries(dir).synced = dir.synced
         /\ SyncingEntries(dir).entries
BY DEF SyncingEntries, Dirs

--------------------------------------------------------------------------------
(* Every step of a task preserves it.                                      *)

\* A request starts: nothing is known of it yet.
LEMMA RequestStep ==
  ASSUME IInv, NEW i \in Installers, Request(i)
  PROVE  IInv'
<1> USE DEF IInv
<1>1. TypeOK'
    BY DEF Request, TypeOK, GoTo, Resting, InFlight, Locked, diskVars, IdTable
<1>2. TaskInv'
    BY DEF Request, TypeOK, TaskInv, GoTo, Id, Resting, InFlight, Locked, diskVars,
     IdTable, Parsed
<1>3. LockInv'
    BY DEF Request, LockInv, GoTo, Id, Resting, Locked, diskVars
<1>4. DestInv'
    BY DEF Request, DestInv, GoTo, Resting, diskVars
<1>5. DiskInv'
    BY DEF Request, DiskInv, GoTo, Resting, diskVars
<1>6. LogInv'
    BY DEF Request, LogInv, GoTo, Resting, diskVars
<1>7. CommitInv'
    BY DEF Request, CommitInv, GoTo, Id, Resting, diskVars
<1> QED
  BY <1>1, <1>2, <1>3, <1>4, <1>5, <1>6, <1>7

\* A directory is made, and the files found have the .wasm among them.
LEMMA ValidateStep ==
  ASSUME IInv, NEW i \in Installers, Validate(i)
  PROVE  IInv'
<1> USE DEF IInv
<1>1. PICK F \in SUBSET Files : Wasm \in F /\ found' = [found EXCEPT ![i] = F]
  BY DEF Validate
<1>2. /\ staged' \in [Installers -> Listings \cup {None}]
      /\ staged'[i] \in Listings
      /\ \A j \in Installers \ {i} : staged'[j] = staged[j] /\ found'[j] = found[j]
  BY <1>1, EmptyListing DEF Validate, TypeOK
<1>3. TypeOK'
  BY <1>1, <1>2 DEF Validate, TypeOK, GoTo, At, Resting, InFlight, Locked, diskVars, IdTable
<1>4. TaskInv'
  <2>1. Wasm \in found'[i]
    BY <1>1 DEF TypeOK
  <2> QED
    BY <1>2, <2>1 DEF Validate, TypeOK, TaskInv, GoTo, At, Id, Resting, InFlight, Locked,
       diskVars, Parsed
<1>5. LockInv'
  BY DEF Validate, LockInv, GoTo, At, Id, Locked, diskVars
<1>6. DestInv' /\ DiskInv' /\ LogInv'
  BY DEF Validate, DestInv, DiskInv, LogInv, GoTo, At, diskVars
<1>7. CommitInv'
  BY DEF Validate, CommitInv, GoTo, At, Id, diskVars
<1> QED
  BY <1>3, <1>4, <1>5, <1>6, <1>7

\* Whatever a file holds when it is read, the directory lists one file more.
LEMMA StageFileStep ==
  ASSUME IInv, NEW i \in Installers, StageFile(i)
  PROVE  IInv'
<1> USE DEF IInv
<1>1. PICK f \in found[i] \ DOMAIN staged[i], content \in Contents :
        staged' = [staged EXCEPT ![i] = AddFile(staged[i], f, content)]
  BY DEF StageFile
<1>2. f \in Files /\ staged[i] \in Listings
  BY <1>1 DEF StageFile, TypeOK, TaskInv, At
<1>3. AddFile(staged[i], f, content) \in Listings
  BY <1>2, AddingFile
<1>4. /\ staged' \in [Installers -> Listings \cup {None}]
      /\ staged'[i] \in Listings
      /\ \A j \in Installers \ {i} : staged'[j] = staged[j]
  BY <1>1, <1>3 DEF TypeOK
<1>5. TypeOK'
  BY <1>4 DEF StageFile, TypeOK, diskVars, IdTable
<1>6. TaskInv'
  BY <1>4 DEF StageFile, TaskInv, At, Id, InFlight, Locked, diskVars, Parsed
<1>7. LockInv'
  BY DEF StageFile, LockInv, At, Id, Locked, diskVars
<1>8. DestInv' /\ DiskInv' /\ LogInv'
  BY DEF StageFile, DestInv, DiskInv, LogInv, At, diskVars
<1>9. CommitInv'
  BY DEF StageFile, CommitInv, At, Id, diskVars
<1> QED
  BY <1>5, <1>6, <1>7, <1>8, <1>9

\* With all of the found files in it, the staged copy is a package.
LEMMA StagedStep ==
  ASSUME IInv, NEW i \in Installers, Staged(i)
  PROVE  IInv'
<1> USE DEF IInv
<1>1. TypeOK'
  BY DEF Staged, TypeOK, GoTo, At, Resting, InFlight, Locked, diskVars, IdTable
<1>2. TaskInv'
  <2>1. staged[i] \in Packages
    BY DEF Staged, TaskInv, At, Packages
  <2>2. /\ pc'[i] = "parse"
        /\ \A j \in Installers \ {i} : pc'[j] = pc[j] /\ found'[j] = found[j]
    BY DEF Staged, TypeOK, GoTo
  <2> QED
    BY <2>1, <2>2 DEF Staged, TaskInv, At, Id, InFlight, Locked, diskVars, Parsed
<1>3. LockInv'
  BY DEF Staged, LockInv, GoTo, At, Id, Locked, diskVars
<1>4. DestInv' /\ DiskInv' /\ LogInv'
  BY DEF Staged, DestInv, DiskInv, LogInv, GoTo, At, diskVars
<1>5. CommitInv'
  BY DEF Staged, CommitInv, GoTo, At, Id, diskVars
<1> QED
  BY <1>1, <1>2, <1>3, <1>4, <1>5

LEMMA StagingFailsStep ==
  ASSUME IInv, NEW i \in Installers, StagingFails(i)
  PROVE  IInv'
<1> USE DEF IInv
<1>1. TypeOK'
    BY DEF StagingFails, TypeOK, GoTo, Return, Resting, InFlight, Locked, diskVars, IdTable
<1>2. TaskInv'
    BY DEF StagingFails, TypeOK, TaskInv, GoTo, Return, Id, Resting, InFlight, Locked,
     diskVars, IdTable, Parsed
<1>3. LockInv'
    BY DEF StagingFails, LockInv, TaskInv, GoTo, Return, Id, InFlight, Locked,
     diskVars, Parsed
<1>4. DestInv'
    BY DEF StagingFails, DestInv, GoTo, Return, diskVars
<1>5. DiskInv' /\ LogInv'
    BY DEF StagingFails, DiskInv, LogInv, GoTo, Return, diskVars
<1>6. CommitInv'
    BY DEF StagingFails, CommitInv, GoTo, Return, Id, diskVars
<1> QED
  BY <1>1, <1>2, <1>3, <1>4, <1>5, <1>6

\* The bundle is the staged package, and has an id.
LEMMA ParseStep ==
  ASSUME IInv, NEW i \in Installers, Parse(i)
  PROVE  IInv'
<1> USE DEF IInv
<1>0. staged[i] \in Packages /\ IdOf[staged[i]] \in Modules
  <2>1. staged[i] \in Packages /\ IdOf[staged[i]] # None
    BY DEF Parse, TaskInv, At
  <2> QED
    BY <2>1, PackagesAssumption
<1>1. TypeOK'
    BY <1>0 DEF Parse, TypeOK, GoTo, At, Resting, InFlight, Locked, diskVars, IdTable
<1>2. TaskInv'
    BY <1>0 DEF Parse, TypeOK, TaskInv, GoTo, At, Id, Resting, InFlight, Locked, diskVars,
     IdTable, Parsed
<1>3. LockInv'
    BY DEF Parse, LockInv, GoTo, At, Id, Locked, diskVars
<1>4. DestInv'
    BY DEF Parse, DestInv, GoTo, At, diskVars
<1>5. DiskInv'
    BY DEF Parse, DiskInv, GoTo, At, diskVars
<1>6. LogInv'
    BY DEF Parse, LogInv, GoTo, At, diskVars
<1>7. CommitInv'
    BY DEF Parse, CommitInv, GoTo, At, Id, diskVars
<1> QED
  BY <1>1, <1>2, <1>3, <1>4, <1>5, <1>6, <1>7

LEMMA ParseFailsStep ==
  ASSUME IInv, NEW i \in Installers, ParseFails(i)
  PROVE  IInv'
<1> USE DEF IInv
<1>1. TypeOK'
    BY DEF ParseFails, TypeOK, GoTo, At, Return, Resting, InFlight, Locked, diskVars,
     IdTable
<1>2. TaskInv'
    BY DEF ParseFails, TypeOK, TaskInv, GoTo, At, Return, Id, Resting, InFlight, Locked,
     diskVars, IdTable, Parsed
<1>3. LockInv'
    BY DEF ParseFails, LockInv, TaskInv, GoTo, At, Return, Id, InFlight, Locked,
     diskVars, Parsed
<1>4. DestInv'
    BY DEF ParseFails, DestInv, GoTo, At, Return, diskVars
<1>5. DiskInv'
    BY DEF ParseFails, DiskInv, GoTo, At, Return, diskVars
<1>6. LogInv'
    BY DEF ParseFails, LogInv, GoTo, At, Return, diskVars
<1>7. CommitInv'
    BY DEF ParseFails, CommitInv, GoTo, At, Return, Id, diskVars
<1> QED
  BY <1>1, <1>2, <1>3, <1>4, <1>5, <1>6, <1>7

\* The task becomes the only one past the lock of its id.
LEMMA LockStep ==
  ASSUME IInv, NEW i \in Installers, Lock(i)
  PROVE  IInv'
<1> USE DEF IInv
<1>1. TypeOK'
    BY DEF Lock, TypeOK, GoTo, At, Id, Resting, InFlight, Locked, diskVars, IdTable
<1>2. TaskInv'
    BY DEF Lock, TaskInv, GoTo, At, Id, InFlight, Locked, diskVars, Parsed
<1>3. LockInv'
    BY NoneAssumption DEF Lock, TypeOK, LockInv, TaskInv, GoTo, At, Id, Resting,
     InFlight, Locked, diskVars, IdTable, Parsed
<1>4. DestInv'
    BY DEF Lock, DestInv, GoTo, At, Id, diskVars
<1>5. DiskInv'
    BY DEF Lock, DiskInv, GoTo, At, Id, diskVars
<1>6. LogInv'
    BY DEF Lock, LogInv, GoTo, At, Id, diskVars
<1>7. CommitInv'
    BY DEF Lock, CommitInv, GoTo, At, Id, diskVars
<1> QED
  BY <1>1, <1>2, <1>3, <1>4, <1>5, <1>6, <1>7

LEMMA TakeSnapshotStep ==
  ASSUME IInv, NEW i \in Installers, TakeSnapshot(i)
  PROVE  IInv'
<1> USE DEF IInv
<1>1. TypeOK'
    BY DEF TakeSnapshot, TypeOK, GoTo, At, Resting, InFlight, Locked, Keys, diskVars,
     IdTable
<1>2. TaskInv'
    BY DEF TakeSnapshot, TaskInv, GoTo, At, Id, InFlight, Locked, Keys, diskVars, Parsed
<1>3. LockInv'
    BY DEF TakeSnapshot, LockInv, GoTo, At, Id, Locked, Keys, diskVars
<1>4. DestInv'
    BY DEF TakeSnapshot, DestInv, GoTo, At, Keys, diskVars
<1>5. DiskInv'
    BY DEF TakeSnapshot, DiskInv, GoTo, At, Keys, diskVars
<1>6. LogInv'
    BY DEF TakeSnapshot, LogInv, GoTo, At, Keys, diskVars
<1>7. CommitInv'
    BY DEF TakeSnapshot, CommitInv, GoTo, At, Id, Keys, diskVars
<1> QED
  BY <1>1, <1>2, <1>3, <1>4, <1>5, <1>6, <1>7

LEMMA CheckFailsStep ==
  ASSUME IInv, NEW i \in Installers, CheckFails(i)
  PROVE  IInv'
<1> USE DEF IInv
<1>1. TypeOK'
    BY DEF CheckFails, TypeOK, GoTo, At, Return, Id, Resting, InFlight, Locked,
     diskVars, IdTable
<1>2. TaskInv'
    BY DEF CheckFails, TypeOK, TaskInv, GoTo, At, Return, Id, Resting, InFlight, Locked,
     diskVars, IdTable, Parsed
<1>3. LockInv'
    BY DEF CheckFails, TypeOK, LockInv, TaskInv, GoTo, At, Return, Id, Resting,
     InFlight, Locked, diskVars, IdTable, Parsed
<1>4. DestInv'
    BY DEF CheckFails, DestInv, GoTo, At, Return, Id, diskVars
<1>5. DiskInv'
    BY DEF CheckFails, DiskInv, GoTo, At, Return, Id, diskVars
<1>6. LogInv'
    BY DEF CheckFails, LogInv, GoTo, At, Return, Id, diskVars
<1>7. CommitInv'
    BY DEF CheckFails, CommitInv, GoTo, At, Return, Id, diskVars
<1> QED
  BY <1>1, <1>2, <1>3, <1>4, <1>5, <1>6, <1>7

LEMMA CheckStep ==
  ASSUME IInv, NEW i \in Installers, Check(i)
  PROVE  IInv'
<1> USE DEF IInv
<1>1. TypeOK'
    BY DEF Check, TypeOK, GoTo, At, Id, Resting, InFlight, Locked, diskVars, IdTable
<1>2. TaskInv'
    BY DEF Check, TaskInv, GoTo, At, Id, InFlight, Locked, diskVars, Parsed
<1>3. LockInv'
    BY DEF Check, LockInv, GoTo, At, Id, Locked, diskVars
<1>4. DestInv'
    BY DEF Check, DestInv, GoTo, At, Id, diskVars
<1>5. DiskInv'
    BY DEF Check, DiskInv, GoTo, At, Id, diskVars
<1>6. LogInv'
    BY DEF Check, LogInv, GoTo, At, Id, diskVars
<1>7. CommitInv'
    BY DEF Check, CommitInv, GoTo, At, Id, diskVars
<1> QED
  BY <1>1, <1>2, <1>3, <1>4, <1>5, <1>6, <1>7

\* The temporary directory is to hold the parsed package.
LEMMA MakeDestStep ==
  ASSUME IInv, NEW i \in Installers, MakeDest(i)
  PROVE  IInv'
<1> USE DEF IInv
<1>1. TypeOK'
    BY DEF MakeDest, TypeOK, Dirs, TaskInv, GoTo, At, Id, Resting, InFlight, Locked,
     diskVars, IdTable, Parsed
<1>2. TaskInv'
    BY DEF MakeDest, TaskInv, GoTo, At, Id, InFlight, Locked, diskVars, Parsed
<1>3. LockInv'
    BY DEF MakeDest, LockInv, GoTo, At, Id, Locked, diskVars
<1>4. DestInv'
    BY DEF MakeDest, TypeOK, Dirs, DestInv, TaskInv, GoTo, At, Id, Resting, InFlight,
     Locked, diskVars, IdTable, Parsed
<1>5. DiskInv'
    BY DEF MakeDest, DiskInv, GoTo, At, diskVars
<1>6. LogInv'
    BY DEF MakeDest, LogInv, GoTo, At, diskVars
<1>7. CommitInv'
    BY DEF MakeDest, CommitInv, GoTo, At, Id, diskVars
<1> QED
  BY <1>1, <1>2, <1>3, <1>4, <1>5, <1>6, <1>7

LEMMA CopyFileStep ==
  ASSUME IInv, NEW i \in Installers, CopyFile(i)
  PROVE  IInv'
<1> USE DEF IInv
<1>1. TypeOK'
  <2>1. PICK f \in DOMAIN dest[i].pkg \ dest[i].files : dest' = [dest EXCEPT ![i] = Copying(@, f)]
    BY DEF CopyFile
  <2>2. dest[i] \in Dirs
    BY DEF CopyFile, DestInv, At
  <2>3. Copying(dest[i], f) \in Dirs
    BY <2>2, CopyingDir
  <2>4. dest' \in [Installers -> Dirs \cup {None}]
    BY <2>1, <2>3 DEF TypeOK
  <2> QED
    BY <2>4 DEF CopyFile, TypeOK, diskVars, IdTable
<1>2. TaskInv'
    BY DEF CopyFile, TaskInv, At, Id, InFlight, Locked, diskVars, Parsed
<1>3. LockInv'
    BY DEF CopyFile, LockInv, At, Id, Locked, diskVars
<1>4. DestInv'
  <2>1. PICK f \in DOMAIN dest[i].pkg \ dest[i].files : dest' = [dest EXCEPT ![i] = Copying(@, f)]
    BY DEF CopyFile
  <2>2. dest[i] \in Dirs
    BY DEF CopyFile, DestInv, At
  <2>3. /\ dest'[i] = Copying(dest[i], f)
        /\ \A j \in Installers \ {i} : dest'[j] = dest[j]
    BY <2>1 DEF TypeOK
  <2>4. dest'[i] \in Dirs /\ dest'[i].pkg = dest[i].pkg
    BY <2>2, <2>3, CopyingDir
  <2> QED
    BY <2>3, <2>4 DEF CopyFile, DestInv, At, diskVars
<1>5. DiskInv'
    BY DEF CopyFile, DiskInv, At, diskVars
<1>6. LogInv'
    BY DEF CopyFile, LogInv, At, diskVars
<1>7. CommitInv'
    BY DEF CopyFile, CommitInv, At, Id, diskVars
<1> QED
  BY <1>1, <1>2, <1>3, <1>4, <1>5, <1>6, <1>7

LEMMA CopiedStep ==
  ASSUME IInv, NEW i \in Installers, Copied(i)
  PROVE  IInv'
<1> USE DEF IInv
<1>1. TypeOK'
    BY DEF Copied, TypeOK, GoTo, At, Resting, InFlight, Locked, diskVars, IdTable
<1>2. TaskInv'
    BY DEF Copied, TaskInv, GoTo, At, Id, InFlight, Locked, diskVars, Parsed
<1>3. LockInv'
    BY DEF Copied, LockInv, GoTo, At, Id, Locked, diskVars
<1>4. DestInv'
    BY DEF Copied, DestInv, GoTo, At, diskVars
<1>5. DiskInv'
    BY DEF Copied, DiskInv, GoTo, At, diskVars
<1>6. LogInv'
    BY DEF Copied, LogInv, GoTo, At, diskVars
<1>7. CommitInv'
    BY DEF Copied, CommitInv, GoTo, At, Id, diskVars
<1> QED
  BY <1>1, <1>2, <1>3, <1>4, <1>5, <1>6, <1>7

LEMMA SyncFileStep ==
  ASSUME IInv, NEW i \in Installers, SyncFile(i)
  PROVE  IInv'
<1> USE DEF IInv
<1>1. TypeOK'
  <2>1. PICK f \in dest[i].files \ dest[i].synced : dest' = [dest EXCEPT ![i] = Syncing(@, f)]
    BY DEF SyncFile
  <2>2. dest[i] \in Dirs
    BY DEF SyncFile, DestInv, At
  <2>3. Syncing(dest[i], f) \in Dirs
    BY <2>2, SyncingDir
  <2>4. dest' \in [Installers -> Dirs \cup {None}]
    BY <2>1, <2>3 DEF TypeOK
  <2> QED
    BY <2>4 DEF SyncFile, TypeOK, diskVars, IdTable
<1>2. TaskInv'
    BY DEF SyncFile, TaskInv, At, Id, InFlight, Locked, diskVars, Parsed
<1>3. LockInv'
    BY DEF SyncFile, LockInv, At, Id, Locked, diskVars
<1>4. DestInv'
  <2>1. PICK f \in dest[i].files \ dest[i].synced : dest' = [dest EXCEPT ![i] = Syncing(@, f)]
    BY DEF SyncFile
  <2>2. dest[i] \in Dirs
    BY DEF SyncFile, DestInv, At
  <2>3. /\ dest'[i] = Syncing(dest[i], f)
        /\ \A j \in Installers \ {i} : dest'[j] = dest[j]
    BY <2>1 DEF TypeOK
  <2>4. dest'[i] \in Dirs /\ dest'[i].pkg = dest[i].pkg /\ dest'[i].files = dest[i].files
    BY <2>2, <2>3, SyncingDir
  <2> QED
    BY <2>3, <2>4 DEF SyncFile, DestInv, At, diskVars
<1>5. DiskInv'
    BY DEF SyncFile, DiskInv, At, diskVars
<1>6. LogInv'
    BY DEF SyncFile, LogInv, At, diskVars
<1>7. CommitInv'
    BY DEF SyncFile, CommitInv, At, Id, diskVars
<1> QED
  BY <1>1, <1>2, <1>3, <1>4, <1>5, <1>6, <1>7

LEMMA SyncedStep ==
  ASSUME IInv, NEW i \in Installers, Synced(i)
  PROVE  IInv'
<1> USE DEF IInv
<1>1. TypeOK'
    BY DEF Synced, TypeOK, GoTo, At, Resting, InFlight, Locked, diskVars, IdTable
<1>2. TaskInv'
    BY DEF Synced, TaskInv, GoTo, At, Id, InFlight, Locked, diskVars, Parsed
<1>3. LockInv'
    BY DEF Synced, LockInv, GoTo, At, Id, Locked, diskVars
<1>4. DestInv'
    BY DEF Synced, DestInv, GoTo, At, diskVars
<1>5. DiskInv'
    BY DEF Synced, DiskInv, GoTo, At, diskVars
<1>6. LogInv'
    BY DEF Synced, LogInv, GoTo, At, diskVars
<1>7. CommitInv'
    BY DEF Synced, CommitInv, GoTo, At, Id, diskVars
<1> QED
  BY <1>1, <1>2, <1>3, <1>4, <1>5, <1>6, <1>7

LEMMA SyncDestStep ==
  ASSUME IInv, NEW i \in Installers, SyncDest(i)
  PROVE  IInv'
<1> USE DEF IInv
<1>1. TypeOK'
  <2>1. dest[i] \in Dirs
    BY DEF SyncDest, DestInv, At
  <2>2. SyncingEntries(dest[i]) \in Dirs
    BY <2>1, SyncingEntriesDir
  <2>3. dest' \in [Installers -> Dirs \cup {None}]
    BY <2>2 DEF SyncDest, TypeOK
  <2> QED
    BY <2>3 DEF SyncDest, TypeOK, GoTo, At, Resting, InFlight, Locked, diskVars, IdTable
<1>2. TaskInv'
    BY DEF SyncDest, TaskInv, GoTo, At, Id, InFlight, Locked, diskVars, Parsed
<1>3. LockInv'
    BY DEF SyncDest, LockInv, GoTo, At, Id, Locked, diskVars
<1>4. DestInv'
  <2>1. /\ dest'[i] = SyncingEntries(dest[i])
        /\ \A j \in Installers \ {i} : dest'[j] = dest[j]
    BY DEF SyncDest, TypeOK
  <2>2. dest[i] \in Dirs
    BY DEF SyncDest, DestInv, At
  <2>3. /\ dest'[i] \in Dirs
        /\ dest'[i].pkg = dest[i].pkg
        /\ dest'[i].files = dest[i].files
        /\ dest'[i].synced = dest[i].synced
        /\ dest'[i].entries
    BY <2>1, <2>2, SyncingEntriesDir
  <2> QED
    BY <2>1, <2>3 DEF SyncDest, TypeOK, DestInv, GoTo, At, Resting, InFlight, Locked, diskVars
<1>5. DiskInv'
    BY DEF SyncDest, DiskInv, GoTo, At, diskVars
<1>6. LogInv'
    BY DEF SyncDest, LogInv, GoTo, At, diskVars
<1>7. CommitInv'
    BY DEF SyncDest, CommitInv, GoTo, At, Id, diskVars
<1> QED
  BY <1>1, <1>2, <1>3, <1>4, <1>5, <1>6, <1>7

\* What is published is whole, and the log cannot hold its id: a logged id is on disk.
LEMMA RenameStep ==
  ASSUME IInv, NEW i \in Installers, Rename(i)
  PROVE  IInv'
<1> USE DEF IInv
<1>1. TypeOK'
    BY DEF Rename, TypeOK, GoTo, At, Id, Resting, InFlight, Locked, IdTable
<1>2. TaskInv'
    BY DEF Rename, TaskInv, GoTo, At, Id, InFlight, Locked, Parsed
<1>3. LockInv'
    BY DEF Rename, LockInv, GoTo, At, Id, Locked
<1>4. DestInv'
    BY DEF Rename, TypeOK, DestInv, GoTo, At, Id, Resting, InFlight, Locked, IdTable
<1>5. DiskInv'
    BY DEF Rename, DiskInv, DestInv, GoTo, At, Id
<1>6. LogInv'
    BY DEF Rename, LogInv, GoTo, At, Id
<1>7. CommitInv'
    BY NoneIsNoPackage, NoneAssumption DEF Rename, TypeOK, CommitInv, TaskInv, LogInv, DestInv, GoTo, At,
     Id, Resting, InFlight, Locked, IdTable, Parsed
<1> QED
  BY <1>1, <1>2, <1>3, <1>4, <1>5, <1>6, <1>7

\* Links become durable, and none is lost.
LEMMA SyncModulesDirStep ==
  ASSUME IInv, NEW i \in Installers, SyncModulesDir(i)
  PROVE  IInv'
<1> USE DEF IInv
<1>1. TypeOK'
    BY DEF SyncModulesDir, TypeOK, GoTo, At, Resting, InFlight, Locked, IdTable
<1>2. TaskInv'
    BY DEF SyncModulesDir, TaskInv, GoTo, At, Id, InFlight, Locked, Parsed
<1>3. LockInv'
    BY DEF SyncModulesDir, LockInv, GoTo, At, Id, Locked
<1>4. DestInv'
    BY DEF SyncModulesDir, DestInv, GoTo, At
<1>5. DiskInv'
    BY DEF SyncModulesDir, DiskInv, GoTo, At
<1>6. LogInv'
    BY DEF SyncModulesDir, LogInv, GoTo, At
<1>7. CommitInv'
    BY DEF SyncModulesDir, CommitInv, TaskInv, GoTo, At, Id, InFlight, Locked, Parsed
<1> QED
  BY <1>1, <1>2, <1>3, <1>4, <1>5, <1>6, <1>7

\* The record follows the durable link; no other task is committing this id.
LEMMA RecordStep ==
  ASSUME IInv, NEW i \in Installers, Record(i)
  PROVE  IInv'
<1> USE DEF IInv
<1>1. TypeOK'
    BY DEF Record, TypeOK, GoTo, At, Id, Resting, InFlight, Locked, IdTable, Insert
<1>2. TaskInv'
    BY NoneIsNoPackage, NoneAssumption DEF Record, TaskInv, GoTo, At, Id, InFlight, Locked, Insert,
     Parsed
<1>3. LockInv'
    BY DEF Record, LockInv, GoTo, At, Id, Locked, Insert
<1>4. DestInv'
    BY DEF Record, DestInv, GoTo, At, Id, Insert
<1>5. DiskInv'
    BY DEF Record, DiskInv, GoTo, At, Id, Insert
<1>6. LogInv'
    BY DEF Record, TypeOK, LogInv, CommitInv, GoTo, At, Id, Resting, InFlight, Locked,
     IdTable, Insert
<1>7. CommitInv'
    BY NoneIsNoPackage, NoneAssumption DEF Record, TypeOK, CommitInv, TaskInv, LockInv, GoTo, At, Id,
     Resting, InFlight, Locked, IdTable, Insert, Parsed
<1> QED
  BY <1>1, <1>2, <1>3, <1>4, <1>5, <1>6, <1>7

\* As Record, except that memory may fall behind the log.
LEMMA RecordFailsStep ==
  ASSUME IInv, NEW i \in Installers, RecordFails(i)
  PROVE  IInv'
<1> USE DEF IInv
<1>1. TypeOK'
    BY DEF RecordFails, TypeOK, GoTo, At, Return, Id, Resting, InFlight, Locked,
     IdTable, Insert
<1>2. TaskInv'
    BY DEF RecordFails, TypeOK, TaskInv, GoTo, At, Return, Id, Resting, InFlight,
     Locked, IdTable, Insert, Parsed
<1>3. LockInv'
    BY DEF RecordFails, TypeOK, LockInv, TaskInv, GoTo, At, Return, Id, Resting,
     InFlight, Locked, IdTable, Insert, Parsed
<1>4. DestInv'
    BY DEF RecordFails, DestInv, GoTo, At, Return, Id, Insert
<1>5. DiskInv'
    BY DEF RecordFails, DiskInv, GoTo, At, Return, Id, Insert
<1>6. LogInv'
    BY DEF RecordFails, TypeOK, LogInv, CommitInv, GoTo, At, Return, Id, Resting,
     InFlight, Locked, IdTable, Insert
<1>7. CommitInv'
    BY DEF RecordFails, TypeOK, CommitInv, TaskInv, LockInv, GoTo, At, Return, Id,
     Resting, InFlight, Locked, IdTable, Insert, Parsed
<1> QED
  BY <1>1, <1>2, <1>3, <1>4, <1>5, <1>6, <1>7

LEMMA CleanupStep ==
  ASSUME IInv, NEW i \in Installers, Cleanup(i)
  PROVE  IInv'
<1> USE DEF IInv
<1>1. TypeOK'
    BY DEF Cleanup, TypeOK, GoTo, At, Return, Resting, InFlight, Locked, diskVars,
     IdTable
<1>2. TaskInv'
    BY DEF Cleanup, TypeOK, TaskInv, CommitInv, GoTo, At, Return, Id, Resting, InFlight,
     Locked, diskVars, IdTable, Parsed
<1>3. LockInv'
    BY DEF Cleanup, TypeOK, LockInv, TaskInv, GoTo, At, Return, Id, Resting, InFlight,
     Locked, diskVars, IdTable, Parsed
<1>4. DestInv'
    BY DEF Cleanup, DestInv, GoTo, At, Return, diskVars
<1>5. DiskInv'
    BY DEF Cleanup, DiskInv, GoTo, At, Return, diskVars
<1>6. LogInv'
    BY DEF Cleanup, LogInv, GoTo, At, Return, diskVars
<1>7. CommitInv'
    BY DEF Cleanup, CommitInv, GoTo, At, Return, Id, diskVars
<1> QED
  BY <1>1, <1>2, <1>3, <1>4, <1>5, <1>6, <1>7

LEMMA IoFailsStep ==
  ASSUME IInv, NEW i \in Installers, IoFails(i)
  PROVE  IInv'
<1> USE DEF IInv
<1>1. TypeOK'
    BY DEF IoFails, TypeOK, GoTo, Return, Resting, InFlight, Locked, diskVars, Fallible,
     IdTable
<1>2. TaskInv'
    BY DEF IoFails, TypeOK, TaskInv, GoTo, Return, Id, Resting, InFlight, Locked,
     diskVars, Fallible, IdTable, Parsed
<1>3. LockInv'
    BY DEF IoFails, TypeOK, LockInv, TaskInv, GoTo, Return, Id, Resting, InFlight,
     Locked, diskVars, Fallible, IdTable, Parsed
<1>4. DestInv'
    BY DEF IoFails, TypeOK, DestInv, GoTo, Return, Resting, InFlight, Locked, diskVars,
     Fallible, IdTable
<1>5. DiskInv'
    BY DEF IoFails, DiskInv, GoTo, Return, diskVars, Fallible
<1>6. LogInv'
    BY DEF IoFails, LogInv, GoTo, Return, diskVars, Fallible
<1>7. CommitInv'
    BY DEF IoFails, TypeOK, CommitInv, GoTo, Return, Id, Resting, InFlight, Locked,
     diskVars, Fallible, IdTable
<1> QED
  BY <1>1, <1>2, <1>3, <1>4, <1>5, <1>6, <1>7
--------------------------------------------------------------------------------
(* So do crashes and restarts, and a step that changes nothing.            *)

\* A process crash forgets what memory held, and leaves the disk alone.
LEMMA ProcessCrashStep ==
  ASSUME IInv, ProcessCrash
  PROVE  IInv'
<1> USE DEF IInv, ProcessCrash, LoseMemory
<1>1. TypeOK'
    BY DEF TypeOK, Resting, diskVars, IdTable
<1>2. TaskInv' /\ LockInv' /\ DestInv' /\ CommitInv'
    BY DEF TaskInv, LockInv, DestInv, CommitInv, InFlight, Locked
<1>3. DiskInv'
    BY DEF DiskInv, diskVars
<1>4. LogInv'
    BY DEF LogInv, diskVars
<1> QED
  BY <1>1, <1>2, <1>3, <1>4

\* A power loss may take back a rename that was not synced, but no module of
\* the log, and what it leaves of a directory is whole: it was synced.
LEMMA PowerLossStep ==
  ASSUME IInv, PowerLoss
  PROVE  IInv'
<1> USE DEF IInv, PowerLoss
<1>1. PICK unlinked \in SUBSET (Keys(modulesDir) \ linked), lost \in [Modules -> SUBSET Files] :
        modulesDir' = [m \in Modules |->
                         IF modulesDir[m] = None \/ m \in unlinked
                           THEN None
                           ELSE Survivor(modulesDir[m], lost[m])]
  OBVIOUS
<1>2. \A m \in Modules : modulesDir[m] # None => modulesDir[m] \in Dirs
  BY DEF TypeOK
\* A published directory is synced, so nothing of it is lost.
<1>3. \A m \in Modules :
        modulesDir'[m] = IF modulesDir[m] = None \/ m \in unlinked THEN None ELSE modulesDir[m]
  <2> SUFFICES ASSUME NEW m \in Modules, modulesDir[m] # None, m \notin unlinked
               PROVE  modulesDir'[m] = modulesDir[m]
    BY <1>1
  <2>1. modulesDir'[m] = Survivor(modulesDir[m], lost[m])
    BY <1>1
  <2>2. /\ modulesDir[m] \in Dirs
        /\ modulesDir[m].entries = TRUE
        /\ modulesDir[m].synced = modulesDir[m].files
    BY <1>2 DEF DiskInv, Dirs
  <2>3. modulesDir[m].files \ (lost[m] \ modulesDir[m].synced) = modulesDir[m].files
    BY <2>2
  <2> QED
    BY <2>1, <2>2, <2>3 DEF Survivor, Dirs
<1>4. linked' = {m \in Modules : modulesDir'[m] # None}
  OBVIOUS
<1>5. TypeOK'
  <2>1. modulesDir' \in [Modules -> Dirs \cup {None}]
    BY <1>1, <1>2, <1>3
  <2> QED
    BY <1>4, <2>1 DEF TypeOK, LoseMemory, Resting, IdTable
<1>6. TaskInv' /\ LockInv' /\ DestInv' /\ CommitInv'
  BY DEF LoseMemory, TaskInv, LockInv, DestInv, CommitInv, InFlight, Locked
<1>7. DiskInv'
  BY <1>3 DEF DiskInv
\* Durable links survive, and the log only holds modules with one.
<1>8. LogInv'
  BY <1>1, <1>3, <1>4 DEF LogInv, LoseMemory, Keys
<1> QED
  BY <1>5, <1>6, <1>7, <1>8

\* A restart brings memory level with the log.
LEMMA RestartStep ==
  ASSUME IInv, Restart
  PROVE  IInv'
<1> USE DEF IInv, Restart, taskVars, diskVars
<1>1. TypeOK'
  BY DEF TypeOK
<1>2. TaskInv'
  BY DEF TaskInv, InFlight, Locked, Parsed
<1>3. LockInv'
  BY DEF LockInv, Id
<1>4. DestInv' /\ DiskInv'
  BY DEF DestInv, DiskInv
<1>5. LogInv'
  BY DEF LogInv
<1>6. CommitInv'
  BY DEF CommitInv, TaskInv, Id
<1> QED
  BY <1>1, <1>2, <1>3, <1>4, <1>5, <1>6

\* No part of the invariant looks at anything but the variables.
LEMMA StutterStep ==
  ASSUME IInv, UNCHANGED vars
  PROVE  IInv'
BY DEF IInv, vars, taskVars, diskVars, TypeOK, TaskInv, LockInv, DestInv, DiskInv, LogInv,
       CommitInv, Parsed, Id

--------------------------------------------------------------------------------
(* The invariant, and the properties it gives.                             *)

\* Nothing has happened yet: no task, no directory, no record.
LEMMA InitIInv == Init => IInv
<1> SUFFICES ASSUME Init PROVE IInv
  OBVIOUS
<1>1. TypeOK
  BY DEF Init, TypeOK, Resting, IdTable
<1>2. TaskInv /\ LockInv /\ DestInv /\ CommitInv
  BY DEF Init, TaskInv, LockInv, DestInv, CommitInv, InFlight, Locked
<1>3. DiskInv /\ LogInv
  BY DEF Init, DiskInv, LogInv
<1> QED
  BY <1>1, <1>2, <1>3 DEF IInv

\* IInv is inductive.
LEMMA NextIInv == IInv /\ [Next]_vars => IInv'
<1> SUFFICES ASSUME IInv, [Next]_vars PROVE IInv'
  OBVIOUS
<1>1. ASSUME NEW i \in Installers, Request(i) \/ Lock(i) \/ Progress(i)
      PROVE  IInv'
  <2>1. CASE Request(i) \/ Lock(i)
    BY <2>1, RequestStep, LockStep
  <2>2. CASE Validate(i) \/ StageFile(i) \/ Staged(i) \/ StagingFails(i)
    BY <2>2, ValidateStep, StageFileStep, StagedStep, StagingFailsStep
  <2>3. CASE Parse(i) \/ ParseFails(i)
    BY <2>3, ParseStep, ParseFailsStep
  <2>4. CASE TakeSnapshot(i) \/ Check(i) \/ CheckFails(i) \/ MakeDest(i)
    BY <2>4, TakeSnapshotStep, CheckStep, CheckFailsStep, MakeDestStep
  <2>5. CASE CopyFile(i) \/ Copied(i) \/ SyncFile(i) \/ Synced(i) \/ SyncDest(i)
    BY <2>5, CopyFileStep, CopiedStep, SyncFileStep, SyncedStep, SyncDestStep
  <2>6. CASE Rename(i) \/ SyncModulesDir(i) \/ IoFails(i)
    BY <2>6, RenameStep, SyncModulesDirStep, IoFailsStep
  <2>7. CASE Record(i) \/ RecordFails(i) \/ Cleanup(i)
    BY <2>7, RecordStep, RecordFailsStep, CleanupStep
  <2> QED
    BY <1>1, <2>1, <2>2, <2>3, <2>4, <2>5, <2>6, <2>7 DEF Progress
<1>2. CASE ProcessCrash
  BY <1>2, ProcessCrashStep
<1>3. CASE PowerLoss
  BY <1>3, PowerLossStep
<1>4. CASE Restart
  BY <1>4, RestartStep
<1>5. CASE UNCHANGED vars
  BY <1>5, StutterStep
<1> QED
  BY <1>1, <1>2, <1>3, <1>4, <1>5 DEF Next, InstallStep

\* The inductive invariant holds in every reachable state.
THEOREM Invariance == Spec => []IInv
BY InitIInv, NextIInv, PTL DEF Spec

\* Every variable has its type.
THEOREM TypeCorrect == Spec => []TypeOK
<1>1. IInv => TypeOK
  BY DEF IInv
<1> QED
  BY <1>1, Invariance, PTL

\* No crash, error or concurrent installation ever publishes part of a module.
THEOREM PublishedModulesAreComplete == Spec => []PublishedIsComplete
<1>1. IInv => PublishedIsComplete
  BY DEF IInv, DiskInv, PublishedIsComplete, Complete, Keys
<1> QED
  BY <1>1, Invariance, PTL

\* A module is recorded only when its files would survive a power loss.
THEOREM RecordsFollowDurableFiles == Spec => []RegisteredIsDurable
<1>1. IInv => RegisteredIsDurable
  BY DEF IInv, DiskInv, LogInv, RegisteredIsDurable, Complete, Durable, Keys
<1> QED
  BY <1>1, Invariance, PTL

\* The recorded manifest is that of the installed files.
THEOREM RecordsMatchFiles == Spec => []ManifestMatchesFiles
<1>1. IInv => ManifestMatchesFiles
  BY DEF IInv, LogInv, ManifestMatchesFiles, Keys
<1> QED
  BY <1>1, Invariance, PTL

\* The per-id locks keep the installations of one module id apart.
THEOREM InstallersAreExclusive == Spec => []OneInstallerPerModule
<1>1. IInv => OneInstallerPerModule
  BY DEF IInv, LockInv, OneInstallerPerModule
<1> QED
  BY <1>1, Invariance, PTL

\* The state in memory shows nothing that replay would not rebuild.
THEOREM MemoryFollowsLog == Spec => []MemoryWithinLog
<1>1. IInv => MemoryWithinLog
  BY DEF IInv, LogInv, MemoryWithinLog, Keys
<1> QED
  BY <1>1, Invariance, PTL

\* An answer "ok" is never given for a module that is not registered.
THEOREM AnswersAreTrue == Spec => []OkMeansRegistered
<1>1. IInv => OkMeansRegistered
  BY DEF IInv, TaskInv, Parsed, Id, OkMeansRegistered, Keys
<1> QED
  BY <1>1, Invariance, PTL

--------------------------------------------------------------------------------
(* Install implements ModuleStore.                                         *)

phase == [i \in Installers |-> PhaseOf(pc[i])]

\* Moving one task moves its phase, and no other.
LEMMA PhaseMoves ==
  ASSUME TypeOK, NEW i \in Installers, NEW step, GoTo(i, step)
  PROVE  phase' = [phase EXCEPT ![i] = PhaseOf(step)]
BY DEF TypeOK, GoTo, phase

\* A task that stays pending is invisible to the registry.
LEMMA PendingStep ==
  ASSUME TypeOK, NEW i \in Installers, NEW step, GoTo(i, step), UNCHANGED wal,
         PhaseOf(pc[i]) = PhaseOf(step)
  PROVE  UNCHANGED Store!vars
<1>1. phase' = [phase EXCEPT ![i] = phase[i]]
  BY PhaseMoves DEF phase
<1>2. phase' = phase
  BY <1>1 DEF phase
<1> QED
  BY <1>2 DEF Store!vars, phase

\* A pending task that fails without touching the log is refused.
LEMMA RefuseStep ==
  ASSUME TypeOK, NEW i \in Installers, GoTo(i, "failed"), UNCHANGED wal,
         PhaseOf(pc[i]) = "pending"
  PROVE  Store!Refuse(i)
<1>1. phase' = [phase EXCEPT ![i] = "failed"]
  BY PhaseMoves DEF PhaseOf, Resting
<1> QED
  BY <1>1 DEF Store!Refuse, phase

\* A record registers the bundle of a pending task, answered or not.
LEMMA RegisterStep ==
  ASSUME IInv, NEW i \in Installers, At(i, "record"),
         wal' = Insert(wal, Id(i), bundle[i]),
         NEW step \in {"cleanup", "failed"}, GoTo(i, step)
  PROVE  Store!Register(i)
<1>1. /\ bundle[i] \in Packages
      /\ IdOf[bundle[i]] \in Modules
      /\ wal[IdOf[bundle[i]]] = None
  BY DEF IInv, TaskInv, CommitInv, Parsed, Locked, At, Id
<1>2. wal' = [wal EXCEPT ![IdOf[bundle[i]]] = bundle[i]]
  BY DEF Insert, Id
<1>3. phase[i] = "pending"
  BY DEF phase, PhaseOf, Resting, At
<1>4. phase' = [phase EXCEPT ![i] = PhaseOf(step)]
  BY PhaseMoves DEF IInv
<1>5. PhaseOf(step) \in {"registered", "failed"}
  BY DEF PhaseOf, Resting
<1> QED
  BY <1>1, <1>2, <1>3, <1>4, <1>5 DEF Store!Register, phase

\* Every step of a task is a step of the registry, or invisible to it.
LEMMA TaskRefines ==
  ASSUME IInv, NEW i \in Installers, Request(i) \/ Lock(i) \/ Progress(i)
  PROVE  Store!Next \/ UNCHANGED Store!vars
<1>1. TypeOK
  BY DEF IInv
<1> USE <1>1
<1>2. CASE Request(i)
  <2>1. phase' = [phase EXCEPT ![i] = "pending"]
    BY <1>2, PhaseMoves DEF Request, PhaseOf, Resting
  <2>2. phase[i] \in {"idle", "ok", "failed"} /\ UNCHANGED wal
    BY <1>2 DEF Request, Resting, phase, PhaseOf, diskVars
  <2>3. Store!Ask(i)
    BY <2>1, <2>2 DEF Store!Ask, phase
  <2> QED
    BY <2>3 DEF Store!Next
<1>3. CASE Validate(i) \/ Staged(i) \/ Parse(i)
  BY <1>3, PendingStep DEF Validate, Staged, Parse, At, PhaseOf, Resting, diskVars
<1>4. CASE Lock(i) \/ TakeSnapshot(i) \/ Check(i) \/ MakeDest(i)
  BY <1>4, PendingStep
     DEF Lock, TakeSnapshot, Check, MakeDest, At, PhaseOf, Resting, diskVars
<1>5. CASE Copied(i) \/ Synced(i) \/ SyncDest(i) \/ Rename(i) \/ SyncModulesDir(i)
  BY <1>5, PendingStep
     DEF Copied, Synced, SyncDest, Rename, SyncModulesDir, At, PhaseOf, Resting, diskVars
<1>6. CASE StageFile(i) \/ CopyFile(i) \/ SyncFile(i)
  BY <1>6 DEF StageFile, CopyFile, SyncFile, diskVars, Store!vars
<1>7. CASE StagingFails(i) \/ ParseFails(i) \/ CheckFails(i) \/ IoFails(i)
  <2>1. Store!Refuse(i)
    BY <1>7, RefuseStep
       DEF StagingFails, ParseFails, CheckFails, IoFails, Return, At, Fallible, PhaseOf, Resting,
           diskVars
  <2> QED
    BY <2>1 DEF Store!Next
<1>8. CASE Record(i)
  <2>1. Store!Register(i)
    BY <1>8, RegisterStep DEF Record
  <2> QED
    BY <2>1 DEF Store!Next
<1>9. CASE RecordFails(i)
  <2>1. At(i, "record") /\ GoTo(i, "failed")
    BY <1>9 DEF RecordFails, Return
  <2>2. CASE wal' = wal
    BY <2>1, <2>2, RefuseStep DEF At, PhaseOf, Resting, Store!Next
  <2>3. CASE wal' = Insert(wal, Id(i), bundle[i])
    BY <2>1, <2>3, RegisterStep DEF Store!Next
  <2> QED
    BY <1>9, <2>2, <2>3 DEF RecordFails
<1>10. CASE Cleanup(i)
  <2>1. phase' = [phase EXCEPT ![i] = "ok"]
    BY <1>10, PhaseMoves DEF Cleanup, Return, PhaseOf, Resting
  <2>2. phase[i] = "registered" /\ UNCHANGED wal
    BY <1>10 DEF Cleanup, At, Resting, phase, PhaseOf, diskVars
  <2>3. Store!Confirm(i)
    BY <2>1, <2>2 DEF Store!Confirm, phase
  <2> QED
    BY <2>3 DEF Store!Next
<1> QED
  BY <1>2, <1>3, <1>4, <1>5, <1>6, <1>7, <1>8, <1>9, <1>10 DEF Progress

\* So is a crash, which loses requests but no registration.
LEMMA NextRefines == IInv /\ [Next]_vars => [Store!Next]_(Store!vars)
<1> SUFFICES ASSUME IInv, [Next]_vars
             PROVE  Store!Next \/ UNCHANGED Store!vars
  OBVIOUS
<1>1. CASE InstallStep
  BY <1>1, TaskRefines DEF InstallStep
<1>2. CASE ProcessCrash \/ PowerLoss
  <2>1. pc' = [i \in Installers |-> "idle"] /\ UNCHANGED wal
    BY <1>2 DEF ProcessCrash, PowerLoss, LoseMemory, diskVars
  <2>2. Store!Crash
    BY <2>1 DEF Store!Crash, PhaseOf, Resting
  <2> QED
    BY <2>2 DEF Store!Next
<1>3. CASE Restart
  BY <1>3 DEF Restart, taskVars, diskVars, Store!vars
<1>4. CASE UNCHANGED vars
  BY <1>4 DEF vars, taskVars, diskVars, Store!vars
<1> QED
  BY <1>1, <1>2, <1>3, <1>4 DEF Next

\* The pipeline, with all its files, locks, errors and crashes, is a registry in
\* which an id is registered at most once and for good.
THEOREM Refinement == Spec => ImplementsModuleStore
<1>1. Init => Store!Init
  BY DEF Init, Store!Init, PhaseOf, Resting
<1> QED
  BY <1>1, NextRefines, Invariance, PTL DEF Spec, Store!Spec, ImplementsModuleStore

--------------------------------------------------------------------------------
(* Deployments.                                                            *)

\* What each step of a deployment may rely on.
DeployInv ==
  \A d \in Deployers :
    /\ dpc[d] = "snapshot" => known[d] \subseteq Keys(installed)
    /\ dpc[d] = "check" => known[d] \subseteq dsnapshot[d] /\ dsnapshot[d] \subseteq Keys(installed)
    /\ dpc[d] \in {"stage", "parse", "ok"} => checked[d] \in Keys(installed)
    /\ dpc[d] = "stage" /\ ~edited[d] => spec[d] = checked[d]
    /\ dpc[d] \in {"parse", "ok"} /\ ~edited[d] => dstaged[d] = checked[d]
    /\ dpc[d] = "notinstalled" => checked[d] \notin known[d]

DInv == DTypeOK /\ IInv /\ DeployInv

--------------------------------------------------------------------------------
(* The installations, as a deployment sees them.                           *)

\* No step of an installation takes a module out of the state.
LEMMA InstalledGrows ==
  ASSUME IInv, InstallStep
  PROVE  Keys(installed) \subseteq Keys(installed')
<1>1. PICK i \in Installers : Request(i) \/ Lock(i) \/ Progress(i)
  BY DEF InstallStep
<1>2. CASE Record(i)
  <2>1. /\ bundle[i] \in Packages /\ Id(i) \in Modules
        /\ installed \in [Modules -> Packages \cup {None}]
    BY <1>2 DEF IInv, TypeOK, TaskInv, Parsed, Id, Record, At, Locked, IdTable
  <2>2. installed' = [installed EXCEPT ![Id(i)] = bundle[i]]
    BY <1>2 DEF Record, Insert
  <2> QED
    BY <2>1, <2>2, NoneIsNoPackage DEF Keys
<1>3. CASE Request(i) \/ Lock(i)
  BY <1>3 DEF Request, Lock
<1>4. CASE Validate(i) \/ StageFile(i) \/ Staged(i) \/ StagingFails(i) \/ Parse(i)
           \/ ParseFails(i) \/ TakeSnapshot(i) \/ Check(i) \/ CheckFails(i) \/ MakeDest(i)
           \/ CopyFile(i) \/ Copied(i)
  BY <1>4 DEF Validate, StageFile, Staged, StagingFails, Parse, ParseFails, TakeSnapshot, Check, CheckFails, MakeDest,
              CopyFile, Copied
<1>5. CASE SyncFile(i) \/ Synced(i) \/ SyncDest(i) \/ Rename(i) \/ SyncModulesDir(i)
           \/ RecordFails(i) \/ Cleanup(i) \/ IoFails(i)
  BY <1>5 DEF SyncFile, Synced, SyncDest, Rename, SyncModulesDir, RecordFails, Cleanup, IoFails
<1> QED
  BY <1>1, <1>2, <1>3, <1>4, <1>5 DEF Progress

\* Nor does a restart, which recovers what the log holds.
LEMMA RestartGrows ==
  ASSUME IInv, Restart
  PROVE  Keys(installed) \subseteq Keys(installed')
BY DEF IInv, LogInv, Restart, Keys

\* Only the steps of deployments disturb their part of the invariant.
LEMMA OthersKeepDeployInv ==
  ASSUME DeployInv, UNCHANGED deployVars, Keys(installed) \subseteq Keys(installed')
  PROVE  DeployInv'
BY DEF DeployInv, deployVars

--------------------------------------------------------------------------------
(* The steps of a deployment.                                              *)

\* One task moves, and memory does not change meanwhile.
LEMMA DeployStepInv ==
  ASSUME DTypeOK, DeployInv, NEW d \in Deployers, DRequest(d) \/ DEdit(d) \/ DProgress(d)
  PROVE  DTypeOK' /\ DeployInv' /\ UNCHANGED vars
<1> USE DEF DTypeOK, DGoTo, DResting, DInFlight, Specs
<1>1. UNCHANGED vars
  BY DEF DRequest, DEdit, DProgress, DSnapshot, DCheck, DStage, DParse, DFails
<1>2. UNCHANGED installed /\ TypeOK'
  BY <1>1 DEF vars, taskVars, diskVars, TypeOK
<1> USE <1>1, <1>2
<1>3. CASE DRequest(d)
  <2>1. Keys(installed) \in SUBSET Modules
    BY DEF Keys
  <2>2. DTypeOK'
    BY <1>3, <2>1 DEF DRequest
  <2>3. DeployInv'
    BY <1>3 DEF DRequest, DeployInv
  <2> QED
    BY <2>2, <2>3
<1>4. CASE DEdit(d)
  BY <1>4 DEF DEdit, DeployInv
<1>5. CASE DSnapshot(d)
  <2>1. Keys(installed) \in SUBSET Modules
    BY DEF Keys
  <2>2. DTypeOK'
    BY <1>5, <2>1 DEF DSnapshot
  <2>3. DeployInv'
    BY <1>5 DEF DSnapshot, DeployInv
  <2> QED
    BY <2>2, <2>3
\* The look-up in the snapshot: found, it is installed; else it was not known.
<1>6. CASE DCheck(d)
  <2>1. DTypeOK'
    BY <1>6 DEF DCheck
  <2>2. DeployInv'
    BY <1>6 DEF DCheck, Found, DeployInv
  <2> QED
    BY <2>1, <2>2
<1>7. CASE DStage(d)
  BY <1>7 DEF DStage, DeployInv
<1>8. CASE DParse(d) \/ DFails(d)
  BY <1>8 DEF DParse, DFails, DeployInv
<1> QED
  BY <1>3, <1>4, <1>5, <1>6, <1>7, <1>8 DEF DProgress

\* A crash takes the deployments with it.
LEMMA LostDeployInv ==
  ASSUME DTypeOK, TypeOK', DeployersLost
  PROVE  DTypeOK' /\ DeployInv'
BY DEF DTypeOK, DeployersLost, DeployInv, DResting, DInFlight, Specs

--------------------------------------------------------------------------------
(* The invariant, and the properties it gives.                             *)

\* Nothing has been asked yet.
LEMMA InitDInv == DInit => DInv
<1> SUFFICES ASSUME DInit PROVE DInv
  OBVIOUS
<1>1. IInv
  BY InitIInv DEF DInit
<1>2. DTypeOK /\ DeployInv
  BY <1>1 DEF DInit, IInv, DTypeOK, DeployInv, DResting, DInFlight, Specs
<1> QED
  BY <1>1, <1>2 DEF DInv

\* DInv is inductive.
LEMMA NextDInv == DInv /\ [DNext]_allVars => DInv'
<1> SUFFICES ASSUME DInv, [DNext]_allVars PROVE DInv'
  OBVIOUS
<1>1. DTypeOK /\ IInv /\ DeployInv
  BY DEF DInv
<1>2. CASE DeployStep
  <2>1. PICK d \in Deployers : DRequest(d) \/ DEdit(d) \/ DProgress(d)
    BY <1>2 DEF DeployStep
  <2>2. DTypeOK' /\ DeployInv' /\ UNCHANGED vars
    BY <1>1, <2>1, DeployStepInv
  <2>3. IInv'
    BY <1>1, <2>2, StutterStep
  <2> QED
    BY <2>2, <2>3 DEF DInv
\* A step of the installations, or none, leaves the deployments alone.
<1>3. ASSUME [Next]_vars, UNCHANGED deployVars, Keys(installed) \subseteq Keys(installed')
      PROVE  DInv'
  <2>1. IInv'
    BY <1>1, <1>3, NextIInv
  <2>2. DeployInv'
    BY <1>1, <1>3, OthersKeepDeployInv
  <2>3. DTypeOK'
    BY <1>1, <1>3, <2>1 DEF DTypeOK, IInv, deployVars
  <2> QED
    BY <2>1, <2>2, <2>3 DEF DInv
<1>4. CASE InstallStep /\ UNCHANGED deployVars
  BY <1>1, <1>3, <1>4, InstalledGrows DEF Next
<1>5. CASE (ProcessCrash \/ PowerLoss) /\ DeployersLost
  <2>1. IInv'
    BY <1>1, <1>5, NextIInv DEF Next
  <2>2. DTypeOK' /\ DeployInv'
    BY <1>1, <1>5, <2>1, LostDeployInv DEF IInv
  <2> QED
    BY <2>1, <2>2 DEF DInv
<1>6. CASE Restart /\ UNCHANGED deployVars
  BY <1>1, <1>3, <1>6, RestartGrows DEF Next
<1>7. CASE UNCHANGED allVars
  <2>1. UNCHANGED vars /\ UNCHANGED deployVars
    BY <1>7 DEF allVars
  <2>2. UNCHANGED installed
    BY <2>1 DEF vars
  <2> QED
    BY <1>3, <2>1, <2>2
<1> QED
  BY <1>2, <1>4, <1>5, <1>6, <1>7 DEF DNext

\* The inductive invariant holds in every reachable state.
THEOREM DeployInvariance == DSpec => []DInv
BY InitDInv, NextDInv, PTL DEF DSpec

\* A deployment whose file was left alone between the look-up and the copy is
\* accepted, as it was copied, only for a module that is registered and durable.
THEOREM AcceptedModulesAreInstalled == DSpec => []AcceptedIsInstalled
<1>1. DInv => AcceptedIsInstalled
  BY DEF DInv, DeployInv, IInv, LogInv, DiskInv, AcceptedIsInstalled, Complete, Durable, Keys
<1> QED
  BY <1>1, DeployInvariance, PTL

\* A module that was installed when it was asked for is not reported missing.
THEOREM AcknowledgedModulesAreDeployable == DSpec => []AcknowledgedIsDeployable
<1>1. DInv => AcknowledgedIsDeployable
  BY DEF DInv, DeployInv, AcknowledgedIsDeployable
<1> QED
  BY <1>1, DeployInvariance, PTL

\* Every variable has its type, those of the deployments and those of Install.
THEOREM DeploymentsAreTyped == DSpec => []DTypeOK
<1>1. DInv => DTypeOK
  BY DEF DInv
<1> QED
  BY <1>1, DeployInvariance, PTL

\* A daemon that also deploys is still the daemon of Install: deployments take
\* no step of their own in its state, so that all that is proved of Install is
\* true beside them, first of all that it implements ModuleStore.
THEOREM DeploymentsKeepTheStore == DSpec => Spec /\ ImplementsModuleStore
<1>1. DInit => Init
  BY DEF DInit
<1>2. DInv /\ [DNext]_allVars => [Next]_vars
  <2> SUFFICES ASSUME DInv, [DNext]_allVars
               PROVE  [Next]_vars
    OBVIOUS
  <2>1. CASE DeployStep
    BY <2>1, DeployStepInv DEF DInv, DeployStep
  <2>2. CASE InstallStep \/ ProcessCrash \/ PowerLoss \/ Restart
    BY <2>2 DEF Next
  <2>3. CASE UNCHANGED allVars
    BY <2>3 DEF allVars
  <2> QED
    BY <2>1, <2>2, <2>3 DEF DNext
<1>3. DSpec => Spec
  BY <1>1, <1>2, DeployInvariance, PTL DEF DSpec, Spec
<1> QED
  BY <1>3, Refinement, PTL

================================================================================
