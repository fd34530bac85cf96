# A TLA+ verification of Arcella

Arcella is a daemon that installs WebAssembly components ("modules") into a
directory, keeps what it has installed in a write-ahead log, and is managed over
a Unix socket with line-oriented JSON (ALME). This directory holds TLA+ modules
that model its stateful parts, TLC configurations that check them on small
instances, and TLAPS proofs of the most important results for instances of any
size. Every definition is translated from the Rust source; `PROJECT.json` maps
definitions to lines, lists the runs, the mutants that show each property can
fail, the hazards the properties are about, and the theorems.

## The system

| Part | Source | State | Operations | Modules here |
|---|---|---|---|---|
| Installation pipeline | `arcella-core/src/runtime/{mod,install,mutators,context}.rs`, `utils/fs` | per-id locks; `installed_modules`; the log; `modules/`; staging directories | `module:install` | `ModuleStore`, `Install`, `InstallProofs` |
| Deployment requests | `runtime/{mod,deploy}.rs` | none that lasts (placeholder ids, no mutation) | `module:deploy` | `Deploy`, `InstallProofs` |
| ALME server | `arcella/src/alme/*`, `main.rs` | socket file, accept loop, one task per connection, broadcast shutdown channel | connect, one request per line, shutdown | `AlmeServer`, `AlmeServerProofs`; several daemons: `Daemon`, `DaemonProofs` |
| Command line client | `arcella-cli` | one connection | one request, one response, no retry | `Daemon` |
| Runtime lock, status | `runtime/{mod,context}.rs`, `commands.rs`, `main.rs` | `RwLock<ArcellaRuntime>` | `status`, `module:start`, `module:stop` (stubs), borrowing for the long commands, shutdown | `Daemon`, `DaemonProofs` |
| Logging | `arcella/src/log/mod.rs` | filter; ring buffer under a mutex | `init`, log an event, `log:tail` | `LogBuffer`, `LogBufferProofs` |
| Configuration loader | `arcella-core/src/config/{mod,config_loader,toml_files}.rs` | visited set, registered files, warnings, the calls in progress, a modification time | create the main file, load a file and its includes, check for changes | `ConfigLoader`, `ConfigLoaderProofs` |
| TOML documents | `utils/toml.rs`, `config/mod.rs` (`extract_subtree`) | none (values) | flatten a document into keys and includes, take a subtree out again | `TomlDocument`, `ConfigValuesProofs` |
| Configuration merge | `config/mod.rs` (`merge_config`) | preliminary and final values | merge layers, lay them over the defaults | `ConfigMerge`, `ConfigValuesProofs` |
| Manifests and deployments | `manifest/`, `wasmtime/manifest.rs`, `arcella-types/{manifest,module_id}.rs` | none (values) | read a manifest and a template, validate, apply overrides, compose a deployment | `ModuleIds`, `Manifest`, `ManifestProofs` |
| Storage directories | `storage/mod.rs` | three directories | created at start-up | `Restart` in `Install` |
| Engine | `engine/mod.rs` | none (values; nothing implements it) | profiles, validation, compatibility report | `Engine`, `ManifestProofs` |
| Cache, errors, shared types | `cache/`, `error/`, `arcella-types` | none | a stub; data | not modelled |

How they interact: the accept loop spawns a task per connection; the task parses
each line and calls `dispatch_command`, which for `module:install` and
`module:deploy` clones a few `Arc`s out of the runtime
(`ArcellaExecutionContext::from_runtime`) and then works without the runtime's
lock, sharing only the install locks, the `StateManager` (ministate: an
in-memory state behind a log) and the file system with other tasks. At ctrl-c
`main` shuts the runtime down (a no-op), sends the shutdown, waits for the
accept loop only, and exits: tasks in progress are dropped where they wait.
Nothing keeps a second daemon from starting on the same base directory. The
configuration is loaded before all this: `TomlDocument` says what one file gives,
`ConfigLoader` in which order the files come, `ConfigMerge` what becomes of them.

What is hard, and what makes each part correct:

- **Installation**: several tasks, each some twenty await points long, against a
  file system with no transactions. Errors at every step, a user who replaces files of
  the package while they are read one by one, a crash or power loss anywhere. Correct means: nothing
  incomplete is ever published under a module id; the log never speaks of files
  that are not durable; manifest and files agree; an id is registered once and
  for good; answers are true.
- **Deployment**: the same, seen from a reader without a lock.
- **ALME server**: pipelined lines, timeouts, clients that stall or vanish, a
  shutdown signal that must reach handlers accepted after it was sent, a socket
  file that outlives a crash. Correct means: responses in order and one per
  request; no client cut off without its answers; every handler ends; the socket
  file tells the truth.
- **Daemons and clients**: daemons that start, stop and die on one socket path,
  clients without a time limit, handlers and `main` contending for one lock.
  Correct means: what the client reports is what happened, and to one request
  only; a daemon that is alone is reachable, whatever was left behind, unless the system
  refuses it an operation on its own socket file; a call
  and a ctrl-c come to an end, even beside an installation that does not.
- **Logging**: levels from a hash map whose order varies; concurrent writers.
  Correct means: the longest name that is a prefix decides; the buffer is the last lines pushed.
- **Configuration**: cyclic includes, a depth limit, precedence and redefinition
  rules, files that change while they are read. Correct means: every included
  file is one layer or has a warning, in the order of priority; what is accepted
  of `arcella.toml` is what is on the disk; a broken file fails the start and an
  absent one does not; every key gets the value the documented rules name; nothing
  in a document is lost or lands under another key without a warning, and no key is
  dropped by the merge without one.
- **Manifests**: three formats tried in turn, a fourth source (`.wasm`), a template
  and overrides, validated at different places or not at all. Correct means: ids
  and manifests are read back from what is written, and whatever is admitted can be
  deployed as its template says.

## Modules

### `ModuleStore`: what an installation promises

A registry that maps each module id to the package it was installed from. A
client's installation registers its module, once and for good, or leaves the
registry alone; "ok" is said only after a registration; "failed" may be said
although the registration happened (a failed write to the log may have reached
the file); a crash loses requests and no registration.

### `Install`: the pipeline

`install_module_from_path` as one action per await point that changes something
(`pc` names the next one), for tasks in `Installers`, `StagingFails`, `IoFails` and
their kin for errors, `ProcessCrash` (a kill,
or an exit at ctrl-c), `PowerLoss` and `Restart`. The checks of
`check_module_not_installed` read the snapshot and the disk in one step, because
the id's lock is held and nobody else writes there.

A package is a directory listing: a function from the files it has, the `.wasm` among
them, to what each holds; `IdOf` says which id its manifest declares (`None`: it does not
parse, or fails validation). The files at the path of a request are not a variable: the
user may replace any of them at any moment, so that `Validate` may find any set of them
with the `.wasm`, and each `StageFile` may copy any content. What lies in the staging
directory, and is parsed, may then be a mix of revisions that never lay together at the
user's path. From the parse on only the staged files are read, which is what
`ManifestMatchesFiles` rests on. The disk is
kept in two layers: what system calls see, and what fsync has made durable
(`synced` files and `entries` of a directory, `linked` entries of `modules/`).
A power loss keeps the durable part and an arbitrary part of the rest.

| Variable | Code |
|---|---|
| `pc`, `found`, `staged`, `bundle`, `snapshot`, `dest` | the task's position and locals: `validated`, `staged`, `bundle`, `current_state`, `temp_dest_dir` |
| `holder` | `install_locks` |
| `installed` | `ArcellaState::installed_modules` |
| `modulesDir`, `linked` | `~/.arcella/modules` |
| `wal` | what replaying `arcella.wal.jsonl` gives |

Assumptions about what is outside the source, each stated at its action:
ministate appends before it applies, an append that succeeds is durable, and one
that fails may or may not have reached the file; a copy of one file that changes while it is
read is one more content it may have; nobody but the daemon writes in its own temporary
and staging directories; `modules/` itself is durable; a copy still running in the background
after an error only touches a directory that nothing looks at again.

### `Deploy`: deployments beside installations

Extends `Install` with tasks for `deploy_module_from_path`: snapshot, parse and
look-up at the user's path, copy, parse of the copy. `checked` is the id that
was looked up, `dstaged` the copy that is accepted. `known` and `edited` are history
variables: the ids installed when the request was sent, and whether the user rewrote the
file between the look-up and the copy. If so, the code accepts a spec it has not looked
up (run `deploy_edited`); `AcceptedIsInstalled` is what holds otherwise.

### `AlmeServer`: the management server

`conn` is where each connection's handler is (`backlog`, `reading`, `dispatch`,
`reply`, `closed`), `unread` the lines in its socket, `line` the one it serves.
`Kind` classifies lines by what `handle_connection` does with them. `signal` are
the handlers whose receiver holds the shutdown message; one accepted later does
not have it and sees the channel closed (`ShutdownSeen`). `loop` and `file`
follow the accept loop and the socket file over starts, shutdowns and crashes.
A client may stall (then `Reply` waits) or hang up (then `Reply` loses the
response and reports success, as `send_response` does). What a command does is
one step here; `Install` and `Deploy` open up the two that matter.

### `Daemon`: several daemons, clients, and the runtime's lock

Where `AlmeServer` opens up one server for any client, `Daemon` has the starts
and stops of several `main`s step by step (`Launch`, `Check`, `Remove`, `Bind`,
`Chmod`; `Stop`, `Signal`, `LoopEnds`, `Unlink`, `Return`, `Exit`; `Crash` anywhere)
against one socket path, and the command line client's one call (`Invoke`,
`Connect`, `Write`, `Receive`, `Interrupt`, or `CannotConnect`). Every operation on the
socket file may fail for reasons of the system: `exists` then answers false, the errors
of both `remove_file` calls are logged and passed over, those of `bind` and
`set_permissions` end the start and leave the file where it is.

| Variable | Code |
|---|---|
| `main`, `loop` | where `main()` and `run_server_loop` of each daemon are |
| `path` | whose listener the file at `socket_path` belongs to |
| `lock` | the queue of each daemon's `RwLock<ArcellaRuntime>`, holders and waiters |
| `call`, `peer`, `request`, `answer` | the client, its connection and what is in it |
| `handler` | the daemon's end of that connection |
| `executed`, `shared`, `faulty` | history: dispatches of a client's command; daemons that were not alone; daemons that the system refused an operation at start-up |

A command needs no lock, holds it while it runs (`UnderLock`), or holds it only
while `from_runtime` clones what it needs (`Borrow`, then `Work`, which need not
end). tokio's lock is fair: requests are granted in their order, readers together.

### `LogBuffer`: set-up, and the ring buffer behind `log:tail`

`Setup` is `log::init`: it lists the filter's directives, the default one first,
then those of the modules in any order, which is what iterating a hash map
gives. A thread stamps its event if the filter lets it through, then pushes it
under the mutex, in two steps; an event is its time stamp. `history` holds all
pushed events, `answer` the last result of `log:tail` with the history it was
taken from.

### `TomlDocument`: from the text to keys, and back to a table

A document is the sequence of its leaves, written one by one (`Write`, guarded
by what TOML's grammar allows); `Load` is `parse_and_collect`; `Extract` is
`extract_subtree` for one prefix. The traversal (`Collect`) is a recursive function
of the levels that are left, `MaxDepth + 1 - depth` in the code's terms, which gives
for every position what is collected at it and below it. The loops of the code
(the entries of a table, the insertions into a map) are recursive functions over
the length of a sequence. A key is a sequence of `Parts` and a quoted key with dots has several, so
that joining keys can collide as it does in the code. A value is the set of
places it was taken from: a property can then say where every leaf ended up. The root
of a document is a table and not an array, which is an assumption on `Leaves`.

### `ModuleIds`, `Manifest`: what a package declares and what is deployed

`ModuleIds` has `ModuleId::new`, `from_str` and `to_string`, over texts that are
sequences of characters, because the separator is a character. `Manifest` reads a
package (`Read`: at the user's path, or the staged copy), with the three formats
of a manifest and the fall-back to the `.wasm`, and composes deployments from
template, specification and overrides (`Deploy`), each with the validations the
code calls at that place and no others.

### `Engine`: what an engine may rely on

The configuration of an engine, its profiles and the compatibility report.
Nothing implements the engine's trait yet, so there is nothing to run: the module
is a set of operators, and `ManifestProofs` has the theorems about them.

### `ConfigLoader`: from the directory to the layers

`config::load` up to the merge, beside a user (or a second daemon) that edits
the directory at any await point. The recursion of `load_config_recursive` is
the stack `stack`: a frame is a call, `todo` the includes it has yet to make
calls for, `acc` the layers it will return; the depth is the height of the
stack. The next path of the innermost call is refused (`TooDeep`, `Duplicate`),
read (`Read`), or fails the load (`ReadFails`, `ParseFails`); `Resolve` is
`collect_toml_includes`, `ResolveFails` the error of a directory that cannot be read,
`Leave` a return. `mtime` and `watched` are the
modification time of `arcella.toml` and the one `IntegrityChecker::new` noted.

| Variable | Code |
|---|---|
| `visited`, `files`, `warnings` | `ConfigLoadState::{visited_paths, config_files, warnings}` |
| `stack`, `configs` | locals of the recursion; what it returns |
| `disk`, `mtime` | the configuration directory |
| `wanted` | history: which file's includes were resolved to which file |

A path is a spelling, as it is in the code: a file included as `a.toml` and as
`sub/../a.toml` is two paths. Every write is taken to change the modification
time. An included directory is missing, and warned of, only when none of its files is
there. The warnings about values
and the notes about created files are left out.

### `ConfigMerge`: from the layers to the values

`merge_config`, one step per layer from the last to the first (`idx` is the next
one), then one for the defaults. A value is the number of the layer that sets
it. `preliminary` and `final` are the code's tables of the same names. The rules
of `docs/CONFIGURATION.md` are stated apart from the loop, by `Wins` and
`Effective`.

### `...MC`

Instances for TLC: model values, the functions over them, symmetry.

## Runs

| Run | Instance | Question | Result |
|---|---|---|---|
| `install` | 2 tasks, 2 ids, packages of one or two files with two revisions of each, which declare either id or do not parse | files, log, memory and locks consistent; implements `ModuleStore` | holds |
| `deploy` | 2 installers, 1 deployer, 2 ids, 2 packages, 1 file; fairness | deployments whose file is left alone are accepted only on durable modules; acknowledged modules are found; every request ends | holds |
| `alme` | 2 connections, up to 2 lines and 1 line of 4 kinds; fairness | order and number of responses, nobody cut off, socket file, handlers end | holds |
| `log` | 2 threads, buffer of at most 2 lines, 4 events, 2 levels, 3 targets | the settings decide what is logged, in whatever order they are listed; the buffer and its tail are the last lines pushed | holds |
| `config` | `arcella.toml`, its template, 3 files in a directory, up to 5 contents each, depth 2, 2 edits | nothing lost silently, layers in order, depth bounded, only broken files fail a load, edits of the main file noticed | holds |
| `config_merge` | 3 layers, a key of each kind, 4 ways to set it | every key has the value the rules name; keys set in vain are reported, and plain values one by one | holds |
| `toml` | every document of up to 4 leaves from a pool of dotted and quoted keys, nested arrays of tables and unconvertible values, depth 3 | every leaf is found under its key or shadowed, what is pruned or fails is flagged, a subtree holds its keys | holds |
| `manifest` | every form of manifest with good and bad ids, every template, every set of overrides | ids and records read back, admitted modules can be deployed | holds |
| `daemon` | 2 daemons with 1 client, 1 daemon with 2 clients; fairness | reports are true, a daemon that is alone is reachable or was refused its socket by the system, calls and ctrl-c end | holds |
| `install_orphan` | as `install` | "filesystem consistency" after a crash (`install.rs:12-14`) | violated |
| `deploy_edited` | as `deploy` | the staged spec's module is "already installed (in state or on disk)" (`deploy.rs:126-128`) | violated |
| `template_ignored` | as `manifest` | the packaged template provides the defaults (`install.rs:72-73`) | violated |

The last three are disagreements between a comment and the code, described
under `findings` in `PROJECT.json`. The one with the widest effect is
`install_orphan`: a stop between the rename and the record leaves a directory
that no later run adopts or removes, and its id can then never be installed.

Others were met while modelling; the models follow the code:

- A failed step leaves its directories in `temp` and `modules/` behind, where "temporary
  artifacts are cleaned up" (`install.rs:25`).
- A module is to be "already installed (in state or on disk)" when it is deployed
  (`deploy.rs:128`); only the state is looked at.
- An include that does not exist "is silently skipped" with a warning, so that optional
  files may be absent (`config_loader.rs:36-38`). That is decided when the includes are
  listed: a file that is gone when its turn to be read comes fails the start. And one
  that is there without the name of a TOML file is skipped without the warning.
- A layer that "attempts to set a value for a key that was fixed" is to be warned of
  (`CONFIGURATION.md:43`). Of three layers that set a key, the last plainly, the middle
  one with `#redef` and the first plainly, only the last is named: the value of the
  middle one never gets into the table.
- A module in the main process "Requires `trusted = true` and `async = true`"
  (`manifest/mod.rs:344`); `validate_isolation_constraints` demands the latter only.
- `send_response` swallows the error it says ends the handler (`server.rs:267-268`).
- Includes are documented as followed "up to `MAX_CONFIG_DEPTH`"
  (`CONFIGURATION.md:33`); a file first met at the limit by a long way is not
  followed again by a short one.
- `log:tail` promises reverse chronological order (`log/mod.rs:239`); two threads
  can push in another order than they took the time.
- Without a number `log:tail` is said to return 100 lines (`commands.rs:138-141`);
  the request type fills in 0 (`arcella-types/src/alme.rs:27-29`).
- What is removed as a "stale" socket at start-up (`server.rs:23`) may be that of a
  daemon that is running.
- The `Secure` profile is described as without threads; it leaves them to the
  engine.

**Bounds.** Two tasks with two ids and two revisions of the same id are enough
for every pair of steps to meet, on the same id and on different ones; requests,
crashes and restarts are not bounded, because a finished task may ask again.
Two files, one of them optional, let a copy or sync stop half way and let the staged
package be a mix of two revisions. The tasks are interchangeable, so
`install` uses symmetry; `deploy` and `alme` check liveness and do not. In `alme` the first connection pipelines two lines of any
kind, the second sends one; connections are reused without bound. `log` has twice
as many events as its largest buffer, and smaller ones down to none; its targets
are the daemon, a module of it and a name that is a prefix of the daemon's. In `config` the depth limit is 2 instead of 5: the
include graphs have chains of three includes, cycles through `arcella.toml`,
a file included by name and with its directory, and two ways of different
length to the same file; two edits let a file change once before and once after
it is read. Two of the names differ only in case, so their order is open. In
`config_merge` three layers are the main file, a layer that may fix or open a
key, and one below it. In `toml` the depth is 3 instead of 10 and four leaves suffice
for a second element of an array beside a collision and a leaf below the depth; a
document longer than that combines positions, which the traversal treats one by
one. In `manifest` names are at most 2 characters instead of 128, so that one is too
long. In `daemon` two processes start again and again: each can be the stale, the
running and the stopping one. With two clients as well the liveness properties would
need too many states; `MCNext` lets the second client call only while the second
daemon does not run, so that daemons compete for the socket before one client, and
clients for the lock of one daemon, starts and calls being unbounded in both cases.
What the reports say is proved for any number of each. `MaxLines`, `MaxEvents`, `MaxLeaves` and `MaxEdits` are the
only bounds in guards.

**Fairness.** In `Install` and `Deploy`: weak fairness of a task's own steps
(tokio polls every ready task; a file operation returns) and strong fairness of
`Lock` (tokio's `Mutex` is first come, first served). In `AlmeServer`: weak
fairness of a handler's read, dispatch (commands end: `EveryRequestEnds` of
`deploy`), reply and shutdown branches, and of the accept loop's shutdown. No
user, client, crash, restart, timeout or exit is ever assumed to happen, so
`HandlersEnd` does not rest on the reader timeout or on the end of the process.
In `Daemon`: weak fairness of the steps of a client that was started and of the
tasks of a daemon. `UnderLock` and `Borrow` need no more than weak fairness because
the lock is a queue: once granted, a request stays granted. Nobody is assumed to
start, stop or interrupt anything, and `Work`, the part of a command without the
lock, is not assumed to end: `CallEnds` excepts it and `StopCompletes` holds in
spite of it.

## Proofs

`InstallProofs` proves, for any sets of tasks, modules, packages and files, that
`Spec` implies type correctness, each of the safety invariants the `install` run
checks, and `ImplementsModuleStore`. They rest on the assumptions of `Install`
alone: `Wasm` is one of the files, `IdOf` is a function on `Packages`, and `None` is
none of the other values. Nothing is assumed of when, or how often, the user replaces
which file.

None of the invariants is inductive as it stands. That the log never names a
module without durable files (`RegisteredIsDurable`), for example, depends on
what happened fifteen steps earlier in the same task. `IInv` adds what a task
may rely on at each step:

- `TaskInv`: what is being staged is a listing of files, and a package when it is parsed;
  from `lock` on, the parsed bundle is the staged package and has an id;
- `LockInv`: from `snapshot` on, the task holds its id's lock;
- `DestInv`: the temporary directory holds the bundle's package, all of it from
  `sync` on, synced from `syncdest` on, with its entries at `rename`;
- `DiskInv`: every published directory is whole and synced;
- `LogInv`: the log is behind the durable disk, memory behind the log;
- `CommitInv`: between rename and record, the task's module is on disk and not
  in the log, which needs `LockInv` of the other tasks.

There is a lemma per action (`RequestStep` ... `RestartStep`) with a step per
conjunct, `NextIInv` combines them, and each property follows from `IInv`. A
power loss is the one interesting step: what `DiskInv` and `LogInv` say is
exactly why it can take nothing back that the log speaks of. The refinement
(`Refinement`) maps `wal` to the registry and `pc` to the client's phase: only
`Record` and `RecordFails` change the registry, and `CommitInv` gives them a
free id.

The deployments build on it, in the same module: no installation step and no restart takes a module
out of the state (`InstalledGrows`, `RestartGrows`: the latter because the log is
ahead of memory), so what a deployment found in its snapshot stays true until a
crash, which takes the deployment with it. With `IInv`, and with what `DeployInv` says of
a file that was left alone (the staged copy is what was looked up), that gives
`AcceptedIsInstalled` and `AcknowledgedIsDeployable` for any number of tasks. A behaviour
of `Deploy` is one of `Install` (`DeploymentsKeepTheStore`), so that everything proved of
installations, the refinement first of all, is true beside deployments.

`ConfigValuesProofs` proves the properties of `TomlDocument` and of `ConfigMerge`, the
two modules through which values pass; they share no variable.

Of documents (`EveryValueIsFound`, `PruningIsFlagged`, `SubtreeIsExtracted`) it proves
them for any leaves, keys, arrays, depth limit and prefix. The assumptions are
those of the module: paths are not empty, no array stands at the root, `Elements` has no
step twice, and `IncludesKey` is a key. The invariant of the state is small (`DocInv`:
the document keeps the grammar, and what was loaded and extracted is what `Collect` and
`Subtree` give for it); the work is in what these compute:

- `Grammatical`: no leaf stands at or below another's place, and a position has keys
  below it or the tables of an array, numbered in order. Each leaf that is written
  keeps it (`WriteKeepsGrammar`); without it a value could be both a leaf and a table.
- `Flags` says of a position with so many levels left which leaves below it fail the
  load, whether something below it is out of reach, and which includes are found;
  `CollectFlags` is by induction over the levels, with a lemma for a leaf, for what
  follows below and for the step that combines them.
- `Finds` says the same of values. Each value is rooted at the position under
  whose key it is stored, and two values of one table share no place of the document.
  That is what is needed when an insertion meets a key that is there:
  the value that is replaced belongs to another place with the same keys
  (`ReplacedIsShadowed`), which is what `EverythingIsFound` excepts, and for an array the whole
  argument is repeated inside each of its tables, where keys start anew (`TablesFind`).
- That the table of a subtree holds its keys (`SubtreeHeld`) is by induction over the
  values inserted so far: a key that is out was refused for, or replaced by, one it
  conflicts with, and that one is a key too, whether or not it is still in.

For the merge it proves that the loop of `merge_config` gives every key the
value the rules name (`MergedValuesFollowTheRules`), for any number of keys and
layers. The code keeps one value and one permission per key and overwrites both
on the way up, so the invariant says what they mean half way: the value is the
one that wins among the layers merged so far (`Entry`), the permission is that of
a merged layer that used `#redef`, and of the last one if it did and the value of
another layer stayed (`Permission`). `MergedIs` says what one layer does to an
entry, whichever way it sets the key; `MergeLayerEntry` carries the invariant
over a layer; at the end the layer merged last is `arcella.toml`, and
`OverlaidIsEffective` turns its permission into the rule for defaults.

That no key is lost silently (`DroppedValuesAreReported`) needs one more part,
`Reported`: a merged layer whose key a higher merged layer has fixed is in the warnings,
with its own file if it sets the key plainly. A plain value is in the table until a
higher one takes its place, which is when it is named (`TableOrReported`); a value with
`#redef` over another may never have been there, and then only the key is in the
warnings. That is less than `CONFIGURATION.md:43` promises. What the
defaults refuse at the end is reported at the end (`FinishReports`).

`ManifestProofs` proves the three invariants of `Manifest` for any alphabet, length of
names, packages and specifications, from `ModuleIdsAssumption` and
`ManifestAssumption`. The heart is that the text of an id has exactly one `@`
(`IdReadsBack`): a name has none and a version is digits and dots, so `from_str` can
cut it at one place only. The invariant says that a bundle is made of checked
parts; that the checks of a template imply those of a deployment with one replica
gives `AdmittedModulesAreDeployable`.

`DaemonProofs` proves for any number of daemons and clients that reports are true
(`ReportsAreTrue`) and that a daemon that is alone is reachable unless one of its own
operations on the socket file failed (`AloneIsServed`).
The invariant is `TypeOK` with `DaemonInv` (where `main` and `loop` may be together, and
that a daemon which has the directory to itself finds the path free when it binds, unless
an operation failed, and has it from then on),
`CallInv` (how often a command was executed at each place of call and handler:
once means the handler is past it, and the request has left the socket) and `PeerInv`
(a handler has a daemon that runs it).

`LogBufferProofs` proves that the ring buffer is the last lines pushed and that
`log:tail` returns the last of them, for any number of threads and any size. The
lemmas write "the last k" as one function (`End`) and say what appending a line
with and without taking one away does to it (`EndAppended`); the invariant adds that
nothing is stamped where there is no buffer.

The same module proves that the filter follows the settings
(`FilterFollowsSettings`), which is about the order of the directives: a list of all the
names of a map in any order (`OrderListsAll`, by counting) holds a directive for every
name, and the last one for a name gives its level (`LastDirectiveCounts`); two prefixes
of a target that are equally long are the same name (`PrefixesDiffer`), so no other
directive can decide. It assumes finitely many targets, and that all are sequences.

`AlmeServerProofs` proves every safety property of the server for any number of
connections, lines and runs. Its invariant accounts for what a client has sent
(`Served`): the lines that have been served, the one in hand and what is unread, in this
order; the commands of the former have been executed, and the responses are those to
the lines served, or to a beginning of them if the client hung up. Each action moves
the boundary by at most a line, and a lemma about lines of a kind
(`OfKindsConcat`, by induction over sequences) carries responses and commands with
it. That the order of responses holds needs no more than that one handler serves one
line after the other; that nobody is cut off (`ClientsAreNotCutOff`) needs that a
handler reads only when nothing is in hand. `ServerInv` relates `main`, the loop and the socket file.

`ConfigLoaderProofs` proves every property of `ConfigLoader`, for any directory,
include graph, depth and number of edits. The assumptions are those of the module:
that there are finitely many paths, what is a valid name, and what may be in a file.
The code keeps the state of the load on the call stack, so the invariant speaks of
every frame:

- `FramesInv`: which frames have entered their own document, and that only the
  innermost may have its includes unresolved;
- `NumbersInv`: the layers of the calls in progress, read from the outermost to the
  innermost, are numbered in the order of `config_files`, without a gap between one call
  and the next, which is what makes the concatenation at each return come out in order;
- `DepthInv`: what the frame at height `k` has to do is within `k - 1` includes of
  `arcella.toml`, for which `Within` has to be shown to exist, to be nested
  (`WithinNested`) and to grow with what is resolved;
- `PendingInv`, `SettledInv`: whatever an include was resolved to is read, warned of,
  or on the list of a call in progress, and whatever a resolved document includes was
  resolved or warned of;
- `PresentInv`, `BlameInv`: what is on a list was there when it was found;
- `CurrentInv`: where the layer of `arcella.toml` is at each stage of the load, and that
  it is what the disk holds as long as the modification time is the one noted.

A lemma treats each way a load may go on (`ReadInv`, `RefusedInv`, `FailInv` and
others), and `NextIInv` combines them. `TypeOK` is stated there and not checked by a run, like the
other parts of the invariant; TLC found no state of the `config` run that violates one.

`ManifestProofs` also proves, of the operators of `Engine` alone, that profiles commute
and never override an explicit choice, that validity survives them, and that a profile
whose features an engine has adds nothing to its report (`SupportedProfilesAreSilent`).

`Induction` has what these proofs share. The library states induction and recursion
for operators, which the provers cannot instantiate; for a set of numbers or of
sequences (`NatSetInduction`, `SequenceSetInduction`) and for a step that is a
function (`FiniteRecursion`), both follow from the well-foundedness of the strict
subset ordering on finite sets, and can be cited. What a recursion keeps, and that two
which start and go on alike agree, are `RecursionKeeps` and `RecursionDetermined`.

Every invariant of the passing runs is a theorem. Only model-checked:

- all liveness (`EveryRequestEnds`, `HandlersEnd`, `CallEnds`, `StopCompletes`): the
  provers here handle neither fairness nor `ENABLED`;
- that the three runs which expect a violation find one: a counterexample is a
  matter of one instance.

## Not modelled

- The interior of an exported interface (`wasmtime/from_wasmtime.rs`,
  `arcella-types/src/{spec,interface_list}.rs`): a copy of wasmtime's types up to a depth,
  in which nothing of the program looks; `flatten_component_tree` and `ConfigData`
  have no caller.
- `startup` and `resources` of a template: stored, validated by nothing that is
  called (`ResourceRequirements::validate`).
- The subtree of a merged configuration: `TomlDocument` takes one of a single document, so
  that the order in which keys of several files meet is not seen, and `ConfigMerge` does
  not look into keys. Nor what arrays become in the table (`Debug` text, `mod.rs:606`).
- The cache (a stub), error types, and wording, formatting and printing of
  messages and logs.
- `module:start` and `module:stop` beyond the lock they take: they change no state.

## What is left, in order

1. `ConfigLoader` and `ConfigMerge` composed at the start of a daemon, with a
   second daemon that creates the main file at the same time.
2. When the code gets there: deployments that are recorded (`DeployModule` keys
   them by module id where the state says deployment id, `mutators.rs:61`), instances
   that run, and an engine.
