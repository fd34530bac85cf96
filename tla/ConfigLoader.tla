------------------------------ MODULE ConfigLoader ------------------------------
(***************************************************************************)
(* Loading the configuration at start-up (arcella-core/src/config):        *)
(* config::load creates a missing arcella.toml from its template, notes    *)
(* its modification time, reads it and, depth first, every file named by   *)
(* an includes key, and at the end compares the modification time.  Files  *)
(* may be edited at every await point.                                     *)
(*                                                                         *)
(* A file is what the loader tells apart: absent, unreadable, not TOML, or *)
(* a document with the include patterns it holds.  The recursion is a      *)
(* stack of calls, so that every await point is a state.  The values in a  *)
(* document, and the warnings about them, are left out.                    *)
(***************************************************************************)

EXTENDS Naturals, FiniteSets, SequencesExt

CONSTANTS
  Paths,           \* files of the configuration directory
  Main,            \* arcella.toml
  Template,        \* arcella.template.toml
  Builtin,         \* "<builtin:default_config.toml>", not a file
  ValidPaths,      \* paths is_valid_toml_file_path accepts
  Dirs,            \* directories that may be included
  Members,         \* the paths directly in each directory
  Rank,            \* order of the paths in lower case: names that differ
                   \* only in case have the same rank
  MaxDepth,        \* MAX_CONFIG_DEPTH
  Documents,       \* what may be found in each file
  TemplateContent, \* TEMPLATE_CONFIG_CONTENT
  MaxEdits         \* bound on the edits made by others

Absent == [kind |-> "absent", includes |-> {}]
Unreadable == [kind |-> "unreadable", includes |-> {}]
Garbled == [kind |-> "garbled", includes |-> {}]
Toml(patterns) == [kind |-> "toml", includes |-> patterns]

Contents == {Absent, Unreadable, Garbled} \cup {Toml(s): s \in SUBSET (Paths \cup Dirs)}

ASSUME PathsAssumption ==
  /\ IsFiniteSet(Paths)
  /\ Main \in ValidPaths
  /\ ValidPaths \subseteq Paths
  /\ Template \in Paths \ ValidPaths
  /\ Builtin \notin Paths
  /\ Dirs \cap Paths = {}
  /\ Members \in [Dirs -> SUBSET Paths]
  /\ Rank \in [Paths -> Nat]

ASSUME ContentsAssumption ==
  /\ MaxDepth \in Nat
  /\ MaxEdits \in Nat
  /\ Documents \in [Paths -> SUBSET Contents]
  /\ TemplateContent \in Documents[Template]

VARIABLES
  disk,      \* content of every path
  mtime,     \* modification time of arcella.toml
  edits,     \* edits made so far
  phase,     \* where config::load is
  error,     \* why it failed
  watched,   \* initial_mtimes of the IntegrityChecker
  visited,   \* ConfigLoadState.visited_paths
  files,     \* ConfigLoadState.config_files
  warnings,  \* ConfigLoadState.warnings
  stack,     \* the calls in progress, the outermost first
  configs,   \* what the outermost call returned
  wanted     \* history: <<f, g>> when the includes of f were resolved to g

loadState == <<visited, files, warnings>>
vars == <<disk, mtime, edits, phase, error, watched, loadState, stack, configs, wanted>>

--------------------------------------------------------------------------------
(* The start of config::load.                                              *)

Present(path) == disk[path] # Absent

Init ==
  /\ disk \in {d \in [Paths -> UNION Range(Documents)]: \A p \in Paths: d[p] \in Documents[p]}
  /\ mtime = 0
  /\ edits = 0
  /\ phase = "template"
  /\ error = "none"
  /\ watched = 0
  /\ visited = {}
  /\ files = <<Builtin>>
  /\ warnings = {}
  /\ stack = <<>>
  /\ configs = <<>>
  /\ wanted = {}

Fail(reason) ==
  /\ phase' = "failed"
  /\ error' = reason
  /\ stack' = <<>>
  /\ UNCHANGED <<disk, mtime, edits, watched, loadState, configs, wanted>>

Goto(next) ==
  /\ phase' = next
  /\ UNCHANGED <<error, edits, watched, loadState, stack, configs, wanted>>

\* ensure_main_config_exists: each exists() is followed by an await.
EnsureTemplate ==
  /\ phase = "template"
  /\ Goto(IF Present(Template) THEN "main" ELSE "write_template")
  /\ UNCHANGED <<disk, mtime>>

WriteTemplate ==
  /\ phase = "write_template"
  /\ Goto("main")
  /\ disk' = [disk EXCEPT ![Template] = TemplateContent]
  /\ UNCHANGED mtime

EnsureMain ==
  /\ phase = "main"
  /\ Goto(IF Present(Main) THEN "watch" ELSE "copy_template")
  /\ UNCHANGED <<disk, mtime>>

CopyTemplate ==
  /\ phase = "copy_template"
  /\ disk[Template].kind \notin {"absent", "unreadable"}
  /\ Goto("watch")
  /\ disk' = [disk EXCEPT ![Main] = disk[Template]]
  /\ mtime' = mtime + 1

\* A full disk, a template that has gone, a directory without permission.
CreateFails ==
  /\ phase \in {"template", "write_template", "copy_template"}
  /\ Fail("write")

\* The load starts with the call for arcella.toml at depth 0.
StartLoad ==
  /\ phase' = "load"
  /\ stack' = <<[path |-> Builtin, resolved |-> TRUE, todo |-> <<Main>>, acc |-> <<>>]>>
  /\ UNCHANGED <<disk, mtime, edits, error, loadState, configs, wanted>>

\* IntegrityChecker::new.
Watch ==
  /\ phase = "watch"
  /\ Present(Main)
  /\ watched' = mtime
  /\ StartLoad

WatchFails ==
  /\ phase = "watch"
  /\ ~Present(Main)
  /\ Fail("watch")

--------------------------------------------------------------------------------
(* load_config_recursive: the next path of the innermost call.             *)

Top == Last(stack)
Depth == Len(stack) - 1
Popped == [Top EXCEPT !.todo = Tail(@)]
WithTop(frame) == [stack EXCEPT ![Len(stack)] = frame]

Warning(kind, path) == [kind |-> kind, path |-> path]

\* The call is about to be made for path.
Calling(path) ==
  /\ phase = "load"
  /\ Top.resolved
  /\ Top.todo # <<>>
  /\ path = Head(Top.todo)

RefuseSilently(kind, path) ==
  /\ stack' = WithTop(Popped)
  /\ UNCHANGED <<disk, mtime, edits, phase, error, watched, loadState, configs, wanted>>

\* A call that returns no configuration and leaves a warning.
Refuse(kind, path) ==
  /\ stack' = WithTop(Popped)
  /\ warnings' = warnings \cup {Warning(kind, path)}
  /\ UNCHANGED <<disk, mtime, edits, phase, error, watched, visited, files, configs, wanted>>

ExceededOffByOne == Depth > MaxDepth + 1

Exceeded == Depth > MaxDepth

TooDeep(path) ==
  /\ Calling(path)
  /\ Exceeded
  /\ Refuse("deep", path)

Duplicate(path) ==
  /\ Calling(path)
  /\ ~Exceeded
  /\ path \in visited
  /\ Refuse("duplicate", path)

\* The file is to be read; it may have changed since its includer listed it.
Reading(path) ==
  /\ Calling(path)
  /\ ~Exceeded
  /\ path \notin visited

\* The document is the first layer of what its call returns.
Entered(path) ==
  Append(WithTop(Popped),
         [path |-> path, resolved |-> FALSE, todo |-> <<>>,
          acc |-> <<[path |-> path, content |-> disk[path], file |-> Len(files)]>>])

Read(path) ==
  /\ Reading(path)
  /\ disk[path].kind = "toml"
  /\ visited' = visited \cup {path}
  /\ files' = Append(files, path)
  /\ stack' = Entered(path)
  /\ UNCHANGED <<disk, mtime, edits, phase, error, watched, warnings, configs, wanted>>

ReadFails(path) ==
  /\ Reading(path)
  /\ disk[path].kind \in {"absent", "unreadable"}
  /\ Fail("read")

ParseFails(path) ==
  /\ Reading(path)
  /\ disk[path].kind = "garbled"
  /\ Fail("parse")

--------------------------------------------------------------------------------
(* collect_toml_includes and the return of a call.                         *)

\* The paths a pattern stands for: itself, or the files of a directory.
Covers(pattern) == IF pattern \in Dirs THEN Members[pattern] ELSE {pattern}

FoundUnchecked(patterns) == ValidPaths \cap UNION {Covers(p): p \in patterns}

\* A path that is there but has no valid name is dropped without a warning.
Found(patterns) ==
  {p \in ValidPaths \cap UNION {Covers(q): q \in patterns}: Present(p)}

Skipped(patterns) == {p \in patterns \cap Paths: ~Present(p)}

\* A directory without any file may as well not be there.
Vacant(patterns) == {d \in patterns \cap Dirs: \A p \in Members[d]: ~Present(p)}

\* A set of paths is sorted by lower-case name; ties come out in any order.
Sorted(found) ==
  {s \in SetToSeqs(found):
     \A i, j \in DOMAIN s: i < j => Rank[s[i]] <= Rank[s[j]]}

Resolve ==
  /\ phase = "load"
  /\ ~Top.resolved
  /\ LET patterns == Top.acc[1].content.includes IN
     /\ \E list \in Sorted(Found(patterns)):
          stack' = WithTop([Top EXCEPT !.resolved = TRUE, !.todo = list])
     /\ \E gone \in SUBSET Vacant(patterns):
          warnings' = warnings \cup {Warning("skipped", p): p \in Skipped(patterns) \cup gone}
     /\ wanted' = wanted \cup {<<Top.path, p>>: p \in Found(patterns)}
  /\ UNCHANGED <<disk, mtime, edits, phase, error, watched, visited, files, configs>>

\* A directory that was there cannot be read, or not any more.
ResolveFails ==
  /\ phase = "load"
  /\ ~Top.resolved
  /\ Top.acc[1].content.includes \cap Dirs # {}
  /\ Fail("list")

ReturnedFirst(caller) == [caller EXCEPT !.acc = Top.acc \o @]

\* The caller appends the layers of the call to its own.
Returned(caller) == [caller EXCEPT !.acc = @ \o Top.acc]

Leave ==
  /\ phase = "load"
  /\ Len(stack) > 1
  /\ Top.resolved
  /\ Top.todo = <<>>
  /\ LET callers == Front(stack) IN
     stack' = [callers EXCEPT ![Len(callers)] = Returned(@)]
  /\ UNCHANGED <<disk, mtime, edits, phase, error, watched, loadState, configs, wanted>>

\* The outermost call has returned; the layers are merged without an await.
Loaded ==
  /\ phase = "load"
  /\ Len(stack) = 1
  /\ Top.todo = <<>>
  /\ configs' = Top.acc
  /\ stack' = <<>>
  /\ phase' = "verify"
  /\ UNCHANGED <<disk, mtime, edits, error, watched, loadState, wanted>>

--------------------------------------------------------------------------------
(* IntegrityChecker::check, and the surroundings.                          *)

UnmodifiedUnchecked == Present(Main)

Unmodified == Present(Main) /\ mtime = watched

Verify ==
  /\ phase = "verify"
  /\ Unmodified
  /\ Goto("ok")
  /\ UNCHANGED <<disk, mtime>>

VerifyFails ==
  /\ phase = "verify"
  /\ ~Unmodified
  /\ Fail("modified")

\* The daemon is started again and finds the directory as it is; main.rs
\* loads the configuration only once.
Restart ==
  /\ phase \in {"ok", "failed"}
  /\ phase' = "template"
  /\ error' = "none"
  /\ watched' = 0
  /\ visited' = {}
  /\ files' = <<Builtin>>
  /\ warnings' = {}
  /\ stack' = <<>>
  /\ configs' = <<>>
  /\ wanted' = {}
  /\ UNCHANGED <<disk, mtime, edits>>

\* Somebody, another starting daemon included, writes or removes a file.
Edit(path) ==
  /\ edits < MaxEdits
  /\ edits' = edits + 1
  /\ \E content \in Documents[path] \ {disk[path]}:
       disk' = [disk EXCEPT ![path] = content]
  /\ mtime' = IF path = Main THEN mtime + 1 ELSE mtime
  /\ UNCHANGED <<phase, error, watched, loadState, stack, configs, wanted>>

Create == EnsureTemplate \/ WriteTemplate \/ EnsureMain \/ CopyTemplate \/ CreateFails

Call(path) ==
  \/ TooDeep(path)
  \/ Duplicate(path)
  \/ Read(path)
  \/ ReadFails(path)
  \/ ParseFails(path)

Load ==
  \/ Create
  \/ Watch
  \/ WatchFails
  \/ \E path \in Paths: Call(path)
  \/ Resolve
  \/ ResolveFails
  \/ Leave
  \/ Loaded
  \/ Verify
  \/ VerifyFails

Next == Load \/ Restart \/ \E path \in Paths: Edit(path)

Spec == Init /\ [][Next]_vars

--------------------------------------------------------------------------------
(* Properties.                                                             *)

Done == phase \in {"verify", "ok"}
LayerPaths == {layer.path: layer \in Range(configs)}

\* Every file an included document names has its layer in the result, or a
\* warning says that it was not there or too deep: nothing is lost silently,
\* in whatever order the recursion meets it (a name that is not a valid TOML
\* file name is the exception, see collect_toml_includes).
NothingLostSilently ==
  Done =>
    /\ \A pair \in wanted:
         pair[2] \in LayerPaths \/ Warning("deep", pair[2]) \in warnings
    /\ \A layer \in Range(configs):
         \A path \in layer.content.includes \cap ValidPaths:
           <<layer.path, path>> \in wanted \/ Warning("skipped", path) \in warnings

\* The layers come in the order in which config_files registered them, each
\* file once: merge_config works through the layers in their order, and keeps
\* and compares the numbers of the files that the values came from.
LayersFollowFiles ==
  Done =>
    /\ files = <<Builtin>> \o [i \in DOMAIN configs |-> configs[i].path]
    /\ \A i \in DOMAIN configs: configs[i].file = i
    /\ \A i, j \in DOMAIN files: files[i] = files[j] => i = j

\* Files at most n includes away from arcella.toml, in what was resolved.
Within[n \in 0..MaxDepth] ==
  IF n = 0 THEN {Main}
  ELSE Within[n - 1] \cup {pair[2]: pair \in {p \in wanted: p[1] \in Within[n - 1]}}

\* No file further than MAX_CONFIG_DEPTH includes from arcella.toml is loaded,
\* whichever way leads to it, and the recursion is never deeper.
DepthIsBounded ==
  /\ Len(stack) <= MaxDepth + 2
  /\ Done => LayerPaths \subseteq Within[MaxDepth]

\* A start that succeeds has read arcella.toml as it is on the disk at that
\* moment: an edit between the read and the end of the load is noticed.
AcceptedMainIsCurrent ==
  [][phase = "verify" /\ phase' = "ok" => configs[1].content = disk[Main]]_vars

\* Files that are not there never fail a load: as long as nobody edits the
\* directory meanwhile, a read that fails is that of a file which is there,
\* which is named by arcella.toml or by a file it includes, and is broken.
FailsOnlyForABrokenFile ==
  error \in {"read", "parse"} /\ edits = 0 =>
    \E path \in Within[MaxDepth]:
      disk[path].kind = (IF error = "read" THEN "unreadable" ELSE "garbled")

================================================================================
