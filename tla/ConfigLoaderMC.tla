----------------------------- MODULE ConfigLoaderMC -----------------------------
(***************************************************************************)
(* ConfigLoader with three files beside arcella.toml and its template, two *)
(* of whose names differ only in case, in a directory of their own.        *)
(***************************************************************************)

EXTENDS ConfigLoader

CONSTANTS main, template, builtin, dir, a, b, c

MCPaths == {main, template, a, b, c}
MCValidPaths == MCPaths \ {template}
MCMembers == [d \in {dir} |-> {b, c}]
MCRank == [p \in MCPaths |-> CASE p = main -> 1
                               [] p = template -> 2
                               [] p = a -> 3
                               [] OTHER -> 4]

\* Chains longer than the depth, cycles, a file included twice, by name and
\* with its directory, and every way in which a file may be broken.
MCDocuments ==
  [p \in MCPaths |->
    CASE p = main -> {Absent, Garbled, Toml({a, b}), Toml({dir, template}), Toml({a, c})}
      [] p = template -> {Absent, Toml({})}
      [] p = a -> {Absent, Toml({b}), Toml({main, c})}
      [] p = b -> {Unreadable, Toml({c}), Toml({a})}
      [] OTHER -> {Absent, Garbled, Toml({})}]

MCTemplateContent == Toml({})

================================================================================
