------------------------------ MODULE TomlDocument ------------------------------
(***************************************************************************)
(* How a TOML document becomes configuration values                        *)
(* (arcella-core/src/utils/toml.rs) and how a part of the configuration    *)
(* becomes a table again (extract_subtree in arcella-core/src/config/).    *)
(*                                                                         *)
(* A document is the sequence of its leaves.  A leaf is reached by a path  *)
(* of steps, each a key or the number of a table in an array of tables.  A *)
(* step is a sequence of parts, because a quoted key may hold dots:        *)
(* <<"a", "b">> is the one key "a.b".  Joining keys with dots is           *)
(* concatenating their parts.  A value is represented by the places in the *)
(* document it was taken from.                                             *)
(***************************************************************************)

EXTENDS Naturals, SequencesExt

CONSTANTS
  Parts,       \* what is between the dots of a key
  Leaves,      \* the leaves a document may have
  MaxLeaves,   \* bounds their number
  Elements,    \* the steps into the first, second, ... table of an array
  IncludesKey, \* the step "includes"
  MaxDepth,    \* MAX_TOML_DEPTH, 10 in the code
  Prefix       \* the subtree that is extracted, as parts: "arcella.log" of log::init

\* A string, an array of strings, another scalar or array, a date or an array
\* that holds dates or tables, and a table without keys.
Items == {"text", "texts", "number", "unsupported", "empty"}

Steps == Seq(Parts)

ASSUME TomlAssumption ==
  /\ Leaves \subseteq [path : Seq(Steps) \ {<<>>}, item : Items]
  /\ \A l \in Leaves : l.path[1] \notin Range(Elements)
  /\ MaxDepth \in Nat /\ MaxLeaves \in Nat
  /\ Elements \in Seq(Steps) /\ IsInjective(Elements)
  /\ IncludesKey \in Steps \ Range(Elements)
  /\ Prefix \in Steps

VARIABLES
  document,  \* the leaves, in the order in which they are written
  stage,     \* "writing", "loaded", "extracted"
  data,      \* what parse_and_collect returned
  table      \* the paths of the values in the extracted table

docVars == <<document, stage, data, table>>

PathsOf(doc) == {l.path : l \in Range(doc)}
Positions(doc) == {<<>>} \cup UNION {{SubSeq(p, 1, n) : n \in 0..Len(p)} : p \in PathsOf(doc)}

IsElement(step) == step \in Range(Elements)

\* The innermost table of an array that a path goes through.
ElementOn(path) ==
  LET ends == {n \in 1..Len(path) : IsElement(path[n])}
  IN  IF ends = {} THEN <<>> ELSE SubSeq(path, 1, CHOOSE n \in ends : \A m \in ends : m <= n)

\* The steps below a position, in the order of their first appearance.
Children(doc, p) ==
  LET new(steps, l) == IsStrictPrefix(p, l.path) /\ l.path[Len(p) + 1] \notin Range(steps)
      upTo[n \in 0..Len(doc)] ==
        IF n = 0 THEN <<>>
        ELSE IF new(upTo[n - 1], doc[n]) THEN Append(upTo[n - 1], doc[n].path[Len(p) + 1])
        ELSE upTo[n - 1]
  IN  upTo[Len(doc)]

DocInit ==
  /\ document = <<>> /\ stage = "writing"
  /\ data = [values |-> <<>>, includes |-> <<>>, pruned |-> FALSE, failed |-> FALSE]
  /\ table = {}

\* The grammar: a place is defined once, the tables of an array are numbered in
\* order, and after the header of one only its own keys or another one follow.
Writable(leaf) ==
  LET paths == PathsOf(document)
      elem == ElementOn(leaf.path)
  IN  /\ \A p \in paths : ~IsPrefix(p, leaf.path) /\ ~IsPrefix(leaf.path, p)
      /\ \A n \in 1..Len(leaf.path) :
           LET siblings == Children(document, SubSeq(leaf.path, 1, n - 1))
               step == leaf.path[n]
           IN  IF IsElement(step)
               THEN \E k \in {Len(siblings), Len(siblings) + 1} \cap DOMAIN Elements :
                      step = Elements[k] /\ \A i \in 1..Len(siblings) : siblings[i] = Elements[i]
               ELSE \A i \in 1..Len(siblings) : ~IsElement(siblings[i])
      /\ document # <<>> =>
           \/ elem = ElementOn(Last(document).path)
           \/ elem # <<>> /\ \A p \in paths : ~IsPrefix(elem, p)

Write ==
  /\ stage = "writing"
  /\ Len(document) < MaxLeaves
  /\ \E leaf \in Leaves : Writable(leaf) /\ document' = Append(document, leaf)
  /\ UNCHANGED <<stage, data, table>>

--------------------------------------------------------------------------------
(* parse_and_collect.                                                      *)

Nothing == [values |-> <<>>, includes |-> <<>>, pruned |-> FALSE, failed |-> FALSE]

AndOfLast(r, s) ==
  [values |-> r.values \o s.values, includes |-> r.includes \o s.includes,
   pruned |-> s.pruned, failed |-> r.failed \/ s.failed]

And(r, s) ==
  [values |-> r.values \o s.values, includes |-> r.includes \o s.includes,
   pruned |-> r.pruned \/ s.pruned, failed |-> r.failed \/ s.failed]

\* The result for the entries of a table, or the tables of an array, one by one.
All(results) ==
  LET upTo[n \in 0..Len(results)] ==
        IF n = 0 THEN Nothing ELSE And(upTo[n - 1], results[n])
  IN  upTo[Len(results)]

KeyFromRoot(p) == FlattenSeq(p)

\* The key under which a position is stored: its steps joined, but a table of
\* an array starts anew.
KeyOf(p) ==
  LET joined[n \in 0..Len(p)] ==
        IF n = 0 THEN <<>> ELSE IF IsElement(p[n]) THEN <<>> ELSE joined[n - 1] \o p[n]
  IN  joined[Len(p)]

Insertion(p, value) == [key |-> KeyOf(p), value |-> value]

\* An insertion into a map: the last one under a key counts, at the place of the first.
Put(map, v) ==
  IF \E i \in DOMAIN map : map[i].key = v.key
  THEN [i \in DOMAIN map |-> IF map[i].key = v.key THEN v ELSE map[i]]
  ELSE Append(map, v)

IndexMap(values) ==
  LET upTo[n \in 0..Len(values)] ==
        IF n = 0 THEN <<>> ELSE Put(upTo[n - 1], values[n])
  IN  upTo[Len(values)]

\* from_toml_value.
Leaf(p, item) ==
  CASE item = "unsupported" -> [Nothing EXCEPT !.failed = TRUE]
    [] item = "empty" -> Nothing
    [] OTHER -> [Nothing EXCEPT !.values = <<Insertion(p, {[at |-> <<>>, from |-> p]})>>]

\* The value of "includes", which is read without regard to the depth; what is
\* neither a string nor an array of strings is ignored.
Included(p, items) ==
  IF items \cap {"text", "texts"} # {} THEN [Nothing EXCEPT !.includes = <<p>>] ELSE Nothing

\* convert_array_of_tables_to_value, of the results for its tables.
Tables(p, elements) ==
  LET inner(k) == Range(IndexMap(elements[k].values))
      value == {[at |-> <<>>, from |-> p]} \cup
                 UNION {UNION {{[at |-> <<Elements[k], v.key>> \o e.at, from |-> e.from] : e \in v.value}
                                 : v \in inner(k)} : k \in DOMAIN elements}
  IN  [All(elements) EXCEPT !.values = <<Insertion(p, value)>>]

\* collect_paths_recursive and table_to_value_map_recursive: what is collected at
\* each position and below it, with so many levels left.
Collect(doc) ==
  LET items(p) == {l.item : l \in {m \in Range(doc) : m.path = p}}
      visit[levels \in 0..MaxDepth + 1] ==
        IF levels = 0 THEN [p \in Positions(doc) |-> [Nothing EXCEPT !.pruned = TRUE]]
        ELSE [p \in Positions(doc) |->
          LET steps == Children(doc, p)
              below == [k \in DOMAIN steps |->
                          IF steps[k] = IncludesKey
                          THEN Included(Append(p, steps[k]), items(Append(p, steps[k])))
                          ELSE visit[levels - 1][Append(p, steps[k])]]
          IN  IF items(p) # {} THEN Leaf(p, CHOOSE i \in items(p) : TRUE)
              ELSE IF steps # <<>> /\ IsElement(steps[1]) THEN Tables(p, below)
              ELSE All(below)]
  IN  visit[MaxDepth + 1][<<>>]

Load ==
  /\ stage = "writing"
  /\ stage' = "loaded"
  /\ data' = [Collect(document) EXCEPT !.values = IndexMap(@)]
  /\ UNCHANGED <<document, table>>

--------------------------------------------------------------------------------
(* extract_subtree.                                                        *)

InsertPlain(paths, path) == paths \cup {path}

\* insert_nested: a value in the way keeps the new one out, and a new value
\* replaces what is below its place.
Insert(paths, path) ==
  IF \E q \in paths : IsStrictPrefix(q, path) THEN paths
  ELSE {q \in paths : ~IsPrefix(path, q)} \cup {path}

Subkey(key) == SubSeq(key, Len(Prefix) + 1, Len(key))

Subtree(values) ==
  LET upTo[n \in 0..Len(values)] ==
        IF n = 0 THEN {}
        ELSE IF IsStrictPrefix(Prefix, values[n].key) THEN Insert(upTo[n - 1], Subkey(values[n].key))
        ELSE upTo[n - 1]
  IN  upTo[Len(values)]

Extract ==
  /\ stage = "loaded" /\ ~data.failed
  /\ stage' = "extracted"
  /\ table' = Subtree(data.values)
  /\ UNCHANGED <<document, data>>

DocNext == Write \/ Load \/ Extract

DocSpec == DocInit /\ [][DocNext]_docVars

--------------------------------------------------------------------------------
(* Properties.                                                             *)

Loaded == stage # "writing" /\ ~data.failed

\* Where the leaf at a path is looked up: the joined keys up to an array, the
\* number of a table in it, the joined keys in that table, and so on.
Address(path) ==
  LET upTo[n \in 0..Len(path)] ==
        IF n = 0 THEN <<<<>>>>
        ELSE IF IsElement(path[n]) THEN upTo[n - 1] \o <<path[n], <<>>>>
        ELSE Append(Front(upTo[n - 1]), Last(upTo[n - 1]) \o path[n])
  IN  upTo[Len(path)]

Stored == UNION {{[address |-> <<v.key>> \o e.at, from |-> e.from] : e \in v.value}
                   : v \in Range(data.values)}

\* Paths that the traversal follows: not into the value of "includes".
Followed(path) == \A n \in 1..Len(path) - 1 : path[n] # IncludesKey
IsValue(path) == Followed(path) /\ Last(path) # IncludesKey

\* Another place of the document whose keys, once joined, are the same.
Shadowed(path) ==
  \E q \in Positions(document), n \in 1..Len(path) :
    /\ q # SubSeq(path, 1, n)
    /\ Address(q) = Address(SubSeq(path, 1, n))

\* A leaf within the depth is found under its joined key, whatever is pruned
\* around it, unless a quoted key with dots collides with it; every include
\* pattern is found, in whatever table it stands; and nothing else is.
EverythingIsFound ==
  Loaded =>
    /\ \A l \in Range(document) :
         IsValue(l.path) /\ l.item # "empty" /\ Len(l.path) <= MaxDepth =>
           [address |-> Address(l.path), from |-> l.path] \in Stored \/ Shadowed(l.path)
    /\ \A s \in Stored :
         s.from \in Positions(document) /\ s.address = Address(s.from) /\ Len(s.from) <= MaxDepth
    /\ Range(data.includes) =
         {l.path : l \in {m \in Range(document) :
                            /\ Followed(m.path) /\ Last(m.path) = IncludesKey
                            /\ m.item \in {"text", "texts"} /\ Len(m.path) <= MaxDepth + 1}}

\* The result says Pruned, and so the loader warns, exactly when the document
\* has a place below the depth; and only a value that cannot be converted fails
\* the load (types.rs:19-23, "a warning is issued, but loading continues").
LossIsFlagged ==
  stage # "writing" =>
    LET reached == {p \in Positions(document) \ {<<>>} : IsValue(p) /\ Len(p) <= MaxDepth}
    IN  /\ data.failed <=> \E l \in Range(document) : l.path \in reached /\ l.item = "unsupported"
        /\ data.pruned <=> \E p \in Positions(document) : Len(p) = MaxDepth + 1 /\ IsValue(p)

\* A value under the prefix reaches the extracted table, under the rest of its
\* key, unless the key of another value lies on its path (mod.rs:594, "Ignore
\* type conflicts for MVP").
SubtreeHoldsItsKeys ==
  stage = "extracted" =>
    LET subkeys == {Subkey(v.key) : v \in {w \in Range(data.values) : IsStrictPrefix(Prefix, w.key)}}
        conflict(k) == \E q \in subkeys : IsStrictPrefix(k, q) \/ IsStrictPrefix(q, k)
    IN  /\ table \subseteq subkeys
        /\ \A k \in subkeys : k \in table \/ conflict(k)
        /\ \A k, q \in table : ~IsStrictPrefix(k, q)

================================================================================
