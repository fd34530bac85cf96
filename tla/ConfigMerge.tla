------------------------------- MODULE ConfigMerge -------------------------------
(***************************************************************************)
(* merge_config (arcella-core/src/config/mod.rs): the layers ConfigLoader  *)
(* returns, arcella.toml first and of the highest priority, are merged     *)
(* from the last to the first, and the result is laid over the defaults.   *)
(*                                                                         *)
(* A value is known by the number of the layer that sets it, which is also *)
(* the number of its file (LayersFollowFiles in ConfigLoader); 0 is the    *)
(* built-in default configuration.  A layer may set a key plainly, with    *)
(* the suffix #redef, or, as these are two keys of a document, both ways.  *)
(***************************************************************************)

EXTENDS Naturals, Sequences

CONSTANTS
  Keys,         \* keys without the suffix
  DefaultKeys,  \* keys of the built-in default configuration
  NewableKeys,  \* keys under arcella.custom, .modules and .log.internal
  Writings,     \* how a layer sets a key: a sequence of "plain" and "redef"
  MaxLayers     \* bound on the layers

AllWritings == {<<>>, <<"plain">>, <<"redef">>, <<"plain", "redef">>, <<"redef", "plain">>}

ASSUME KeysAssumption ==
  /\ DefaultKeys \subseteq Keys
  /\ NewableKeys \subseteq Keys
  /\ Writings \subseteq AllWritings
  /\ MaxLayers \in Nat \ {0}

VARIABLES
  layers,       \* configs: how each layer sets each key
  idx,          \* layers yet to be merged
  preliminary,  \* preliminary_values
  final,        \* final_values: the layer each key has its value from
  warnings      \* which key of which file was not taken over

vars == <<layers, idx, preliminary, final, warnings>>

Main == 1
Default == 0
None == MaxLayers + 1  \* a key without a value, a value without permission

Numbers == 0..(MaxLayers + 1)
Resolved == [source: Numbers, redef_allowed_by: Numbers]
Unresolved == [source |-> None, redef_allowed_by |-> None]

TypeOK ==
  /\ layers \in Seq([Keys -> Writings]) /\ Len(layers) \in 1..MaxLayers
  /\ idx \in 0..Len(layers)
  /\ preliminary \in [Keys -> Resolved]
  /\ final # <<>> => final \in [Keys -> Numbers] /\ idx = 0
  /\ warnings \subseteq [key: Keys, source: Numbers]

Init ==
  /\ \E n \in 1..MaxLayers: layers \in [1..n -> [Keys -> Writings]]
  /\ idx = Len(layers)
  /\ preliminary = [k \in Keys |-> Unresolved]
  /\ final = <<>>
  /\ warnings = {}

--------------------------------------------------------------------------------
(* One layer, over those of lower priority.                                *)

Occupied(entry) == entry.source # None

\* A plain key takes the place of the lower value.
SetPlain(entry, n) == [entry EXCEPT !.source = n]

\* With #redef the lower value stays, and has the permission of this layer;
\* if there is none the value is set as a plain one is.
SetRedef(entry, n) ==
  IF Occupied(entry) THEN [entry EXCEPT !.redef_allowed_by = n] ELSE SetPlain(entry, n)

Set(entry, suffix, n) == IF suffix = "plain" THEN SetPlain(entry, n) ELSE SetRedef(entry, n)

\* The one or two keys of layer n that set an entry, in their order.
Merged(entry, writing, n) ==
  IF writing = <<>> THEN entry
  ELSE IF Len(writing) = 1 THEN Set(entry, writing[1], n)
  ELSE Set(Set(entry, writing[1], n), writing[2], n)

Sets(n, k, suffix) == \E i \in DOMAIN layers[n][k]: layers[n][k][i] = suffix

OverwritesUnreported(n) == {}

\* The values of other files that layer n overwrites, or its own if the same
\* key comes with #redef before.
Overwrites(n) ==
  {[key |-> k, source |-> IF Occupied(preliminary[k]) THEN preliminary[k].source ELSE n]:
     k \in {k \in Keys: /\ Sets(n, k, "plain")
                        /\ Occupied(preliminary[k]) \/ layers[n][k] = <<"redef", "plain">>}}

MergeLayer ==
  /\ idx > 0
  /\ preliminary' = [k \in Keys |-> Merged(preliminary[k], layers[idx][k], idx)]
  /\ warnings' = warnings \cup Overwrites(idx)
  /\ idx' = idx - 1
  /\ UNCHANGED <<layers, final>>

--------------------------------------------------------------------------------
(* The result, over the defaults.                                          *)

MayReplaceAnyPermission(entry) == entry.source = Main \/ entry.redef_allowed_by # None

\* Only arcella.toml replaces a default, or a file it gave permission to.
MayReplace(entry) == entry.source = Main \/ entry.redef_allowed_by = Main

Accepted(k) == IF k \in DefaultKeys THEN MayReplace(preliminary[k]) ELSE k \in NewableKeys

Overlaid(k) ==
  IF Occupied(preliminary[k]) /\ Accepted(k) THEN preliminary[k].source
  ELSE IF k \in DefaultKeys THEN Default
  ELSE None

FinishBeforeMain ==
  /\ idx <= 1
  /\ final = <<>>
  /\ final' = [k \in Keys |-> Overlaid(k)]
  /\ UNCHANGED <<layers, idx, preliminary, warnings>>

Finish ==
  /\ idx = 0
  /\ final = <<>>
  /\ final' = [k \in Keys |-> Overlaid(k)]
  /\ warnings' = warnings \cup
       {[key |-> k, source |-> preliminary[k].source]:
          k \in {k \in Keys: Occupied(preliminary[k]) /\ ~Accepted(k)}}
  /\ UNCHANGED <<layers, idx, preliminary>>

Next == MergeLayer \/ Finish

Spec == Init /\ [][Next]_vars

--------------------------------------------------------------------------------
(* The rules of docs/CONFIGURATION.md.                                     *)

Layers == DOMAIN layers
Defines(n, k) == Sets(n, k, "plain") \/ Sets(n, k, "redef")
Fixes(n, k) == Sets(n, k, "plain")

\* Layer n has the last word on k among the layers after low: nothing of
\* higher priority fixes k, and n fixes it or is the last that defines it.
Wins(n, k, low) ==
  /\ Defines(n, k)
  /\ \A m \in low + 1 .. n - 1: ~Fixes(m, k)
  /\ Fixes(n, k) \/ \A m \in n + 1 .. Len(layers): ~Defines(m, k)

\* The value of k may be that of layer v: a default gives way only if
\* arcella.toml sets the key, any other key has to be one of those that may
\* be added, and then the layer that wins provides the value.
Effective(k, v) ==
  LET open == IF k \in DefaultKeys THEN Defines(Main, k)
              ELSE k \in NewableKeys /\ \E n \in Layers: Defines(n, k)
  IN  IF open THEN v \in Layers /\ Wins(v, k, 0)
      ELSE v = (IF k \in DefaultKeys THEN Default ELSE None)

\* The loop with its two tables comes to what the rules say: every key has
\* the value of the highest layer that sets it plainly, or of the lowest that
\* sets it if all of them leave it open to redefinition, and a default stays
\* unless arcella.toml itself sets the key.
EffectiveValue == final # <<>> => \A k \in Keys: Effective(k, final[k])

Reports(w, n, k) == w.key = k /\ (Fixes(n, k) => w.source = n)

\* A key that a layer sets in vain, because a higher layer had fixed it, because
\* arcella.toml does not mention it, or because the key may not be added, is in
\* the warnings; and if the layer sets it plainly, with the file of that layer.
\* A value set with #redef may go with no more than its key: over a lower value
\* it never gets into the table.
LossIsReported ==
  final # <<>> =>
    \A k \in Keys, n \in Layers:
      /\ Defines(n, k)
      /\ final[k] \notin Layers \/ \E m \in 1 .. n - 1: Fixes(m, k)
      => \E w \in warnings: Reports(w, n, k)

================================================================================
