------------------------------- MODULE ManifestMC -------------------------------
(***************************************************************************)
(* A small instance of Manifest: texts at the borders of what an id may be,*)
(* and every template and every set of overrides.                          *)
(***************************************************************************)

EXTENDS Manifest

One == <<"1", ".", "0", ".", "1">>
Padded == <<"1", ".", "0", ".", "0", "1">>
Short == <<"1", ".", "0">>
Name == <<"a">>
Long == <<"a", "-", "a">>

MCIds == {Name \o <<"@">> \o v : v \in {One, Padded, Short}} \cup {Long \o <<"@">> \o One, Name}

\* Optional, as a set that is enumerated.
Maybe(S) == {None} \cup {{s} : s \in S}

NoDocument ==
  [string |-> None, id |-> None, pair |-> None, name |-> None, version |-> None,
   exports |-> {}, imports |-> {}]

Lists == {{}, {"http:log"}, {"greet"}}

Versions == {One, Padded, Short}

MCDocuments ==
  {[NoDocument EXCEPT !.string = {t}] : t \in MCIds}
    \cup {[NoDocument EXCEPT !.id = i, !.name = n, !.version = v, !.exports = e] :
            i \in Maybe(MCIds), n \in Maybe({Name, Long}), v \in Maybe(Versions), e \in Lists}
    \cup {[NoDocument EXCEPT !.pair = {[name |-> n, version |-> v]}, !.exports = e] :
            n \in {Name, Long}, v \in Versions, e \in Lists}

NoPackage ==
  [kind |-> "core", stem |-> Name, exports |-> {}, imports |-> {},
   toml |-> None, named |-> None, plain |-> None]

MCTemplates == Template({Name \o <<"@">> \o One, Name})

\* Manifests of every kind without a template, and templates of every kind
\* beside some manifests.
MCPackages ==
  {[NoPackage EXCEPT !.toml = {d}] : d \in MCDocuments}
    \cup {[NoPackage EXCEPT !.kind = k, !.stem = s, !.exports = e, !.imports = i] :
            k \in {"component", "core"}, s \in MCIds, e \in Lists, i \in Lists}
    \cup {[NoPackage EXCEPT !.kind = "component", !.stem = Name \o <<"@">> \o One,
                            !.exports = e, !.named = n, !.plain = p] :
            e \in Lists, n \in {None, {[Default EXCEPT !.async = TRUE]}}, p \in Maybe(MCTemplates)}

MCSpecs == [group : {"", "batch"}, replicas : 0..2, overrides : Overrides]

================================================================================
