-------------------------------- MODULE Manifest --------------------------------
(***************************************************************************)
(* What a module is and how it is deployed (arcella-core/src/manifest/,    *)
(* arcella-core/src/wasmtime/manifest.rs, arcella-types/src/manifest.rs):  *)
(* the manifest a package declares or its .wasm implies, the deployment    *)
(* template beside it, and the deployment an administrator composes from   *)
(* template and specification.                                             *)
(*                                                                         *)
(* A field that may be missing, and a result that may be an error, is a    *)
(* set of at most one value.  A document is what serde finds in a [component] *)
(* value: one string, or a table of fields, whose id is a text or a pair.  *)
(***************************************************************************)

EXTENDS ModuleIds

CONSTANTS
  Chars,       \* the characters of a text
  Names,       \* names that exports and imports are listed under
  Interfaces,  \* those of the form package:interface, with or without a version
  Packages,    \* the packages a user may have, see Package
  Specs        \* the deployment specifications an administrator may write

None == {}

Optional(S) == {some \in SUBSET S : \A x, y \in some : x = y}

(* The code's types, for texts and names of any kind.                       *)

Isolations == {"main", "worker"}

Document(Texts) ==
  [string : Optional(Texts), id : Optional(Texts), pair : Optional([name : Texts, version : Texts]),
   name : Optional(Texts), version : Optional(Texts),
   exports : SUBSET Names, imports : SUBSET Names]

Template(Texts) ==
  [isolation : Isolations, trusted : BOOLEAN, async : BOOLEAN, group : Optional(Texts)]

\* named is {stem}.deployment.template.toml, plain is deployment-template.toml,
\* both in the directory of the .wasm.
Package(Texts) ==
  [kind : {"component", "core"}, stem : Texts, exports : SUBSET Names, imports : SUBSET Names,
   toml : Optional(Document(Texts)),
   named : Optional(Template(Texts)), plain : Optional(Template(Texts))]

Overrides == [isolation : Optional(Isolations), trusted : Optional(BOOLEAN), async : Optional(BOOLEAN)]

Specification(Groups) == [group : Groups, replicas : Nat, overrides : Overrides]

ASSUME ManifestAssumption ==
  /\ Packages \subseteq Package(Seq(Chars))
  /\ Specs \subseteq Specification({s.group : s \in Specs})

VARIABLES
  package,     \* the files beside each other in one directory
  stage,       \* "package", then "bundle" or "refused", then "deployed" or "rejected"
  bundle,      \* the ComponentBundle, if there is one
  deployment   \* the FullDeployment, if there is one

vars == <<package, stage, bundle, deployment>>

--------------------------------------------------------------------------------
(* Component manifests.                                                    *)

ByPairUnchecked(doc) == doc.pair

ByPair(doc) == UNION {New(p.name, p.version) : p \in doc.pair}

ByText(doc) == UNION {FromStr(t) : t \in doc.id}

\* The three formats in the order in which they are tried.  A string is final,
\* and so is the flat form; an id that does not parse gives way to the flat form.
DeclaredIdWithoutPair(doc) ==
  IF doc.string # None THEN UNION {FromStr(t) : t \in doc.string}
  ELSE IF ByText(doc) # None THEN ByText(doc)
  ELSE UNION {New(n, v) : n \in doc.name, v \in doc.version}

DeclaredId(doc) ==
  IF doc.string # None THEN UNION {FromStr(t) : t \in doc.string}
  ELSE IF ByText(doc) \cup ByPair(doc) # None THEN ByText(doc) \cup ByPair(doc)
  ELSE UNION {New(n, v) : n \in doc.name, v \in doc.version}

Deserialize(doc) ==
  LET listed(names) == IF doc.string # None THEN {} ELSE names
  IN  {[id |-> i, exports |-> listed(doc.exports), imports |-> listed(doc.imports)]
         : i \in DeclaredId(doc)}

\* The manifest in the record of the module, which a restart reads back.
Serialize(manifest) ==
  [string |-> None, id |-> None, pair |-> {manifest.id}, name |-> None, version |-> None,
   exports |-> manifest.exports, imports |-> manifest.imports]

Valid(manifest) == manifest.exports \cup manifest.imports \subseteq Interfaces

LoadFromToml(doc) == {m \in Deserialize(doc) : Valid(m)}

\* Only a component can be compiled, and only its file name tells its id.
LoadFromWasm(p) ==
  {m \in {[id |-> i, exports |-> p.exports, imports |-> p.imports] : i \in FromStr(p.stem)} :
     p.kind = "component" /\ Valid(m)}

--------------------------------------------------------------------------------
(* Deployment templates and bundles.                                       *)

IsolationAllows(d) ==
  /\ d.trusted => d.isolation = "main"
  /\ d.isolation = "main" => d.async

ValidTemplateForWorker(t) ==
  /\ t.trusted => t.isolation = "main"
  /\ t.group # None => t.isolation = "worker"
  /\ \A g \in t.group : FromStr(g) # None

ValidTemplate(t) ==
  /\ IsolationAllows(t)
  /\ t.group # None => t.isolation = "worker"
  /\ \A g \in t.group : FromStr(g) # None

Compatible(manifest, template) == manifest.exports # {} => template.async

LoadBundle(p) ==
  {b \in {[manifest |-> m, template |-> p.plain] :
            m \in IF p.toml # None THEN UNION {LoadFromToml(d) : d \in p.toml}
                                   ELSE LoadFromWasm(p)} :
     \A t \in p.plain : ValidTemplate(t) /\ Compatible(b.manifest, t)}

\* The copy in the staging directory holds the files that
\* validate_install_package looks for.
Staged(p) == [p EXCEPT !.plain = None]

Init ==
  /\ package \in Packages
  /\ stage = "package" /\ bundle = None /\ deployment = None

Read(p) ==
  /\ stage = "package"
  /\ bundle' = LoadBundle(p)
  /\ stage' = IF bundle' = None THEN "refused" ELSE "bundle"
  /\ UNCHANGED <<package, deployment>>

\* module:install reads the bundle from its staging directory.
Install == Read(Staged(package))

\* from_wasm_and_toml and from_wasm_path where the user keeps the files.
Inspect == Read(package)

--------------------------------------------------------------------------------
(* Deployments.                                                            *)

ValidSpec(spec) == spec.group # "" /\ spec.replicas # 0

NoOverrides == [isolation |-> None, trusted |-> None, async |-> None]

Default == [isolation |-> "worker", trusted |-> FALSE, async |-> FALSE, group |-> None]

\* FullDeployment, without the module id that it copies from the specification.
Compose(spec, template) ==
  LET base == IF template # None THEN CHOOSE t \in template : TRUE ELSE Default
      over(given, value) == IF given # None THEN CHOOSE g \in given : TRUE ELSE value
  IN  [group |-> spec.group, replicas |-> spec.replicas,
       isolation |-> over(spec.overrides.isolation, base.isolation),
       trusted |-> over(spec.overrides.trusted, base.trusted),
       async |-> over(spec.overrides.async, base.async)]

ValidDeployment(d) ==
  /\ IsolationAllows(d)
  /\ d.isolation = "main" => d.replicas = 1

\* from_file and create_deployment.
CreateDeployment(spec, template) ==
  {d \in {Compose(spec, template)} : ValidSpec(spec) /\ ValidDeployment(d)}

Deploy ==
  /\ stage = "bundle"
  /\ \E spec \in Specs, b \in bundle : deployment' = CreateDeployment(spec, b.template)
  /\ stage' = IF deployment' = None THEN "rejected" ELSE "deployed"
  /\ UNCHANGED <<package, bundle>>

Next == Install \/ Inspect \/ Deploy

Spec == Init /\ [][Next]_vars

--------------------------------------------------------------------------------
(* Properties.                                                             *)

\* However its id was given, a module's text is read back as the same id, so
\* that directory names and locks tell modules apart as ids do.
IdReadsBack == \A b \in bundle : FromStr(Display(b.manifest.id)) = {b.manifest.id}

\* A manifest that is recorded at installation is the one a restart reads from
\* the record, whichever of the three formats or .wasm it came from.
RecordReadsBack == \A b \in bundle : LoadFromToml(Serialize(b.manifest)) = {b.manifest}

\* A module that is admitted can be deployed as its template recommends: what
\* the checks of a template let through, those of a deployment accept.
AdmittedIsDeployable ==
  \A b \in bundle, group \in {s.group : s \in Specs} \ {""} :
    CreateDeployment([group |-> group, replicas |-> 1, overrides |-> NoOverrides], b.template) # None

--------------------------------------------------------------------------------
(* A claim of the documentation that the code does not meet.               *)

\* install.rs:72-73: the package's deployment template "provides default
\* isolation, trust, and async settings".
TemplateIsRead == [][Install /\ bundle' # None => \A b \in bundle' : b.template = package.named]_vars

================================================================================
