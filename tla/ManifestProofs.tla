----------------------------- MODULE ManifestProofs -----------------------------
(***************************************************************************)
(* Proofs about Manifest: for any alphabet, packages and specifications,   *)
(* ids are read back from their text, records from the log, and what is    *)
(* admitted can be deployed.  And about Engine: for every configuration    *)
(* and whatever an engine says of itself, what profiles complete and what  *)
(* the report of an engine tells of them.                                  *)
(***************************************************************************)

EXTENDS Manifest, Engine, TLAPS, SequenceTheorems

\* A version in the accepted form is a text without an '@'.
LEMMA VersionHasNoAt ==
  ASSUME NEW S, NEW version \in Seq(S), IsValidVersion(version)
  PROVE  \A k \in DOMAIN version : version[k] # At
<1>1. PICK i \in Places(Dot, version), j \in Places(Dot, version) :
        /\ i < j
        /\ IsNumber(Before(version, i))
        /\ IsNumber(SubSeq(version, i + 1, j - 1))
        /\ IsNumber(After(version, j))
  BY DEF IsValidVersion
<1>2. i \in 1..Len(version) /\ j \in 1..Len(version) /\ version[i] = Dot /\ version[j] = Dot
  BY DEF Places
<1> SUFFICES ASSUME NEW k \in 1..Len(version)
             PROVE  version[k] # At
  OBVIOUS
<1>3. ASSUME NEW m \in Int, NEW n \in Int, 1 <= m, m <= k, k <= n, n <= Len(version),
             IsNumber(SubSeq(version, m, n))
      PROVE  version[k] # At
  <2>1. SubSeq(version, m, n) \in Seq(Digits)
    BY <1>3 DEF IsNumber
  <2>2. Len(SubSeq(version, m, n)) = n - m + 1 /\ SubSeq(version, m, n)[k - m + 1] = version[k]
    BY <1>3
  <2>3. k - m + 1 \in 1..Len(SubSeq(version, m, n))
    BY <1>3, <2>2
  <2>4. version[k] \in Digits
    BY <2>1, <2>2, <2>3
  <2> QED
    BY <2>4, ModuleIdsAssumption
<1>4. CASE k < i
  BY <1>1, <1>2, <1>3, <1>4 DEF Before
<1>5. CASE i < k /\ k < j
  BY <1>1, <1>2, <1>3, <1>5
<1>6. CASE j < k
  BY <1>1, <1>2, <1>3, <1>6 DEF After
<1>7. CASE k = i \/ k = j
  BY <1>2, <1>7, ModuleIdsAssumption
<1> QED
  BY <1>2, <1>4, <1>5, <1>6, <1>7

\* A text cut in two at one of its characters.
LEMMA Separated ==
  ASSUME NEW S, NEW n \in Seq(S), NEW v \in Seq(S), NEW c \in S, NEW t, t = n \o <<c>> \o v
  PROVE  /\ t \in Seq(S)
         /\ Len(t) = Len(n) + 1 + Len(v)
         /\ \A k \in 1..Len(n) : t[k] = n[k]
         /\ t[Len(n) + 1] = c
         /\ \A k \in Len(n) + 2..Len(t) : t[k] = v[k - Len(n) - 1]
         /\ SubSeq(t, 1, Len(n)) = n
         /\ SubSeq(t, Len(n) + 2, Len(t)) = v
<1>1. Len(n) \in Nat /\ Len(v) \in Nat
  BY LenProperties
<1>2. <<c>> \in Seq(S) /\ Len(<<c>>) = 1 /\ <<c>>[1] = c
  OBVIOUS
<1>3. PICK u : u = n \o <<c>>
  OBVIOUS
<1>4. /\ u \in Seq(S) /\ Len(u) = Len(n) + 1
      /\ \A i \in 1..Len(n) + 1 : u[i] = IF i <= Len(n) THEN n[i] ELSE <<c>>[i - Len(n)]
  BY <1>2, <1>3, ConcatProperties
<1>5. /\ t \in Seq(S) /\ Len(t) = Len(u) + Len(v)
      /\ \A i \in 1..Len(u) + Len(v) : t[i] = IF i <= Len(u) THEN u[i] ELSE v[i - Len(u)]
  BY <1>3, <1>4, ConcatProperties
<1>6. \A k \in 1..Len(n) : t[k] = n[k]
  BY <1>1, <1>4, <1>5
<1>7. t[Len(n) + 1] = c
  BY <1>1, <1>2, <1>4, <1>5
<1>8. \A k \in Len(n) + 2..Len(t) : t[k] = v[k - Len(n) - 1]
  BY <1>1, <1>4, <1>5
<1>9. SubSeq(t, 1, Len(n)) = n
  <2>1. \A i \in 1..Len(n) : t[i] \in S
    BY <1>6, ElementOfSeq
  <2>2. /\ SubSeq(t, 1, Len(n)) \in Seq(S)
        /\ Len(SubSeq(t, 1, Len(n))) = Len(n)
        /\ \A i \in 1..Len(n) : SubSeq(t, 1, Len(n))[i] = t[i]
    BY <1>1, <2>1, SubSeqProperties
  <2> QED
    BY <1>6, <2>2, SeqEqual
<1>10. SubSeq(t, Len(n) + 2, Len(t)) = v
  <2>1. \A i \in Len(n) + 2..Len(t) : t[i] \in S
    BY <1>1, <1>4, <1>5, ElementOfSeq
  <2>2. PICK w : w = SubSeq(t, Len(n) + 2, Len(t))
    OBVIOUS
  <2>3. Len(t) = Len(n) + 1 + Len(v)
    BY <1>4, <1>5
  <2>4. /\ w \in Seq(S)
        /\ Len(w) = Len(v)
        /\ \A i \in 1..Len(v) : w[i] = t[Len(n) + 2 + i - 1]
    <3>1. Len(n) + 2 \in Int /\ Len(t) \in Int /\ Len(t) - (Len(n) + 2) + 1 = Len(v)
      BY <1>1, <2>3
    <3>2. /\ w \in Seq(S)
          /\ Len(w) = IF Len(n) + 2 <= Len(t) THEN Len(t) - (Len(n) + 2) + 1 ELSE 0
          /\ \A i \in 1..Len(t) - (Len(n) + 2) + 1 : w[i] = t[Len(n) + 2 + i - 1]
      BY <2>1, <2>2, <3>1, SubSeqProperties
    <3>3. Len(w) = Len(v)
      BY <1>1, <2>3, <3>2
    <3>4. ASSUME NEW i \in 1..Len(v) PROVE w[i] = t[Len(n) + 2 + i - 1]
      <4>1. i \in 1..Len(t) - (Len(n) + 2) + 1
        BY <3>1
      <4> QED
        BY <3>2, <4>1, Zenon
    <3> QED
      BY <3>2, <3>3, <3>4, Zenon
  <2>5. ASSUME NEW i \in 1..Len(v) PROVE w[i] = v[i]
    <3>1. PICK k : k = Len(n) + 2 + i - 1
      OBVIOUS
    <3>2. k \in Len(n) + 2..Len(t) /\ k - Len(n) - 1 = i
      BY <1>1, <2>3, <3>1
    <3> QED
      BY <1>8, <2>4, <3>1, <3>2
  <2> QED
    BY <2>2, <2>4, <2>5, SeqEqual
<1> QED
  BY <1>4, <1>5, <1>6, <1>7, <1>8, <1>9, <1>10

\* The only '@' of the text of an id is the one that Display puts there.
LEMMA SeparatorIsUnique ==
  ASSUME NEW S, NEW id, id.version \in Seq(S),
         IsValidName(id.name), IsValidVersion(id.version)
  PROVE  /\ Places(At, Display(id)) = {Len(id.name) + 1}
         /\ Before(Display(id), Len(id.name) + 1) = id.name
         /\ After(Display(id), Len(id.name) + 1) = id.version
<1>1. PICK n, v, t, T : /\ n = id.name /\ v = id.version /\ t = Display(id)
                        /\ T = NameChars \cup S \cup {At}
  OBVIOUS
<1>2. n \in Seq(NameChars) /\ NameChars \subseteq T /\ S \subseteq T /\ At \in T
  BY <1>1 DEF IsValidName
<1>3. n \in Seq(T) /\ v \in Seq(T)
  BY <1>1, <1>2, SeqMonotonic
<1>4. t = n \o <<At>> \o v
  BY <1>1 DEF Display
<1>5. /\ t \in Seq(T)
      /\ Len(t) = Len(n) + 1 + Len(v)
      /\ \A k \in 1..Len(n) : t[k] = n[k]
      /\ t[Len(n) + 1] = At
      /\ \A k \in Len(n) + 2..Len(t) : t[k] = v[k - Len(n) - 1]
      /\ SubSeq(t, 1, Len(n)) = n
      /\ SubSeq(t, Len(n) + 2, Len(t)) = v
  BY <1>2, <1>3, <1>4, Separated
<1>6. Len(n) \in Nat /\ Len(v) \in Nat /\ DOMAIN t = 1..Len(t) /\ DOMAIN v = 1..Len(v)
  BY <1>3, <1>5, LenProperties
<1>7. \A k \in 1..Len(n) : t[k] # At
  BY <1>2, <1>5, ElementOfSeq, ModuleIdsAssumption
<1>8. \A k \in 1..Len(v) : v[k] # At
  BY <1>1, <1>6, VersionHasNoAt
<1>9. \A k \in Len(n) + 2..Len(t) : t[k] # At
  <2> TAKE k \in Len(n) + 2..Len(t)
  <2>1. k - Len(n) - 1 \in 1..Len(v)
    BY <1>5, <1>6
  <2> QED
    BY <1>5, <1>8, <2>1
<1>10. Places(At, t) = {Len(n) + 1}
  BY <1>5, <1>6, <1>7, <1>9 DEF Places
<1>11. Before(t, Len(n) + 1) = n /\ After(t, Len(n) + 1) = v
  BY <1>5, <1>6 DEF Before, After
<1> QED
  BY <1>1, <1>10, <1>11

\* Reading the text of an id gives that id and no other.
LEMMA TextReadsBack ==
  ASSUME NEW S, NEW id, id = [name |-> id.name, version |-> id.version],
         id.version \in Seq(S), IsValidName(id.name), IsValidVersion(id.version)
  PROVE  FromStr(Display(id)) = {id}
<1>1. FromStr(Display(id)) = New(id.name, id.version)
  BY SeparatorIsUnique DEF FromStr
<1>2. New(id.name, id.version) = {id}
  BY DEF New
<1> QED
  BY <1>1, <1>2

--------------------------------------------------------------------------------
(* The inductive invariant.                                                *)

\* An id that one of the constructors has made, of whatever text.
IsId(id) ==
  /\ id = [name |-> id.name, version |-> id.version]
  /\ id.version \in Seq(Chars)
  /\ IsValidName(id.name) /\ IsValidVersion(id.version)

IsManifest(m) ==
  /\ m = [id |-> m.id, exports |-> m.exports, imports |-> m.imports]
  /\ IsId(m.id)
  /\ Valid(m)

\* What every step keeps: bundles are made of checked parts.
IInv ==
  /\ package \in Package(Seq(Chars))
  /\ \A b \in bundle : IsManifest(b.manifest) /\ \A t \in b.template : ValidTemplate(t)

LEMMA NewMakesIds ==
  ASSUME NEW name, NEW version \in Seq(Chars), NEW id \in New(name, version)
  PROVE  IsId(id)
BY DEF New, IsId

LEMMA TextMakesIds ==
  ASSUME NEW text \in Seq(Chars), NEW id \in FromStr(text)
  PROVE  IsId(id)
<1>1. PICK i \in Places(At, text) : id \in New(Before(text, i), After(text, i))
  BY DEF FromStr
<1>2. i \in 1..Len(text) /\ Len(text) \in Nat
  BY LenProperties DEF Places
<1>3. \A k \in i + 1..Len(text) : text[k] \in Chars
  BY <1>2, ElementOfSeq
<1>4. After(text, i) \in Seq(Chars)
  BY <1>2, <1>3, SubSeqProperties DEF After
<1> QED
  BY <1>1, <1>4, NewMakesIds

\* Every manifest that a package yields is checked, whichever way it is found.
LEMMA LoadedManifestsAreChecked ==
  ASSUME NEW p \in Package(Seq(Chars)), NEW b \in LoadBundle(p)
  PROVE  IsManifest(b.manifest) /\ \A t \in b.template : ValidTemplate(t)
<1>1. PICK m : /\ m \in IF p.toml # None THEN UNION {LoadFromToml(d) : d \in p.toml}
                                         ELSE LoadFromWasm(p)
              /\ b = [manifest |-> m, template |-> p.plain]
              /\ \A t \in p.plain : ValidTemplate(t)
  BY DEF LoadBundle
<1>2. CASE m \in LoadFromWasm(p)
  <2>1. PICK i \in FromStr(p.stem) : m = [id |-> i, exports |-> p.exports, imports |-> p.imports]
    BY <1>2 DEF LoadFromWasm
  <2>2. IsId(i)
    BY TextMakesIds DEF Package
  <2>3. Valid(m)
    BY <1>2 DEF LoadFromWasm
  <2> QED
    BY <1>1, <2>1, <2>2, <2>3 DEF IsManifest
<1>3. ASSUME NEW d \in p.toml, m \in LoadFromToml(d)
      PROVE  IsManifest(m)
  <2>1. d \in Document(Seq(Chars))
    BY DEF Package, Optional
  <2>2. PICK i \in DeclaredId(d) : \E e, f : m = [id |-> i, exports |-> e, imports |-> f]
    BY <1>3 DEF LoadFromToml, Deserialize
  <2>3. Valid(m)
    BY <1>3 DEF LoadFromToml
  <2>4. \/ \E t \in d.string \cup d.id : i \in FromStr(t)
        \/ \E q \in d.pair : i \in New(q.name, q.version)
        \/ \E n \in d.name, v \in d.version : i \in New(n, v)
    BY <2>2 DEF DeclaredId, ByText, ByPair
  <2>5. /\ d.string \cup d.id \subseteq Seq(Chars)
        /\ \A q \in d.pair : q.version \in Seq(Chars)
        /\ d.version \subseteq Seq(Chars)
    BY <2>1 DEF Document, Optional
  <2>6. IsId(i)
    BY <2>4, <2>5, TextMakesIds, NewMakesIds
  <2> QED
    BY <2>2, <2>3, <2>6 DEF IsManifest
<1> QED
  BY <1>1, <1>2, <1>3

LEMMA InitIInv == Init => IInv
BY ManifestAssumption DEF Init, IInv, None

LEMMA ReadKeepsIInv ==
  ASSUME IInv, NEW p \in Package(Seq(Chars)), Read(p)
  PROVE  IInv'
<1>1. bundle' = LoadBundle(p) /\ UNCHANGED <<package, deployment>>
  BY DEF Read
<1>2. \A b \in bundle' : IsManifest(b.manifest) /\ \A t \in b.template : ValidTemplate(t)
  BY <1>1, LoadedManifestsAreChecked
<1> QED
  BY <1>1, <1>2 DEF IInv

LEMMA NextIInv == IInv /\ [Next]_vars => IInv'
<1> SUFFICES ASSUME IInv, [Next]_vars PROVE IInv'
  OBVIOUS
<1>1. CASE Install
  <2>1. Staged(package) \in Package(Seq(Chars))
    <3>1. None \in Optional(Template(Seq(Chars)))
      BY DEF None, Optional
    <3>2. package \in Package(Seq(Chars))
      BY DEF IInv
    <3> QED
      BY <3>1, <3>2 DEF Staged, Package
  <2> QED
    BY <1>1, <2>1, ReadKeepsIInv DEF Install
<1>2. CASE Inspect
  BY <1>2, ReadKeepsIInv DEF Inspect, IInv
<1>3. CASE Deploy
  BY <1>3 DEF Deploy, IInv
<1>4. CASE UNCHANGED vars
  BY <1>4 DEF IInv, vars
<1> QED
  BY <1>1, <1>2, <1>3, <1>4 DEF Next

LEMMA Invariance == Spec => []IInv
<1>1. Init => IInv
  BY InitIInv
<1>2. IInv /\ [Next]_vars => IInv'
  BY NextIInv
<1> QED
  BY <1>1, <1>2, PTL DEF Spec

--------------------------------------------------------------------------------

\* Display and from_str of ModuleId are inverse on every id that is admitted.
THEOREM IdsAreReadBack == Spec => []IdReadsBack
<1>1. IInv => IdReadsBack
  BY TextReadsBack DEF IInv, IdReadsBack, IsManifest, IsId
<1> QED
  BY <1>1, Invariance, PTL

LEMMA RecordIsReadBack ==
  ASSUME NEW m, IsManifest(m)
  PROVE  LoadFromToml(Serialize(m)) = {m}
<1>1. PICK doc : doc = Serialize(m)
  OBVIOUS
<1>2. /\ doc.string = {} /\ doc.id = {} /\ doc.pair = {m.id}
      /\ doc.exports = m.exports /\ doc.imports = m.imports
  BY <1>1 DEF Serialize, None
<1>3. New(m.id.name, m.id.version) = {m.id}
  BY DEF New, IsManifest, IsId
<1>4. ByText(doc) = {} /\ ByPair(doc) = {m.id}
  BY <1>2, <1>3 DEF ByText, ByPair
<1>5. DeclaredId(doc) = {m.id}
  BY <1>2, <1>4 DEF DeclaredId, None
<1>6. Deserialize(doc) = {m}
  BY <1>2, <1>5 DEF Deserialize, None, IsManifest
<1> QED
  BY <1>1, <1>6 DEF LoadFromToml, IsManifest

\* Serialize and the three formats of Deserialize of ComponentManifest agree.
THEOREM RecordsAreReadBack == Spec => []RecordReadsBack
<1>1. IInv => RecordReadsBack
  BY RecordIsReadBack DEF IInv, RecordReadsBack
<1> QED
  BY <1>1, Invariance, PTL

\* DeploymentTemplate::validate is not weaker than FullDeployment::validate.
THEOREM AdmittedModulesAreDeployable == Spec => []AdmittedIsDeployable
<1>1. ASSUME NEW template, NEW group, group # "", \A t \in template : ValidTemplate(t)
      PROVE  CreateDeployment([group |-> group, replicas |-> 1, overrides |-> NoOverrides], template) # None
  <2>1. PICK spec : spec = [group |-> group, replicas |-> 1, overrides |-> NoOverrides]
    OBVIOUS
  <2>2. PICK base : /\ base = IF template # None THEN CHOOSE t \in template : TRUE ELSE Default
                    /\ IsolationAllows(base)
    <3>1. IsolationAllows(Default)
      BY DEF IsolationAllows, Default
    <3> QED
      BY <1>1, <3>1 DEF ValidTemplate, None
  <2>3. Compose(spec, template) =
          [group |-> group, replicas |-> 1,
           isolation |-> base.isolation, trusted |-> base.trusted, async |-> base.async]
    BY <2>1, <2>2 DEF Compose, NoOverrides, None
  <2>4. ValidDeployment(Compose(spec, template)) /\ ValidSpec(spec)
    <3>1. PICK d : d = Compose(spec, template)
      OBVIOUS
    <3>2. d.isolation = base.isolation /\ d.trusted = base.trusted /\ d.async = base.async /\ d.replicas = 1
      BY <2>3, <3>1
    <3>3. ValidDeployment(d)
      BY <2>2, <3>2, Zenon DEF ValidDeployment, IsolationAllows
    <3>4. ValidSpec(spec)
      <4>1. spec.group = group /\ spec.replicas = 1 /\ 1 # 0
        BY <2>1
      <4> QED
        BY <1>1, <4>1, Zenon DEF ValidSpec
    <3> QED
      BY <3>1, <3>3, <3>4
  <2>5. Compose(spec, template) \in CreateDeployment(spec, template)
    BY <2>4 DEF CreateDeployment
  <2> QED
    BY <2>1, <2>5 DEF None
<1>2. IInv => AdmittedIsDeployable
  BY <1>1 DEF IInv, AdmittedIsDeployable
<1> QED
  BY <1>2, Invariance, PTL

--------------------------------------------------------------------------------
(* Engine configurations.                                                  *)

LEMMA ProfileTypes ==
  ASSUME NEW config \in Config, NEW group \in Groups
  PROVE  WithProfile(config, group) \in Config
BY DEF WithProfile, Config, Settings

LEMMA ProfileSets ==
  ASSUME NEW config \in Config, NEW group \in Groups, NEW f \in Features
  PROVE  WithProfile(config, group).enable[f] =
           IF f \in FeaturesOf(group) /\ config.enable[f] = "unset" THEN "on" ELSE config.enable[f]
BY DEF WithProfile, Config

\* The order in which profiles are applied does not matter to the features, only
\* to the profile the configuration and the report name (with_profile keeps what
\* is set and never sets a feature off).
THEOREM ProfilesCommute ==
  ASSUME NEW config \in Config, NEW g \in Groups, NEW h \in Groups
  PROVE  WithProfile(WithProfile(config, g), h).enable = WithProfile(WithProfile(config, h), g).enable
<1> DEFINE One == WithProfile(WithProfile(config, g), h)
           Other == WithProfile(WithProfile(config, h), g)
<1>1. One \in Config /\ Other \in Config
  BY ProfileTypes
<1>2. ASSUME NEW f \in Features
      PROVE  One.enable[f] = Other.enable[f]
  <2>1. One.enable[f] = IF f \in FeaturesOf(g) \cup FeaturesOf(h) /\ config.enable[f] = "unset"
                          THEN "on" ELSE config.enable[f]
    BY ProfileTypes, ProfileSets
  <2>2. Other.enable[f] = IF f \in FeaturesOf(g) \cup FeaturesOf(h) /\ config.enable[f] = "unset"
                            THEN "on" ELSE config.enable[f]
    BY ProfileTypes, ProfileSets
  <2> QED
    BY <2>1, <2>2
<1> HIDE DEF One, Other
<1>3. One.enable = Other.enable
  BY <1>1, <1>2 DEF Config
<1> QED
  BY <1>3 DEF One, Other

\* An explicit choice about threads is what the engine gets, before a profile or
\* after it ("This allows you to set a profile first and then override specific
\* features using the builder chain", engine/mod.rs:317).
THEOREM ExplicitChoiceWins ==
  ASSUME NEW config \in Config, NEW group \in Groups, NEW value \in BOOLEAN
  PROVE  /\ WithProfile(EnableThreads(config, value), group).enable["threads"]
              = (IF value THEN "on" ELSE "off")
         /\ EnableThreads(WithProfile(config, group), value).enable["threads"]
              = (IF value THEN "on" ELSE "off")
<1>1. "threads" \in Features
  BY DEF Features
<1>2. ASSUME NEW c \in Config
      PROVE  EnableThreads(c, value) \in Config
             /\ EnableThreads(c, value).enable["threads"] = (IF value THEN "on" ELSE "off")
  BY <1>1 DEF EnableThreads, Config, Settings
<1>3. WithProfile(config, group) \in Config
  BY ProfileTypes
<1> QED
  BY <1>1, <1>2, <1>3, ProfileSets

\* A profile costs nothing on an engine that has its features: the report warns
\* of what it warned of without the profile, and no critical gap appears or
\* disappears (with_profile asks for nothing else, and keeps every explicit
\* choice the configuration made before).
THEOREM SupportedProfilesAreSilent ==
  ASSUME NEW engine \in Engines, NEW config \in Config, NEW group \in Groups,
         \A f \in FeaturesOf(group) : Supports(engine, f)
  PROVE  LET before == Report(engine, config)
             after == Report(engine, WithProfile(config, group))
         IN  after.warnings = before.warnings /\ (HasCriticalGaps(after) <=> HasCriticalGaps(before))
<1>1. ASSUME NEW f \in Features, ~Supports(engine, f)
      PROVE  Requested(WithProfile(config, group), f) <=> Requested(config, f)
  <2>1. f \notin FeaturesOf(group)
    BY <1>1
  <2> QED
    BY <2>1, ProfileSets DEF Requested
<1>2. "component_model" \in Features
  BY DEF Features
<1> QED
  BY <1>1, <1>2 DEF Report, HasCriticalGaps

\* The limit of memory is the default one or the caller's, whatever profiles and
\* settings were applied: what validate accepted stays valid.
THEOREM ProfilesKeepValid ==
  ASSUME NEW config \in Config, NEW group \in Groups, NEW value \in BOOLEAN
  PROVE  /\ ValidConfig(DefaultConfig)
         /\ ValidConfig(config) => ValidConfig(WithProfile(config, group)) /\ ValidConfig(EnableThreads(config, value))
<1>1. WithProfile(config, group).pages = config.pages /\ EnableThreads(config, value).pages = config.pages
  BY DEF WithProfile, EnableThreads, Config
<1>2. ValidConfig(DefaultConfig)
  BY DEF ValidConfig, DefaultConfig, MaxReasonablePages
<1> QED
  BY <1>1, <1>2 DEF ValidConfig

================================================================================
