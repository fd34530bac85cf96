--------------------------------- MODULE Engine ---------------------------------
(***************************************************************************)
(* The configuration of a WebAssembly engine, the profiles that complete   *)
(* it, and the report of what an engine cannot do of it.  No engine        *)
(* implements the trait yet and the daemon calls none of this: the module  *)
(* describes what an implementation may rely on.                           *)
(***************************************************************************)

EXTENDS Naturals, Sequences

\* WasmFeature, by its arcella_name.
Features ==
  {"component_model", "reference_types", "bulk_memory", "simd", "gc", "multi_value",
   "threads", "tail_call", "function_references"}

Groups ==
  {"WasiOnly", "ComponentModel", "GcFull", "EmbeddedMinimal", "HighPerformance", "Secure",
   "Experimental"}

\* WasmFeatureGroup::features.
FeaturesOf(group) ==
  CASE group = "WasiOnly" -> {"multi_value", "bulk_memory", "reference_types"}
    [] group = "ComponentModel" -> {"component_model", "reference_types", "multi_value", "bulk_memory"}
    [] group = "GcFull" -> {"component_model", "reference_types", "gc", "function_references", "multi_value"}
    [] group = "EmbeddedMinimal" -> {"multi_value"}
    [] group = "HighPerformance" -> {"component_model", "simd", "multi_value", "bulk_memory", "threads"}
    [] group = "Secure" -> {"component_model", "reference_types", "multi_value"}
    [] group = "Experimental" -> {}

\* The Option<bool> of a feature: "unset" leaves it to the engine.
Settings == {"unset", "on", "off"}

\* WasmEngineConfig.  pages holds the limit of memory in pages of 64 KiB, if any.
Config ==
  [enable : [Features -> Settings], profile : Groups \cup {"none"}, pages : SUBSET Nat]

DefaultConfig ==
  [enable |-> [f \in Features |-> "unset"], profile |-> "none", pages |-> {16384}]

\* enable_threads, the one explicit setting the builder chain has a method for.
EnableThreads(config, value) ==
  [config EXCEPT !.enable["threads"] = IF value THEN "on" ELSE "off"]

\* with_profile fills in what is unset.
WithProfile(config, group) ==
  [config EXCEPT
     !.profile = group,
     !.enable = [f \in Features |->
       IF f \in FeaturesOf(group) /\ config.enable[f] = "unset" THEN "on" ELSE config.enable[f]]]

\* validate.
MaxReasonablePages == 65536
ValidConfig(config) == \A pages \in config.pages : 1 <= pages /\ pages <= MaxReasonablePages

--------------------------------------------------------------------------------

\* supported_features: what an engine says of itself, a list that may leave
\* features out or name them twice; the first entry counts.
Engines == Seq([name : Features, supported : BOOLEAN])

Known(engine, f) == \E i \in DOMAIN engine : engine[i].name = f

Supports(engine, f) ==
  \E i \in DOMAIN engine :
    /\ engine[i].name = f /\ engine[i].supported
    /\ \A j \in 1..(i - 1) : engine[j].name # f

Requested(config, f) == config.enable[f] = "on"

\* compatibility_report: a list of all features, and a warning for each that is
\* requested in vain or that the engine does not know.
Report(engine, config) ==
  [profile |-> config.profile,
   requested |-> {f \in Features : Requested(config, f)},
   supported |-> {f \in Features : Supports(engine, f)},
   warnings |-> {f \in Features : \/ ~Known(engine, f)
                                  \/ Requested(config, f) /\ ~Supports(engine, f)}]

HasCriticalGaps(report) ==
  "component_model" \in report.requested \ report.supported

================================================================================
