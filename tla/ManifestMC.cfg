\* Packages with manifests in every format, templates in both places, and every specification.
SPECIFICATION Spec
CONSTANTS
  NameChars = {"a", "-", "0", "1"}
  Digits = {"0", "1"}
  Zero = "0"
  At = "@"
  Dot = "."
  MaxName = 2
  Chars = {"a", "-", "0", "1", "@", "."}
  Names = {"http:log", "greet"}
  Interfaces = {"http:log"}
  Packages <- MCPackages
  Specs <- MCSpecs
INVARIANTS
  IdReadsBack
  RecordReadsBack
  AdmittedIsDeployable
CHECK_DEADLOCK FALSE
