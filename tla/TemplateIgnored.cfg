\* A package whose template is beside it under the name that the installation looks for.
SPECIFICATION Spec
CONSTANTS
  NameChars = {"a", "-", "0", "1"}
  Digits = {"0", "1"}
  Zero = "0"
  At = "@"
  Dot = "."
  MaxName = 2
  Chars = {"a", "-", "0", "1", "@", "."}
  Names = {"http:log", "greet"}
  Interfaces = {"http:log"}
  Packages <- MCPackages
  Specs <- MCSpecs
PROPERTY
  TemplateIsRead
CHECK_DEADLOCK FALSE
