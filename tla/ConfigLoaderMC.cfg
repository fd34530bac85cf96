\* Three files beside arcella.toml, two includes deep, two edits.
SPECIFICATION Spec
CONSTANTS
  main = main
  template = template
  builtin = builtin
  dir = dir
  a = a
  b = b
  c = c
  Paths <- MCPaths
  Main = main
  Template = template
  Builtin = builtin
  ValidPaths <- MCValidPaths
  Dirs = {dir}
  Members <- MCMembers
  Rank <- MCRank
  MaxDepth = 2
  Documents <- MCDocuments
  TemplateContent <- MCTemplateContent
  MaxEdits = 2
INVARIANTS
  NothingLostSilently
  LayersFollowFiles
  DepthIsBounded
  FailsOnlyForABrokenFile
PROPERTY
  AcceptedMainIsCurrent
