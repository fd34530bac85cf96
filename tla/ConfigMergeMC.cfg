\* Three layers: arcella.toml and two included files.
SPECIFICATION Spec
CONSTANTS
  default = default
  custom = custom
  other = other
  Keys = {default, custom, other}
  DefaultKeys = {default}
  NewableKeys = {custom}
  Writings <- MCWritings
  MaxLayers = 3
INVARIANTS
  TypeOK
  EffectiveValue
  
\* merge_config is a function: it ends when it has returned.
CHECK_DEADLOCK FALSE
