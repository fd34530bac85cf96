CONSTANTS
  None = None
  A = A
  B = B
  u = u
  v = v
  wasm = wasm
  toml = toml
  Installers = {i1, i2}
  Modules = {A, B}
  Files = {wasm, toml}
  Wasm = wasm
  Contents = {u, v}
  IdOf <- MCIdOf

SPECIFICATION Spec

SYMMETRY Symmetry

INVARIANT
  DiskAgreesWithState
