CONSTANTS
  None = None
  A = A
  B = B
  u = u
  v = v
  wasm = wasm
  Installers = {i1, i2}
  Deployers = {d1}
  Modules = {A, B}
  Files = {wasm}
  Wasm = wasm
  Contents = {u, v}
  IdOf <- MCIdOf

SPECIFICATION DSpec

INVARIANT
  AcceptedSpecIsInstalled
