\* Two daemons that start, stop, fail and crash at will, and clients that call
\* again and again.
SPECIFICATION MCSpec
CONSTANTS
  d1 = d1
  d2 = d2
  c1 = c1
  c2 = c2
  Nobody = Nobody
  Daemons = {d1, d2}
  Clients = {c1, c2}
INVARIANTS
  OutcomeIsTrue
PROPERTIES
  AloneServes
  CallEnds
  StopCompletes
