\* Two threads, a buffer of at most two lines, four events.
SPECIFICATION Spec
CONSTANTS
  t1 = t1
  t2 = t2
  None = None
  Threads = {t1, t2}
  Arcella <- MCArcella
  Targets <- MCTargets
  Levels = {1, 2}
  MaxSize = 2
  MaxEvents = 4
INVARIANTS
  LevelsFollowSettings
  BufferKeepsRecent
  TailIsRecent
