SPECIFICATION Spec
CONSTANTS
  Threads = {t1, t2, t3}
  Actions = {a1}
  Partitions = {p1}
  Offsets = {1, 2}
  null = null
  MaxCalls = 3
INVARIANTS LockIsHeldInside
PROPERTY ImplementsPromise
