SPECIFICATION Spec
CONSTANTS
  None = None
  Broken = Broken
  p1 = p1
  p2 = p2
  k1 = k1
  k2 = k2
  c1 = c1
  c2 = c2
  ref = ref
  Process = {p1, p2}
  left = left
  right = right
  Path = {left, right}
  Key = {k1, k2}
  Code = {c1, c2}
  Reference = {ref}
  Env <- Environments
  Initial <- Found
  Invocations <- Commands
INVARIANTS
  LockDiscipline
PROPERTIES
  AtomicSpec
  EveryCommandEnds
