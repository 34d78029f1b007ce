SPECIFICATION Spec
CONSTANTS
  None = None
  Kinds = {"plain", "aec"}
  Threads = {t1, t2}
  Factories = {f1}
  Carriers = {c1, c2}
  Word = 4
  MaxRefs = 2
  MaxLocks = 1
PROPERTIES
  LockKeepsLoaded
