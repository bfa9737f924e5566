CONSTANTS
  t1 = t1  t2 = t2  t3 = t3  f1 = f1  f2 = f2
  None = None
  Thread = {t1, t2, t3}
  Factory = {f1, f2}
  Main = f1
  MaxContexts = 2
SPECIFICATION FairSpec
INVARIANTS
  RegistersWithOwn
  WaitersAreNotified
PROPERTIES
  ReleasesItsTarget
  IsConstructionLock
