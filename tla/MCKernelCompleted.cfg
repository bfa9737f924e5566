CONSTANTS
  c1 = c1  c2 = c2  m1 = m1  m2 = m2  s1 = s1  o1 = o1
  e1 = e1  e2 = e2  sig = sig
  None = None  Wild = Wild  NextDelta = NextDelta
  Proc = {c1}
  Coro = {c1}
  Spawned = {}
  Once = {}
  Dormant = {}
  Event = {e1}
  Signal = {}
  Sensitivity <- NoSensitivity
  WaitLists <- OneWait
  Delays = {1, 2}
  RunTimes = {0, 1}
  Calls = {"return", "always", "initialize(true)", "notify", "run"}
  MaxCalls = 5
SPECIFICATION Spec
INVARIANT CompletedNeverResumed
