CONSTANTS
  c1 = c1  c2 = c2  m1 = m1  m2 = m2  s1 = s1  o1 = o1
  e1 = e1  e2 = e2  sig = sig
  None = None  Wild = Wild  NextDelta = NextDelta
  Proc = {m1, s1, o1}
  Coro = {s1, o1}
  Spawned = {s1}
  Once = {o1}
  Dormant = {}
  Event = {e1}
  Signal = {sig}
  Sensitivity <- MethodSensitivity
  WaitLists <- OneWait
  Delays = {0, 1, 2}
  RunTimes = {0, 2}
  Calls = {"notify", "write", "wait(event)", "wait(event, timeout)", "wait(time)", "run",
           "spawn", "run_until", "return", "throw", "next_trigger(event)", "next_trigger(time)",
           "initialize(true)", "initialize(false)", "disable", "enable", "always"}
  MaxCalls = 6
SPECIFICATION Spec
INVARIANT NoDangling
INVARIANT FlagsMatchStack
INVARIANT NothingOverdue
INVARIANT PauseEnds
PROPERTY DisabledIsDeaf
PROPERTY UntilKeepsDeadline
