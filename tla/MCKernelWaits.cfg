CONSTANTS
  c1 = c1  c2 = c2  m1 = m1  m2 = m2  s1 = s1  o1 = o1
  e1 = e1  e2 = e2  sig = sig
  None = None  Wild = Wild  NextDelta = NextDelta
  Proc = {s1, o1}
  Coro = {s1, o1}
  Spawned = {s1}
  Once = {o1}
  Dormant = {}
  Event = {e1, e2}
  Signal = {}
  Sensitivity <- CoroSensitivity
  WaitLists <- AnyWaits
  Delays = {0, 1, 2}
  RunTimes = {0, 1, 2}
  Calls = {"notify", "wait(event)", "wait(event, timeout)", "wait(time)", "run", "spawn", "run_until", "return"}
  MaxCalls = 5
SPECIFICATION FairSpec
INVARIANT SubscriptionsMirrored
INVARIANT WaitIsArmed
INVARIANT ResumedForItsReason
INVARIANT TimeoutVerdict
PROPERTY TimeAdvancesSettled
PROPERTY RunReturns
PROPERTY EventOccurs
PROPERTY SpawnedReclaimed
