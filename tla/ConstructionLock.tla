-------------------------- MODULE ConstructionLock --------------------------
(***************************************************************************)
(* What Context::create() promises: a construction lock.  One thread at a  *)
(* time constructs a design, a thread that asks for the lock waits until   *)
(* it is free, and a free lock does not stay free while threads wait.      *)
(***************************************************************************)
CONSTANTS Thread, None

VARIABLES
  holder,   \* the thread that constructs a design, or None
  wanting   \* the threads that have asked for the lock and not been answered

Init == holder = None /\ wanting = {}

Ask(t) ==
  /\ t \notin wanting
  /\ wanting' = wanting \cup {t}
  /\ UNCHANGED holder

\* The thread that has the lock already is turned away.
Refuse(t) ==
  /\ t \in wanting
  /\ holder = t
  /\ wanting' = wanting \ {t}
  /\ UNCHANGED holder

Acquire(t) ==
  /\ t \in wanting
  /\ holder = None
  /\ holder' = t
  /\ wanting' = wanting \ {t}

\* Any thread can end the construction: release() and reset() do not ask which one calls.
Free ==
  /\ holder # None
  /\ holder' = None
  /\ UNCHANGED wanting

Next == (\E t \in Thread : Ask(t) \/ Refuse(t) \/ Acquire(t)) \/ Free

Taken == \E t \in Thread : Acquire(t)

Spec     == Init /\ [][Next]_<<holder, wanting>>
FairSpec == Spec /\ WF_<<holder, wanting>>(Taken)
=============================================================================
