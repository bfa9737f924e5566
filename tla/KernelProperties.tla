-------------------------- MODULE KernelProperties --------------------------
(***************************************************************************)
(* What the scheduling kernel promises to the processes of a design.       *)
(***************************************************************************)
EXTENDS Kernel

Queued(p) == p \in Range(evalStack)

\* p is a coroutine that is suspended in an awaitable of the given kinds.
Suspended(p, leaves) == p \in Coro /\ life[p] = "live" /\ awaiting[p] \in leaves

Subscribed(p) == \E e \in AllEvent : dynSubs[e][p] > 0

\* A time event that will wake p when its time comes.
HasTimeEvent(p) == \E t \in timeQ : t.proc = p /\ t.tag \in {wake[p], Sticky}
-----------------------------------------------------------------------------
(***************************************************************************)
(* The flag kept in each process agrees with the evaluation stack, and no  *)
(* process is on the stack twice: push_back() tests the flag only, so a    *)
(* flag left set makes a process that nothing schedules ever again, and    *)
(* one left clear makes a process that is evaluated twice in a round.      *)
(***************************************************************************)
FlagsMatchStack ==
  /\ \A p \in Proc : scheduled[p] <=> Queued(p)
  /\ \A i, j \in DOMAIN evalStack : evalStack[i] = evalStack[j] => i = j

(***************************************************************************)
(* Every subscription is recorded at both ends, as often at one as at the  *)
(* other: whatever ends a wait removes the entries one by one, so an       *)
(* entry that only the event has is never removed.                         *)
(***************************************************************************)
SubscriptionsMirrored ==
  \A p \in Proc, e \in AllEvent :
    /\ dynSubs[e][p] = dynEvents[p][e]
    /\ p \in staticSubs[e] <=> e \in staticEvents[p]

(***************************************************************************)
(* A coroutine that is suspended in a wait for an event or a time is on    *)
(* its way to be resumed, or everything it waits for can still resume it:  *)
(* an event, its timeout, or both.                                         *)
(***************************************************************************)
WaitIsArmed ==
  \A p \in Coro : ~Queued(p) =>
    /\ Suspended(p, {"event"}) => Subscribed(p)
    /\ Suspended(p, {"timed"}) =>
         /\ Subscribed(p)
         /\ [at |-> deadline[p], proc |-> p, tag |-> wake[p]] \in timeQ
    /\ Suspended(p, {"time"}) => (dynSubs[NextDelta][p] > 0 \/ HasTimeEvent(p))

(***************************************************************************)
(* "A suspended coroutine resumes for exactly one reason": what put it on  *)
(* the evaluation stack is what it waits for.  A stale time event or a     *)
(* leftover subscription would resume it for another.                      *)
(***************************************************************************)
ResumedForItsReason ==
  \A p \in Coro : Queued(p) =>
    /\ Suspended(p, {"static"}) => cause[p] = "static"
    /\ Suspended(p, {"event"})  => cause[p] = "event"
    /\ Suspended(p, {"time"})   => cause[p] \in {"time", "event"}
    /\ Suspended(p, {"timed"})  => cause[p] \in {"time", "event"}
    /\ Suspended(p, {"event", "time", "timed"}) => ~Subscribed(p)

(***************************************************************************)
(* wait(event, timeout) returns Timeout exactly if the timeout resumed the *)
(* coroutine.  await_resume() only compares the time with the deadline, so *)
(* this rests on the order of run(): due timeouts before the events of the *)
(* same time step, and the process evaluated before time moves on.         *)
(***************************************************************************)
TimeoutVerdict ==
  \A p \in Coro : Queued(p) /\ Suspended(p, {"timed"}) =>
    (TimedOut(p) <=> cause[p] = "time")

(***************************************************************************)
(* Time only advances when the design has settled: nothing is scheduled    *)
(* for the time step that ends.                                            *)
(***************************************************************************)
TimeAdvancesSettled ==
  [][time' # time => evalStack = <<>> /\ updateStack = {} /\ eventStack = <<>>]_vars

(***************************************************************************)
(* No time event is left behind: the next time step of run() is computed   *)
(* as an unsigned difference with the time of the first one.               *)
(***************************************************************************)
NothingOverdue == \A t \in timeQ : t.at > time

(***************************************************************************)
(* The loops of run() and run_until_done() are where they seem to be: what *)
(* is left to run, the run_until() in progress and the stacks of eval()    *)
(* agree with the place that control has reached.                          *)
(***************************************************************************)
ControlInv ==
  /\ pc = "idle" => left = 0 /\ until = None
  /\ pc = "until" => ret = "until"
  /\ pc # "idle" /\ ret = "until" => left = 0 /\ until # None
  /\ pc \in {"release", "until"} \/ (pc = "step" /\ left > 0) => NothingScheduled

(***************************************************************************)
(* What is left to run never reaches past the deadline of run_until(), and *)
(* the last run() before a TimeoutError has nothing to evaluate.           *)
(***************************************************************************)
DeadlineInv ==
  until # None =>
    /\ until.deadline # 0 => time + left <= until.deadline
    /\ until.expired =>
         /\ pc \in {"enter", "release", "step"}
         /\ ret = "step"
         /\ NothingScheduled
         /\ until.deadline # 0
         /\ time + left = until.deadline
         /\ ~done[until.proc]
         /\ \A t \in timeQ : t.at > until.deadline

\* The inductive invariant of the proofs about time.
TimeInv == TypeOK /\ NothingOverdue /\ ControlInv /\ DeadlineInv

(***************************************************************************)
(* The static sensitivity of a process is only paused while something is   *)
(* pending that ends the pause: a method process that has returned, or a   *)
(* coroutine in a wait, would be deaf for ever otherwise.                  *)
(***************************************************************************)
PauseEnds ==
  \A p \in Proc : life[p] = "live" /\ sens[p] = "Waiting" => Subscribed(p) \/ HasTimeEvent(p)

(***************************************************************************)
(* A disabled process is deaf.  disable() takes it off the stack and       *)
(* leaves nothing pending, whatever it had asked for.  From then on no     *)
(* event schedules it, neither one of its sensitivity list nor one that it *)
(* waited for.  Only initialize(true) does, and the time of a              *)
(* next_trigger() that a method process calls while it runs disabled.      *)
(***************************************************************************)
DisabledIsDeaf ==
  /\ [](\A p \in Proc : sens[p] = "Disabled" =>
          /\ ~Subscribed(p)
          /\ Queued(p) => cause[p] = "initialize" \/ (cause[p] = "time" /\ p \notin Coro)
          /\ p \in Coro => \A t \in timeQ : t.proc # p)
  /\ [][\A p \in Proc : sens[p] # "Disabled" /\ sens'[p] = "Disabled" =>
          ~Queued(p)' /\ \A t \in timeQ' : t.proc # p]_vars

-----------------------------------------------------------------------------
(***************************************************************************)
(* Nothing the scheduler will look at refers to a destroyed process, nor   *)
(* to one that has not been created.                                       *)
(***************************************************************************)
NoDangling ==
  \A p \in Proc : life[p] # "live" =>
    /\ ~Queued(p)
    /\ p \notin Range(completed)
    /\ current # p
    /\ \A t \in timeQ : t.proc # p
    /\ \A e \in AllEvent : dynSubs[e][p] = 0 /\ p \notin staticSubs[e]
    /\ until # None => until.proc # p

(***************************************************************************)
(* run_until() with a timeout never runs past the deadline, and throws     *)
(* TimeoutError only at the deadline, with everything that was due by then *)
(* evaluated and the task still not done.                                  *)
(***************************************************************************)
UntilKeepsDeadline ==
  /\ [](until # None /\ until.deadline # 0 => time <= until.deadline)
  /\ [][pc = "step" /\ until # None /\ until' = None =>
          time = until.deadline /\ evalStack = <<>> /\ ~done[until.proc]]_vars

-----------------------------------------------------------------------------
(***************************************************************************)
(* Liveness.  run() and run_until() return, if the processes they run      *)
(* reach the end of each evaluation.                                       *)
(***************************************************************************)
RunReturns == pc # "idle" ~> pc = "idle"

(***************************************************************************)
(* An event that has been notified occurs once the simulation runs.        *)
(***************************************************************************)
EventOccurs == \A e \in AllEvent : notified[e] /\ pc # "idle" ~> e \in fresh

(***************************************************************************)
(* A spawned coroutine that has completed is destroyed.                    *)
(***************************************************************************)
SpawnedReclaimed == \A p \in Spawned : done[p] ~> life[p] = "gone"
-----------------------------------------------------------------------------
(***************************************************************************)
(* A statement of the documentation and the comments that the code does    *)
(* not keep.                                                               *)
(***************************************************************************)

(***************************************************************************)
(* "The scheduler never resumes a completed coroutine": resuming one is    *)
(* undefined behaviour.                                                    *)
(***************************************************************************)
CompletedNeverResumed ==
  pc = "eval" /\ evalStack # <<>> =>
    LET p == evalStack[Len(evalStack)] IN ~(p \in Coro /\ done[p])
=============================================================================
