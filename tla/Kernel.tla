------------------------------- MODULE Kernel -------------------------------
(***************************************************************************)
(* The scheduling kernel of dspsim: Context, SensitivityEvent, ProcessBase *)
(* and the leaf awaitables of the coroutines.  One thread runs everything, *)
(* so the interleaving is that of the code itself: the processes evaluated *)
(* in a delta cycle, what each of them calls while it runs, and the test   *)
(* bench that calls the context between two runs.                          *)
(*                                                                         *)
(* pc is the place in Context::run(), run_until_done() and eval() that     *)
(* control has reached:                                                    *)
(*   idle     the test bench has control                                   *)
(*   enter    at the start of eval()                                       *)
(*   eval     in the evaluation phase, no process is running               *)
(*   body     process `current' is running                                 *)
(*   trigger  after the update phase, triggering the queued events         *)
(*   release  after the last round, destroying completed processes         *)
(*   step     at the test of the loop of run()                             *)
(*   until    at the test of the loop of run_until_done()                  *)
(*   unwind   an exception has left a process                              *)
(***************************************************************************)
EXTENDS Integers, Sequences, FiniteSets, SequencesExt

CONSTANTS
  Proc,         \* all processes of the design, and those created while it runs
  Coro,         \* the coroutine processes; the others are method processes
  Spawned,      \* coroutines started with spawn(): the context destroys them
  Once,         \* coroutines that the test bench runs with run_until(task)
  Dormant,      \* registered processes that called initialize(false)
  Event,        \* events of the user, raised with notify()
  Signal,       \* signals; the change event of a signal has the signal's name
  NextDelta,    \* Context::next_delta_event_
  Sensitivity,  \* the static sensitivity list of each process
  WaitLists,    \* event lists that are waited on: how often each event is named
  Delays,       \* arguments of wait(time), next_trigger(time) and of timeouts
  RunTimes,     \* arguments of run(time_inc)
  Calls,        \* the calls that the design and the test bench make
  MaxCalls,     \* bound: how many such calls are made altogether
  None,         \* nullptr
  Wild          \* an indeterminate pointer

AllEvent   == Event \cup Signal \cup {NextDelta}
Registered == Proc \ (Spawned \cup Once)
Sticky     == -1                    \* TimeEvent::kAnyWake
NoEvents   == [e \in AllEvent |-> 0]

\* A run_until() in progress: its process, its deadline (0 without a timeout), and
\* whether the deadline has been found to come before the next time event.
Until      == [proc : Once, deadline : Nat, expired : BOOLEAN]

ASSUME ProcAssumption ==
  /\ IsFiniteSet(Proc)
  /\ Coro \subseteq Proc
  /\ Spawned \subseteq Coro
  /\ Once \subseteq Coro
  /\ Spawned \cap Once = {}
  /\ Dormant \subseteq Registered
  /\ None \notin Proc
  /\ Wild \notin Proc
  /\ None \notin Until

ASSUME EventAssumption ==
  /\ IsFiniteSet(AllEvent)
  /\ Event \cap Signal = {}
  /\ NextDelta \notin Event \cup Signal
  /\ Sensitivity \in [Registered -> SUBSET (Event \cup Signal)]
  /\ WaitLists \subseteq [AllEvent -> Nat]
  /\ \A w \in WaitLists : \E e \in AllEvent : w[e] > 0

ASSUME NumberAssumption ==
  /\ Delays \subseteq Nat
  /\ RunTimes \subseteq Nat
  /\ MaxCalls \in Nat
-----------------------------------------------------------------------------
VARIABLES
  \* Context
  pc,           \* the place in the code that control has reached
  ret,          \* where eval() returns to: "step" or "until"
  initialized,  \* initialized_
  evaluated,    \* any_model_updated, a local of eval()
  left,         \* time_inc, the parameter of run() that counts down
  until,        \* the run_until() in progress, or None
  time,         \* time_
  timeQ,        \* time_event_stack_
  evalStack,    \* process_eval_stack_, the top is last
  updateStack,  \* signal_update_stack_
  eventStack,   \* sensitivity_event_stack_, the first to trigger first
  current,      \* current_process_
  completed,    \* completed_processes_
  \* SensitivityEvent
  notified,     \* notified_
  fresh,        \* the events whose change_time_ is update_count_
  staticSubs,   \* subscribers_->static_
  dynSubs,      \* subscribers_->dynamic_: how many entries each process has
  \* ProcessBase
  life,         \* "unborn", "live" or "gone" (destroyed)
  done,         \* done()
  scheduled,    \* scheduled_
  sens,         \* static_sensitivity_
  wake,         \* wake_count_
  timeUsed,     \* time_events_used_
  staticEvents, \* static_events_
  dynEvents,    \* dynamic_events_: how many entries each event has
  \* the frame of a suspended coroutine
  awaiting,     \* the leaf awaitable it is suspended in
  deadline,     \* WaitSensitivityEvent::deadline_, 0 without a timeout
  \* bound and history
  calls,        \* calls that may still be made
  cause         \* history: what put the process on the evaluation stack

loopVars  == <<ret, initialized, evaluated, left, until>>
stackVars == <<evalStack, scheduled, cause>>
eventVars == <<eventStack, notified>>
subVars   == <<staticSubs, dynSubs, staticEvents, dynEvents>>
frameVars == <<awaiting, deadline>>

vars == <<pc, loopVars, time, timeQ, stackVars, updateStack, eventVars, current,
          completed, fresh, subVars, life, done, sens, wake, timeUsed, frameVars,
          calls>>
-----------------------------------------------------------------------------
(***************************************************************************)
(* Type invariant.                                                         *)
(***************************************************************************)
Place     == {"idle", "enter", "eval", "body", "trigger", "release", "step",
              "until", "unwind"}
Awaitable == {"start", "running", "static", "time", "event", "timed", "done"}
Reason    == {"none", "start", "initialize", "static", "event", "time"}
TimeEvent == [at : Nat, proc : Proc, tag : Nat \cup {Sticky}]

LoopTypeOK ==
  /\ pc \in Place
  /\ ret \in {"step", "until"}
  /\ initialized \in BOOLEAN
  /\ evaluated \in BOOLEAN
  /\ left \in Nat
  /\ until \in Until \cup {None}
  /\ calls \in 0..MaxCalls

TimeTypeOK ==
  /\ time \in Nat
  /\ timeQ \subseteq TimeEvent
  /\ timeUsed \in [Proc -> BOOLEAN]
  /\ wake \in [Proc -> Nat]

StackTypeOK ==
  /\ evalStack \in Seq(Proc)
  /\ scheduled \in [Proc -> BOOLEAN]
  /\ cause \in [Proc -> Reason]

EventTypeOK ==
  /\ updateStack \subseteq Signal
  /\ eventStack \in Seq(AllEvent)
  /\ notified \in [AllEvent -> BOOLEAN]
  /\ fresh \subseteq AllEvent

SubTypeOK ==
  /\ staticSubs \in [AllEvent -> SUBSET Proc]
  /\ dynSubs \in [AllEvent -> [Proc -> Nat]]
  /\ staticEvents \in [Proc -> SUBSET AllEvent]
  /\ dynEvents \in [Proc -> [AllEvent -> Nat]]

ProcessTypeOK ==
  /\ current \in Proc \cup {None, Wild}
  /\ completed \in Seq(Proc)
  /\ life \in [Proc -> {"unborn", "live", "gone"}]
  /\ done \in [Proc -> BOOLEAN]
  /\ sens \in [Proc -> {"Active", "Waiting", "Disabled"}]
  /\ awaiting \in [Proc -> Awaitable]
  /\ deadline \in [Proc -> Nat]

TypeOK ==
  /\ LoopTypeOK
  /\ TimeTypeOK
  /\ StackTypeOK
  /\ EventTypeOK
  /\ SubTypeOK
  /\ ProcessTypeOK
-----------------------------------------------------------------------------
(***************************************************************************)
(* The design after elaboration: every registered process is on the        *)
(* evaluation stack unless it opted out.  The constructor of Context does  *)
(* not set current_process_.                                               *)
(***************************************************************************)
Init ==
  /\ pc = "idle"
  /\ ret = "step"
  /\ initialized = FALSE
  /\ evaluated = FALSE
  /\ left = 0
  /\ until = None
  /\ time = 0
  /\ timeQ = {}
  /\ evalStack \in SetToSeqs(Registered \ Dormant)
  /\ updateStack = {}
  /\ eventStack = <<>>
  /\ current \in {None, Wild}
  /\ completed = <<>>
  /\ notified = [e \in AllEvent |-> FALSE]
  /\ fresh = {}
  /\ staticSubs = [e \in AllEvent |-> {p \in Registered : e \in Sensitivity[p]}]
  /\ dynSubs = [e \in AllEvent |-> [p \in Proc |-> 0]]
  /\ life = [p \in Proc |-> IF p \in Registered THEN "live" ELSE "unborn"]
  /\ done = [p \in Proc |-> FALSE]
  /\ scheduled = [p \in Proc |-> p \in Registered \ Dormant]
  /\ sens = [p \in Proc |-> "Active"]
  /\ wake = [p \in Proc |-> 0]
  /\ timeUsed = [p \in Proc |-> FALSE]
  /\ staticEvents = [p \in Proc |-> IF p \in Registered THEN Sensitivity[p] ELSE {}]
  /\ dynEvents = [p \in Proc |-> NoEvents]
  /\ awaiting = [p \in Proc |-> "start"]
  /\ deadline = [p \in Proc |-> 0]
  /\ calls = MaxCalls
  /\ cause = [p \in Proc |-> IF p \in Registered \ Dormant THEN "start" ELSE "none"]
-----------------------------------------------------------------------------
(***************************************************************************)
(* FlaggedStack: the flag of an element says whether it is on the stack.   *)
(***************************************************************************)

\* push_back(): ignored for a process whose flag is set.
Push(p, why) ==
  /\ evalStack' = IF scheduled[p] THEN evalStack ELSE Append(evalStack, p)
  /\ scheduled' = [scheduled EXCEPT ![p] = TRUE]
  /\ cause' = IF scheduled[p] THEN cause ELSE [cause EXCEPT ![p] = why]

\* push_back() of two sets of processes, one set after the other.
PushBoth(first, second, why) ==
  /\ \E f \in SetToSeqs({p \in first : ~scheduled[p]}),
        s \in SetToSeqs({p \in second : ~scheduled[p]}) :
       evalStack' = evalStack \o f \o s
  /\ scheduled' = [p \in Proc |-> scheduled[p] \/ p \in first \cup second]
  /\ cause' = [p \in Proc |-> IF p \in first \cup second /\ ~scheduled[p]
                              THEN why[p] ELSE cause[p]]

\* The sequence without its last entry for p.
Without(s, p) ==
  LET at == CHOOSE i \in DOMAIN s : s[i] = p /\ \A j \in DOMAIN s : j > i => s[j] # p
  IN  [i \in 1..(Len(s) - 1) |-> IF i < at THEN s[i] ELSE s[i + 1]]

\* Mutant of Erase: the flag of the erased process stays set.
EraseKeepsFlag(p) ==
  IF scheduled[p] /\ p \in Range(evalStack)
  THEN /\ evalStack' = Without(evalStack, p)
       /\ cause' = [cause EXCEPT ![p] = "none"]
       /\ UNCHANGED scheduled
  ELSE UNCHANGED stackVars

\* find() and erase(): nothing is searched if the flag is not set.
Erase(p) ==
  IF scheduled[p] /\ p \in Range(evalStack)
  THEN /\ evalStack' = Without(evalStack, p)
       /\ scheduled' = [scheduled EXCEPT ![p] = FALSE]
       /\ cause' = [cause EXCEPT ![p] = "none"]
  ELSE UNCHANGED stackVars
-----------------------------------------------------------------------------
(***************************************************************************)
(* Subscriptions.                                                          *)
(***************************************************************************)

\* erase_first() called n times on a list with m entries for the process.
Monus(m, n) == IF m > n THEN m - n ELSE 0

\* subscribe_dynamic() and dynamic_events_.push_back(), for every entry of a list.
AddDynamic(p, w) ==
  /\ dynSubs' = [e \in AllEvent |-> [dynSubs[e] EXCEPT ![p] = @ + w[e]]]
  /\ dynEvents' = [dynEvents EXCEPT ![p] = [e \in AllEvent |-> dynEvents[p][e] + w[e]]]
  /\ sens' = [sens EXCEPT ![p] = "Waiting"]

\* Mutant of Restore: the static sensitivity stays paused.
RestoreNot(ps) == UNCHANGED sens

\* reset_static_sensitivity() of every process of a set.
Restore(ps) == sens' = [p \in Proc |-> IF p \in ps THEN "Active" ELSE sens[p]]

\* Mutant of CancelDynamic: one entry of each event is removed.
CancelDynamicOnce(ps) ==
  /\ dynSubs' = [e \in AllEvent |-> [p \in Proc |->
       IF p \in ps /\ dynEvents[p][e] > 0 THEN Monus(dynSubs[e][p], 1) ELSE dynSubs[e][p]]]
  /\ dynEvents' = [p \in Proc |-> IF p \in ps THEN NoEvents ELSE dynEvents[p]]

\* cancel_dynamic_events() of every process of a set.
CancelDynamic(ps) ==
  /\ dynSubs' = [e \in AllEvent |-> [p \in Proc |->
       IF p \in ps THEN Monus(dynSubs[e][p], dynEvents[p][e]) ELSE dynSubs[e][p]]]
  /\ dynEvents' = [p \in Proc |-> IF p \in ps THEN NoEvents ELSE dynEvents[p]]

\* cancel_static_events()
CancelStatic(p) ==
  /\ staticSubs' = [e \in AllEvent |->
       IF e \in staticEvents[p] THEN staticSubs[e] \ {p} ELSE staticSubs[e]]
  /\ staticEvents' = [staticEvents EXCEPT ![p] = {}]

\* unschedule()
Unschedule(p) ==
  /\ CancelStatic(p)
  /\ CancelDynamic({p})
  /\ wake' = [wake EXCEPT ![p] = @ + 1]

\* Mutant of WithoutTimeEvents: they stay in the queue.
WithTimeEvents(p) == timeQ

\* The queue without the time events of p. Only searched if p has ever asked for one.
WithoutTimeEvents(p) ==
  IF timeUsed[p] THEN {t \in timeQ : t.proc # p} ELSE timeQ

\* remove_process()
RemoveProcess(p) ==
  /\ Unschedule(p)
  /\ timeQ' = WithoutTimeEvents(p)
  /\ Erase(p)
  /\ current' = IF current = p THEN None ELSE current
  /\ life' = [life EXCEPT ![p] = "gone"]

\* notify()
Raise(e) ==
  IF notified[e]
  THEN UNCHANGED eventVars
  ELSE /\ notified' = [notified EXCEPT ![e] = TRUE]
       /\ eventStack' = Append(eventStack, e)
-----------------------------------------------------------------------------
(***************************************************************************)
(* Calls that a running process and the test bench can both make.          *)
(***************************************************************************)
MayCall(call) == pc \in {"idle", "body"} /\ call \in Calls /\ calls > 0

Spend == calls' = calls - 1

Notify(e) ==
  /\ MayCall("notify")
  /\ ~notified[e]
  /\ Raise(e)
  /\ Spend
  /\ UNCHANGED <<pc, loopVars, time, timeQ, stackVars, updateStack, current, completed,
                 fresh, subVars, life, done, sens, wake, timeUsed, frameVars>>

\* Signal::write() of a value that differs from the committed one.
Write(s) ==
  /\ MayCall("write")
  /\ s \notin updateStack
  /\ updateStack' = updateStack \cup {s}
  /\ Spend
  /\ UNCHANGED <<pc, loopVars, time, timeQ, stackVars, eventVars, current, completed,
                 fresh, subVars, life, done, sens, wake, timeUsed, frameVars>>

\* initialize(true) throws for a coroutine that has completed.
InitializeTrue(p) ==
  /\ MayCall("initialize(true)")
  /\ ~(p \in Coro /\ done[p])
  /\ Push(p, "initialize")
  /\ Spend
  /\ UNCHANGED <<pc, loopVars, time, timeQ, updateStack, eventVars, current, completed,
                 fresh, subVars, life, done, sens, wake, timeUsed, frameVars>>

InitializeFalse(p) ==
  /\ MayCall("initialize(false)")
  /\ Erase(p)
  /\ Spend
  /\ UNCHANGED <<pc, loopVars, time, timeQ, updateStack, eventVars, current, completed,
                 fresh, subVars, life, done, sens, wake, timeUsed, frameVars>>

\* disable() throws for a coroutine that waits for an event or a time.
Disable(p) ==
  /\ MayCall("disable")
  /\ ~(p \in Coro /\ sens[p] = "Waiting")
  /\ CancelDynamic({p})
  /\ timeQ' = WithoutTimeEvents(p)
  /\ sens' = [sens EXCEPT ![p] = "Disabled"]
  /\ Erase(p)
  /\ Spend
  /\ UNCHANGED <<pc, loopVars, time, updateStack, eventVars, current, completed, fresh,
                 staticSubs, staticEvents, life, done, wake, timeUsed, frameVars>>

Enable(p) ==
  /\ MayCall("enable")
  /\ sens[p] = "Disabled"
  /\ sens' = [sens EXCEPT ![p] = "Active"]
  /\ Spend
  /\ UNCHANGED <<pc, loopVars, time, timeQ, stackVars, updateStack, eventVars, current,
                 completed, fresh, subVars, life, done, wake, timeUsed, frameVars>>

\* always(e): schedule_static_event() subscribes once.
Always(p, e) ==
  /\ MayCall("always")
  /\ e \notin staticEvents[p]
  /\ staticEvents' = [staticEvents EXCEPT ![p] = @ \cup {e}]
  /\ staticSubs' = [staticSubs EXCEPT ![e] = @ \cup {p}]
  /\ Spend
  /\ UNCHANGED <<pc, loopVars, time, timeQ, stackVars, updateStack, eventVars, current,
                 completed, fresh, dynSubs, dynEvents, life, done, sens, wake, timeUsed,
                 frameVars>>

\* spawn(task): add_detached_process() and add_process().
Spawn(p) ==
  /\ MayCall("spawn")
  /\ life[p] = "unborn"
  /\ life' = [life EXCEPT ![p] = "live"]
  /\ Push(p, "start")
  /\ Spend
  /\ UNCHANGED <<pc, loopVars, time, timeQ, updateStack, eventVars, current, completed,
                 fresh, subVars, done, sens, wake, timeUsed, frameVars>>

DesignCall ==
  \/ \E e \in Event : Notify(e)
  \/ \E s \in Signal : Write(s)
  \/ \E p \in Registered : \/ InitializeTrue(p)
                           \/ InitializeFalse(p)
                           \/ Disable(p)
                           \/ Enable(p)
                           \/ \E e \in Event \cup Signal : Always(p, e)
  \/ \E p \in Spawned : Spawn(p)
-----------------------------------------------------------------------------
(***************************************************************************)
(* Calls of the running method process.                                    *)
(***************************************************************************)
Runs(p, kind) == pc = "body" /\ current = p /\ p \in kind

\* next_trigger(event) and next_trigger({e1, e2})
NextTriggerEvents(p, w) ==
  /\ Runs(p, Proc \ Coro)
  /\ MayCall("next_trigger(event)")
  /\ AddDynamic(p, w)
  /\ Spend
  /\ UNCHANGED <<pc, loopVars, time, timeQ, stackVars, updateStack, eventVars, current,
                 completed, fresh, staticSubs, staticEvents, life, done, wake, timeUsed,
                 frameVars>>

\* wait_for_next_delta()
AddNextDelta(p) ==
  /\ AddDynamic(p, [NoEvents EXCEPT ![NextDelta] = 1])
  /\ Raise(NextDelta)

\* schedule_time_delta_event(): an extra wakeup, which nothing cancels but disable().
NextTriggerTime(p, delay) ==
  /\ Runs(p, Proc \ Coro)
  /\ MayCall("next_trigger(time)")
  /\ \/ /\ delay = 0
        /\ AddNextDelta(p)
        /\ UNCHANGED <<timeQ, timeUsed>>
     \/ /\ delay > 0
        /\ timeQ' = timeQ \cup {[at |-> time + delay, proc |-> p, tag |-> Sticky]}
        /\ timeUsed' = [timeUsed EXCEPT ![p] = TRUE]
        /\ UNCHANGED <<dynSubs, dynEvents, sens, eventVars>>
  /\ Spend
  /\ UNCHANGED <<pc, loopVars, time, stackVars, updateStack, current, completed, fresh,
                 staticSubs, staticEvents, life, done, wake, frameVars>>

\* The member function returns to resume().
MethodReturn(p) ==
  /\ Runs(p, Proc \ Coro)
  /\ pc' = "eval"
  /\ done' = [done EXCEPT ![p] = TRUE]
  /\ UNCHANGED <<loopVars, time, timeQ, stackVars, updateStack, eventVars, current,
                 completed, fresh, subVars, life, sens, wake, timeUsed, frameVars, calls>>

MethodThrow(p) ==
  /\ Runs(p, Proc \ Coro)
  /\ MayCall("throw")
  /\ pc' = "unwind"
  /\ Spend
  /\ UNCHANGED <<loopVars, time, timeQ, stackVars, updateStack, eventVars, current,
                 completed, fresh, subVars, life, done, sens, wake, timeUsed, frameVars>>
-----------------------------------------------------------------------------
(***************************************************************************)
(* What ends the evaluation of a running coroutine.                        *)
(***************************************************************************)
Suspend(p, leaf) ==
  /\ Runs(p, Coro)
  /\ pc' = "eval"
  /\ awaiting' = [awaiting EXCEPT ![p] = leaf]
  /\ UNCHANGED <<loopVars, time, stackVars, updateStack, current, completed, fresh,
                 staticSubs, staticEvents, life, done, wake>>

\* wait()
WaitStatic(p) ==
  /\ Suspend(p, "static")
  /\ UNCHANGED <<timeQ, timeUsed, eventVars, dynSubs, dynEvents, sens, deadline, calls>>

\* Mutant of AddTimeWait: the tag is the wake count before mark_woken().
AddTimeWaitStale(p, delay) ==
  /\ timeQ' = timeQ \cup {[at |-> time + delay, proc |-> p, tag |-> wake[p] - 1]}
  /\ timeUsed' = [timeUsed EXCEPT ![p] = TRUE]

\* Mutant of AddTimeWait: the time event is not tagged.
AddTimeWaitSticky(p, delay) ==
  /\ timeQ' = timeQ \cup {[at |-> time + delay, proc |-> p, tag |-> Sticky]}
  /\ timeUsed' = [timeUsed EXCEPT ![p] = TRUE]

\* The tagged time event of schedule_time_wait().
AddTimeWait(p, delay) ==
  /\ timeQ' = timeQ \cup {[at |-> time + delay, proc |-> p, tag |-> wake[p]]}
  /\ timeUsed' = [timeUsed EXCEPT ![p] = TRUE]

\* wait(time)
WaitTime(p, delay) ==
  /\ MayCall("wait(time)")
  /\ Suspend(p, "time")
  /\ \/ /\ delay = 0
        /\ AddNextDelta(p)
        /\ UNCHANGED <<timeQ, timeUsed>>
     \/ /\ delay > 0
        /\ AddTimeWait(p, delay)
        /\ sens' = [sens EXCEPT ![p] = "Waiting"]
        /\ UNCHANGED <<dynSubs, dynEvents, eventVars>>
  /\ Spend
  /\ UNCHANGED deadline

\* wait(event) and wait({e1, e2})
WaitEvents(p, w) ==
  /\ MayCall("wait(event)")
  /\ Suspend(p, "event")
  /\ AddDynamic(p, w)
  /\ Spend
  /\ UNCHANGED <<timeQ, timeUsed, eventVars, deadline>>

\* wait(event, timeout) and wait({e1, e2}, timeout), with a timeout
WaitEventsTimeout(p, w, timeout) ==
  /\ MayCall("wait(event, timeout)")
  /\ Suspend(p, "timed")
  /\ AddDynamic(p, w)
  /\ AddTimeWait(p, timeout)
  /\ deadline' = [deadline EXCEPT ![p] = time + timeout]
  /\ Spend
  /\ UNCHANGED eventVars

\* Mutant of Complete: a detached process is not put on the list.
CompleteUnlisted(p) ==
  /\ Unschedule(p)
  /\ done' = [done EXCEPT ![p] = TRUE]
  /\ awaiting' = [awaiting EXCEPT ![p] = "done"]
  /\ UNCHANGED completed

\* complete(): called by resume() when the root task has returned or thrown.
Complete(p) ==
  /\ Unschedule(p)
  /\ completed' = IF p \in Spawned THEN Append(completed, p) ELSE completed
  /\ done' = [done EXCEPT ![p] = TRUE]
  /\ awaiting' = [awaiting EXCEPT ![p] = "done"]

CoroReturn(p) ==
  /\ Runs(p, Coro)
  /\ "return" \in Calls
  /\ pc' = "eval"
  /\ Complete(p)
  /\ UNCHANGED <<loopVars, time, timeQ, stackVars, updateStack, eventVars, current, fresh,
                 life, sens, timeUsed, deadline, calls>>

CoroThrow(p) ==
  /\ Runs(p, Coro)
  /\ MayCall("throw")
  /\ pc' = "unwind"
  /\ Complete(p)
  /\ Spend
  /\ UNCHANGED <<loopVars, time, timeQ, stackVars, updateStack, eventVars, current, fresh,
                 life, sens, timeUsed, deadline>>

ProcessStep ==
  \E p \in Proc :
    \/ \E w \in WaitLists : NextTriggerEvents(p, w) \/ WaitEvents(p, w)
    \/ \E d \in Delays : NextTriggerTime(p, d) \/ WaitTime(p, d)
    \/ \E w \in WaitLists, d \in Delays \ {0} : WaitEventsTimeout(p, w, d)
    \/ WaitStatic(p)
    \/ MethodReturn(p)
    \/ MethodThrow(p)
    \/ CoroReturn(p)
    \/ CoroThrow(p)
-----------------------------------------------------------------------------
(***************************************************************************)
(* Context::eval().                                                        *)
(***************************************************************************)
\* Mutant of NothingScheduled: a notified event is overlooked.
NoProcessOrSignal == evalStack = <<>> /\ updateStack = {}

\* The code also tests post_update_stack_, which only holds what Signals models.
NothingScheduled == evalStack = <<>> /\ updateStack = {} /\ eventStack = <<>>

\* The test at the start of eval().
Enter ==
  /\ pc = "enter"
  /\ \/ /\ NothingScheduled
        /\ pc' = "release"
        /\ UNCHANGED evaluated
     \/ /\ ~NothingScheduled
        /\ pc' = "eval"
        /\ evaluated' = (evalStack # <<>>)
  /\ UNCHANGED <<ret, initialized, left, until, time, timeQ, stackVars, updateStack,
                 eventVars, current, completed, fresh, subVars, life, done, sens, wake,
                 timeUsed, frameVars, calls>>

\* Pop a process and resume it.
Resume(p) ==
  /\ pc = "eval"
  /\ evalStack # <<>>
  /\ p = evalStack[Len(evalStack)]
  /\ pc' = "body"
  /\ evalStack' = SubSeq(evalStack, 1, Len(evalStack) - 1)
  /\ scheduled' = [scheduled EXCEPT ![p] = FALSE]
  /\ cause' = [cause EXCEPT ![p] = "none"]
  /\ current' = p
  /\ wake' = [wake EXCEPT ![p] = @ + 1]
  /\ awaiting' = [awaiting EXCEPT ![p] = IF p \in Coro THEN "running" ELSE @]
  /\ deadline' = [deadline EXCEPT ![p] = 0]
  /\ UNCHANGED <<loopVars, time, timeQ, updateStack, eventVars, completed, fresh, subVars,
                 life, done, sens, timeUsed, calls>>

\* update_signals(): the signals whose value changed queue their change event if
\* a process is subscribed to it.
Commit(changed) ==
  /\ updateStack' = {}
  /\ \E queued \in SetToSeqs({s \in changed : \/ staticSubs[s] # {}
                                              \/ \E p \in Proc : dynSubs[s][p] > 0}) :
       eventStack' = eventStack \o queued

\* The end of the evaluation phase, and the update phase.
EndEvaluation ==
  /\ pc = "eval"
  /\ evalStack = <<>>
  /\ pc' = "trigger"
  /\ fresh' = IF evaluated THEN {} ELSE fresh
  /\ \E changed \in SUBSET updateStack : Commit(changed)
  /\ UNCHANGED <<loopVars, time, timeQ, stackVars, notified, current, completed, subVars,
                 life, done, sens, wake, timeUsed, frameVars, calls>>

\* Mutant of StaticWoken: only a wait pauses the sensitivity.
StaticWokenUnlessWaiting(e) == {p \in staticSubs[e] : sens[p] # "Waiting"}

\* The subscribers that the event wakes through their sensitivity list.
StaticWoken(e) == {p \in staticSubs[e] : sens[p] = "Active"}

Occur(e) ==
  /\ notified' = [notified EXCEPT ![e] = FALSE]
  /\ fresh' = fresh \cup {e}

\* SensitivityEvent::trigger()
Trigger(e) ==
  LET wakes   == StaticWoken(e)
      waiters == {p \in Proc : dynSubs[e][p] > 0}
  IN
  /\ pc = "trigger"
  /\ eventStack # <<>>
  /\ e = Head(eventStack)
  /\ eventStack' = Tail(eventStack)
  /\ Occur(e)
  /\ PushBoth(wakes, waiters \ wakes,
              [p \in Proc |-> IF p \in wakes THEN "static" ELSE "event"])
  /\ dynSubs' = [f \in AllEvent |-> [p \in Proc |->
       IF p \notin waiters THEN dynSubs[f][p]
       ELSE IF f = e THEN 0 ELSE Monus(dynSubs[f][p], dynEvents[p][f])]]
  /\ dynEvents' = [p \in Proc |-> IF p \in waiters THEN NoEvents ELSE dynEvents[p]]
  /\ Restore(waiters)
  /\ UNCHANGED <<pc, loopVars, time, timeQ, updateStack, current, completed, staticSubs,
                 staticEvents, life, done, wake, timeUsed, frameVars, calls>>

\* The test at the end of the loop of eval().
EndRound ==
  /\ pc = "trigger"
  /\ eventStack = <<>>
  /\ \/ /\ NothingScheduled
        /\ pc' = "release"
        /\ UNCHANGED evaluated
     \/ /\ ~NothingScheduled
        /\ pc' = "eval"
        /\ evaluated' = (evalStack # <<>>)
  /\ UNCHANGED <<ret, initialized, left, until, time, timeQ, stackVars, updateStack,
                 eventVars, current, completed, fresh, subVars, life, done, sens, wake,
                 timeUsed, frameVars, calls>>

\* One iteration of release_completed_processes().
Release ==
  /\ pc = "release"
  /\ completed # <<>>
  /\ RemoveProcess(Head(completed))
  /\ completed' = Tail(completed)
  /\ UNCHANGED <<pc, loopVars, time, updateStack, eventVars, fresh, done, sens, timeUsed,
                 frameVars, calls>>

EvalReturn ==
  /\ pc = "release"
  /\ completed = <<>>
  /\ pc' = ret
  /\ UNCHANGED <<loopVars, time, timeQ, stackVars, updateStack, eventVars, current,
                 completed, fresh, subVars, life, done, sens, wake, timeUsed, frameVars,
                 calls>>
-----------------------------------------------------------------------------
(***************************************************************************)
(* Context::run().                                                         *)
(***************************************************************************)

\* do_initialize(): the first run commits the initial signal values.
DoInitialize ==
  /\ initialized' = TRUE
  /\ IF initialized
     THEN UNCHANGED <<updateStack, eventStack>>
     ELSE \E changed \in SUBSET updateStack : Commit(changed)

Run(inc) ==
  /\ pc = "idle"
  /\ MayCall("run")
  /\ DoInitialize
  /\ pc' = "enter"
  /\ ret' = "step"
  /\ left' = inc
  /\ Spend
  /\ UNCHANGED <<evaluated, until, time, timeQ, stackVars, notified, current, completed,
                 fresh, subVars, life, done, sens, wake, timeUsed, frameVars>>

\* The time of time_event_stack_.top()
FirstTime == CHOOSE n \in {t.at : t \in timeQ} : \A t \in timeQ : n <= t.at

\* Mutant of NextStep: the time events do not limit it.
NextStepUnbroken == left

\* Mutant of NextStep: the step stops short of the time event.
NextStepShort ==
  IF timeQ = {} \/ FirstTime - time > left THEN left ELSE FirstTime - time - 1

\* The length of the next time step.
NextStep ==
  IF timeQ = {} \/ FirstTime - time > left THEN left ELSE FirstTime - time

\* One iteration of the loop of run(), with schedule_time_event() for each due event.
Advance ==
  LET now   == time + NextStep
      due   == {t \in timeQ : t.at = now}
      extra == {t.proc : t \in {u \in due : u.tag = Sticky}}
      woken == {t.proc : t \in {u \in due : u.tag = wake[u.proc]}}
  IN
  /\ pc = "step"
  /\ left > 0
  /\ time' = now
  /\ left' = left - NextStep
  /\ timeQ' = timeQ \ due
  /\ CancelDynamic(woken)
  /\ Restore(woken)
  /\ PushBoth(extra \cup woken, {}, [p \in Proc |-> "time"])
  /\ pc' = IF left' > 0 THEN "enter" ELSE "step"
  /\ UNCHANGED <<ret, initialized, evaluated, until, updateStack, eventVars, current,
                 completed, fresh, staticSubs, staticEvents, life, done, wake, timeUsed,
                 frameVars, calls>>

\* The process of a run_until() is removed however run_until() is left.
LeaveUntil ==
  /\ pc' = "idle"
  /\ left' = 0
  /\ until' = None
  /\ RemoveProcess(until.proc)
  /\ UNCHANGED <<ret, initialized, evaluated, time, updateStack, eventVars, completed,
                 fresh, done, sens, timeUsed, frameVars, calls>>

RunReturn ==
  /\ pc = "step"
  /\ left = 0
  /\ \/ /\ until = None
        /\ pc' = "idle"
        /\ UNCHANGED <<loopVars, time, timeQ, stackVars, updateStack, eventVars, current,
                       completed, fresh, subVars, life, done, sens, wake, timeUsed,
                       frameVars, calls>>
     \/ /\ until # None
        /\ until.expired                \* TimeoutError
        /\ LeaveUntil
     \/ /\ until # None
        /\ ~until.expired
        /\ pc' = "enter"
        /\ ret' = "until"
        /\ UNCHANGED <<initialized, evaluated, left, until, time, timeQ, stackVars,
                       updateStack, eventVars, current, completed, fresh, subVars, life,
                       done, sens, wake, timeUsed, frameVars, calls>>
-----------------------------------------------------------------------------
(***************************************************************************)
(* Context::run_until(task, timeout) and run_until_done().                 *)
(***************************************************************************)
RunUntil(p, timeout) ==
  /\ pc = "idle"
  /\ MayCall("run_until")
  /\ life[p] = "unborn"
  /\ life' = [life EXCEPT ![p] = "live"]
  /\ Push(p, "start")
  /\ DoInitialize
  /\ until' = [proc |-> p, expired |-> FALSE,
               deadline |-> IF timeout = 0 THEN 0 ELSE time + timeout]
  /\ pc' = "enter"
  /\ ret' = "until"
  /\ Spend
  /\ UNCHANGED <<evaluated, left, time, timeQ, notified, current, completed, fresh,
                 subVars, done, sens, wake, timeUsed, frameVars>>

\* run(next_time - time_), or run(deadline - time_) when the deadline comes first.
UntilRun(expired) ==
  /\ pc' = "enter"
  /\ ret' = "step"
  /\ until' = [until EXCEPT !.expired = expired]
  /\ UNCHANGED <<initialized, evaluated, time, timeQ, stackVars, updateStack, eventVars,
                 current, completed, fresh, subVars, life, done, sens, wake, timeUsed,
                 frameVars, calls>>

\* Mutant of PastDeadline: a time event at the deadline is too late.
AtDeadline == until.deadline # 0 /\ FirstTime >= until.deadline

PastDeadline == until.deadline # 0 /\ FirstTime > until.deadline

UntilTest ==
  /\ pc = "until"
  /\ \/ /\ done[until.proc] \/ timeQ = {}     \* completed, or stalled: runtime_error
        /\ LeaveUntil
     \/ /\ ~done[until.proc]
        /\ timeQ # {}
        /\ left' = (IF PastDeadline THEN until.deadline ELSE FirstTime) - time
        /\ UntilRun(PastDeadline)

\* An exception leaves run(), and run_until() if one is in progress.
Unwind ==
  /\ pc = "unwind"
  /\ \/ /\ until # None
        /\ LeaveUntil
     \/ /\ until = None
        /\ pc' = "idle"
        /\ left' = 0
        /\ UNCHANGED <<ret, initialized, evaluated, until, time, timeQ, stackVars,
                       updateStack, eventVars, current, completed, fresh, subVars, life,
                       done, sens, wake, timeUsed, frameVars, calls>>

\* Mutant of TimedOut: the deadline itself is not late.
TimedOutLater(p) == deadline[p] # 0 /\ time > deadline[p]

\* WaitSensitivityEvent::await_resume(): the verdict of a wait with a timeout.
TimedOut(p) == deadline[p] # 0 /\ time >= deadline[p]

KernelStep ==
  \/ Enter
  \/ \E p \in Proc : Resume(p)
  \/ EndEvaluation
  \/ \E e \in AllEvent : Trigger(e)
  \/ EndRound
  \/ Release
  \/ EvalReturn
  \/ Advance
  \/ RunReturn
  \/ UntilTest
  \/ Unwind

BenchCall ==
  \/ \E inc \in RunTimes : Run(inc)
  \/ \E p \in Once, timeout \in Delays \cup {0} : RunUntil(p, timeout)

\* The test bench may stop between two runs, and has to when the bound is reached.
Rest == pc = "idle" /\ UNCHANGED vars

Next == DesignCall \/ ProcessStep \/ KernelStep \/ BenchCall \/ Rest

\* A run goes on by itself: the kernel takes its next step, and a process that is
\* running reaches the end of its evaluation.
Progress == KernelStep \/ ProcessStep

Spec     == Init /\ [][Next]_vars
FairSpec == Spec /\ WF_vars(Progress)
=============================================================================
