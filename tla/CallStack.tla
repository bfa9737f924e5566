------------------------------- MODULE CallStack -------------------------------
(* What co_await of a task promises (coro.h:10-13): an awaited task is a call. Every process has a  *)
(* stack of them, which it keeps while it waits; a call returns to the one that made it, with its   *)
(* own result or with its exception, and a process never runs a call of another one.                *)
EXTENDS Sequences, SequencesExt

CONSTANTS Processes, Frames, None

VARIABLES
    calls,              \* the frames of each process, the innermost last
    active,             \* the process that runs
    inFlight,           \* an exception is thrown in the active process
    received            \* the frame whose result the last step took

Init ==
    /\ calls = [p \in Processes |-> <<>>]
    /\ active = None
    /\ inFlight = FALSE
    /\ received = None

Busy == UNION {Range(calls[p]) : p \in Processes}

(* Outside of the processes: one is added, or removed with all of its calls, or resumed. *)
Start(p, f) ==
    /\ active = None
    /\ calls[p] = <<>> /\ f \notin Busy
    /\ calls' = [calls EXCEPT ![p] = <<f>>]
    /\ UNCHANGED <<active, inFlight>>
    /\ received' = None

Discard(p) ==
    /\ active = None
    /\ calls' = [calls EXCEPT ![p] = <<>>]
    /\ UNCHANGED <<active, inFlight>>
    /\ received' = None

Resume(p) ==
    /\ active = None
    /\ active' = p
    /\ UNCHANGED <<calls, inFlight>>
    /\ received' = None

(* In the active process. *)
Call(f) ==
    /\ active # None /\ ~inFlight
    /\ f \notin Busy
    /\ calls' = [calls EXCEPT ![active] = Append(@, f)]
    /\ UNCHANGED <<active, inFlight>>
    /\ received' = None

Wait ==
    /\ active # None /\ ~inFlight
    /\ active' = None
    /\ UNCHANGED <<calls, inFlight>>
    /\ received' = None

Raise ==
    /\ active # None /\ ~inFlight
    /\ inFlight' = TRUE
    /\ UNCHANGED <<calls, active>>
    /\ received' = None

Handle ==
    /\ active # None /\ inFlight
    /\ inFlight' = FALSE
    /\ UNCHANGED <<calls, active>>
    /\ received' = None

(* The innermost call ends: its caller goes on, with its result or with its exception. *)
Return ==
    /\ active # None /\ ~inFlight
    /\ Len(calls[active]) > 1
    /\ calls' = [calls EXCEPT ![active] = Front(@)]
    /\ received' = Last(calls[active])
    /\ UNCHANGED <<active, inFlight>>

Unwind ==
    /\ active # None /\ inFlight
    /\ Len(calls[active]) > 1
    /\ calls' = [calls EXCEPT ![active] = Front(@)]
    /\ UNCHANGED <<active, inFlight>>
    /\ received' = None

(* The outermost call ends. A Python coroutine goes on with its result or with its exception, a     *)
(* process without one is over.                                                                     *)
ReturnToPython ==
    /\ active # None
    /\ Len(calls[active]) = 1
    /\ calls' = [calls EXCEPT ![active] = <<>>]
    /\ received' = IF inFlight THEN None ELSE calls[active][1]
    /\ UNCHANGED <<active, inFlight>>

Finish ==
    /\ active # None
    /\ Len(calls[active]) <= 1
    /\ calls' = [calls EXCEPT ![active] = <<>>]
    /\ active' = None
    /\ inFlight' = FALSE
    /\ received' = None

(* The active process does something else. *)
Compute ==
    /\ UNCHANGED <<calls, active, inFlight>>
    /\ received' = None

(* The result of a call that has ended is taken again: the exception is not thrown twice. *)
TakeAgain(f) ==
    /\ active # None /\ ~inFlight
    /\ f \notin Busy
    /\ received' = f
    /\ UNCHANGED <<calls, active, inFlight>>

Next ==
    \/ \E p \in Processes, f \in Frames : Start(p, f)
    \/ \E p \in Processes : Discard(p) \/ Resume(p)
    \/ \E f \in Frames : Call(f) \/ TakeAgain(f)
    \/ Compute \/ Wait \/ Raise \/ Handle \/ Return \/ Unwind \/ ReturnToPython \/ Finish

Spec == Init /\ [][Next]_<<calls, active, inFlight, received>>
=============================================================================
