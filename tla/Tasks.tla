-------------------------------- MODULE Tasks --------------------------------
(* Coroutines (coro.h, coro.cpp): tasks that await tasks, the processes that run them (process.cpp, *)
(* bindings/task.h, bindings/py_task.h), and the pools that their frames come from.                 *)
(*                                                                                                  *)
(* A frame is known by the block of memory that it is in, so a pointer to a frame that is destroyed *)
(* points at whatever the pool has put there since. When a process is resumed is left to the kernel *)
(* (Kernel.tla); here any process that is not complete may be resumed.                              *)
EXTENDS Integers, Sequences, SequencesExt, FiniteSetsExt

CONSTANTS
    CoroProcesses,      \* processes with a C++ coroutine
    PyTasks,            \* processes with a Python coroutine, which may await C++ tasks
    Blocks,             \* addresses
    Threads,            \* a context may be handed from one thread to another
    None,
    Sizes,              \* the sizes of frames
    Granularity,        \* sizes are rounded up to a multiple of this
    SizeClasses,        \* frames of this many units, and larger ones, are not pooled
    MaxFree             \* free frames of one size that a pool keeps

Processes == CoroProcesses \cup PyTasks

ASSUME TasksAssumption ==
    /\ CoroProcesses \cap PyTasks = {}
    /\ None \notin Processes \cup Blocks \cup Threads
    /\ Processes \cap Blocks = {}
    /\ IsFiniteSet(Blocks)
    /\ Sizes \subseteq Nat \ {0} /\ Granularity \in Nat \ {0} /\ SizeClasses \in Nat /\ MaxFree \in Nat

VARIABLES
    frame,              \* the frame in each block
    bytes,              \* the bytes of each block; 0 for one that the allocator has
    pool,               \* free_: of each thread and size class, the blocks that are kept
    count,              \* count_
    thread,             \* the thread that the context runs on
    control,            \* the frame, or the Python coroutine, whose code runs; None outside of resume()
    current,            \* the process that is resumed
    process,            \* "none", "alive" or "ended"
    root,               \* of a process, its root frame; of a Python process, the frame of the task it awaits
    resumePoint,        \* resume_point_
    raised,             \* an exception is thrown where control is
    received            \* the frame whose result the last step took

vars == <<frame, bytes, pool, count, thread, control, current, process, root, resumePoint, raised, received>>

-----------------------------------------------------------------------------
(* The pool. *)

ClassBelow(size) == size \div Granularity
Class(size) == (size + Granularity - 1) \div Granularity
IsPooled(size) == Class(size) < SizeClasses

Classes == 0..SizeClasses - 1

NoFrame == [state |-> "none", size |-> 0, owner |-> None, continuation |-> None, awaits |-> None,
            outcome |-> "none"]

(* TaskPromiseBase::operator new: the block that a new frame gets. The allocator has any other.     *)
FromPool(size) == IsPooled(size) /\ pool[thread][Class(size)] # <<>>
NextBlock(size) ==
    IF FromPool(size) THEN {Head(pool[thread][Class(size)])} ELSE {b \in Blocks : bytes[b] = 0}

(* A process owns its root, or the task that its Python coroutine awaits; a frame the tasks that are *)
(* its local variables. What is below an owner goes with it: the least set that has whatever the    *)
(* owners, or members of the set, own.                                                              *)
Below(owners) ==
    {b \in Blocks : \A S \in SUBSET Blocks :
        (\A c \in Blocks : frame[c].owner \in owners \cup S => c \in S) => b \in S}

Without(doomed) == [b \in Blocks |-> IF b \in doomed THEN NoFrame ELSE frame[b]]

(* TaskPromiseBase::operator delete, for the frames that an owner lets go, in any order: the pool   *)
(* keeps those that come first, until its list is full, the last one in front.                      *)
OfClass(blocks, c) == {b \in blocks : IsPooled(frame[b].size) /\ Class(frame[b].size) = c}
Room(c) == MaxFree - count[thread][c]
Destroy(doomed) ==
    \E kept \in [Classes -> SetToAllKPermutations(doomed)] :
        /\ \A c \in Classes :
              /\ Range(kept[c]) \subseteq OfClass(doomed, c)
              /\ Len(kept[c]) = Min({Cardinality(OfClass(doomed, c)), Room(c)})
        /\ pool' = [pool EXCEPT ![thread] = [c \in Classes |-> kept[c] \o pool[thread][c]]]
        /\ count' = [count EXCEPT ![thread] = [c \in Classes |-> count[thread][c] + Len(kept[c])]]
        /\ bytes' = [b \in Blocks |->
                        IF b \in doomed /\ \A c \in Classes : b \notin Range(kept[c]) THEN 0 ELSE bytes[b]]

-----------------------------------------------------------------------------
Init ==
    /\ frame = [b \in Blocks |-> NoFrame]
    /\ bytes = [b \in Blocks |-> 0]
    /\ pool = [t \in Threads |-> [c \in Classes |-> <<>>]]
    /\ count = [t \in Threads |-> [c \in Classes |-> 0]]
    /\ thread \in Threads
    /\ control = None
    /\ current = None
    /\ process = [p \in Processes |-> "none"]
    /\ root = [p \in Processes |-> None]
    /\ resumePoint = [p \in Processes |-> None]
    /\ raised = FALSE
    /\ received = None

(* Calling a coroutine function: its frame is allocated. It starts suspended. *)
New(b, size, owner, state) ==
    LET class == Class(size)
    IN /\ b \in NextBlock(size)
       /\ frame' = [frame EXCEPT ![b] = [NoFrame EXCEPT !.state = state, !.size = size, !.owner = owner]]
       /\ IF FromPool(size)
          THEN /\ pool' = [pool EXCEPT ![thread][class] = Tail(@)]
               /\ count' = [count EXCEPT ![thread][class] = @ - 1]
               /\ UNCHANGED bytes
          ELSE /\ bytes' = [bytes EXCEPT ![b] = IF IsPooled(size) THEN class * Granularity ELSE size]
               /\ UNCHANGED <<pool, count>>

(* register_coro_task, spawn: the process takes over the frame. *)
AddCoroProcess(p, b, size) ==
    /\ control = None
    /\ p \in CoroProcesses /\ process[p] = "none"
    /\ New(b, size, p, "start")
    /\ process' = [process EXCEPT ![p] = "alive"]
    /\ root' = [root EXCEPT ![p] = b]
    /\ resumePoint' = [resumePoint EXCEPT ![p] = b]
    /\ UNCHANGED <<thread, control, current, raised>>
    /\ received' = None

AddPyTask(p) ==
    /\ control = None
    /\ p \in PyTasks /\ process[p] = "none"
    /\ process' = [process EXCEPT ![p] = "alive"]
    /\ UNCHANGED <<frame, bytes, pool, count, thread, control, current, root, resumePoint, raised>>
    /\ received' = None

(* The context goes on on another thread, between two runs. *)
HandOver(t) ==
    /\ control = None
    /\ t # thread
    /\ thread' = t
    /\ UNCHANGED <<frame, bytes, pool, count, control, current, process, root, resumePoint, raised>>
    /\ received' = None

(* ~FramePool, when a thread ends. *)
EndThread(t) ==
    /\ t # thread
    /\ bytes' = [b \in Blocks |-> IF \E c \in Classes : Contains(pool[t][c], b) THEN 0 ELSE bytes[b]]
    /\ pool' = [pool EXCEPT ![t] = [c \in Classes |-> <<>>]]
    /\ count' = [count EXCEPT ![t] = [c \in Classes |-> 0]]
    /\ UNCHANGED <<frame, thread, control, current, process, root, resumePoint, raised>>
    /\ received' = None

-----------------------------------------------------------------------------
(* A process is resumed. *)

ResumeFrame(frames, b) == [frames EXCEPT ![b].state = "running"]

ResumeCoro(p) ==
    /\ control = None
    /\ p \in CoroProcesses /\ process[p] = "alive"
    /\ current' = p
    /\ control' = resumePoint[p]
    /\ frame' = ResumeFrame(frame, resumePoint[p])
    /\ UNCHANGED <<bytes, pool, count, thread, process, root, resumePoint, raised>>
    /\ received' = None

(* PyTask::resume: the generator of an await that has not ended steps its task. *)
HasAwaited(p) == root[p] # None
IsAwaiting(p) == root[p] # None /\ frame[root[p]].state # "done"

ResumePy(p) ==
    /\ control = None
    /\ p \in PyTasks /\ process[p] = "alive"
    /\ current' = p
    /\ control' = IF IsAwaiting(p) THEN resumePoint[p] ELSE p
    /\ frame' = IF IsAwaiting(p) THEN ResumeFrame(frame, resumePoint[p]) ELSE frame
    /\ UNCHANGED <<bytes, pool, count, thread, process, root, resumePoint, raised>>
    /\ received' = None

-----------------------------------------------------------------------------
(* The code of a coroutine. *)

Runs(f) == control = f /\ f \in Blocks

Create(f, b, size) ==
    /\ Runs(f) /\ ~raised
    /\ New(b, size, f, "start")
    /\ UNCHANGED <<thread, control, current, process, root, resumePoint, raised>>
    /\ received' = None

(* co_await of a task: TaskAwaiter. *)
Await(f, b) ==
    /\ Runs(f) /\ ~raised
    /\ frame[b].owner = f /\ frame[b].state = "start"
    /\ frame' = [frame EXCEPT ![f].state = "suspended", ![f].awaits = b,
                              ![b].continuation = f, ![b].state = "running"]
    /\ control' = b
    /\ UNCHANGED <<bytes, pool, count, thread, current, process, root, resumePoint, raised>>
    /\ received' = None

(* WaitBase::await_suspend: where the process goes on. *)
RootOf(f) == root[current]
ResumePoint(f) == f

(* co_await of a leaf. The scheduler has control, in a Python process after *)
(* the generator has yielded.                                                                       *)
Wait(f) ==
    /\ Runs(f) /\ ~raised
    /\ frame' = [frame EXCEPT ![f].state = "suspended"]
    /\ resumePoint' = [resumePoint EXCEPT ![current] = ResumePoint(f)]
    /\ control' = None
    /\ current' = None
    /\ UNCHANGED <<bytes, pool, count, thread, process, root, raised>>
    /\ received' = None

(* A local variable goes out of scope. *)
Leave(f, b) ==
    /\ Runs(f)
    /\ frame[b].owner = f
    /\ LET doomed == {b} \cup Below({b}) IN Destroy(doomed) /\ frame' = Without(doomed)
    /\ UNCHANGED <<thread, control, current, process, root, resumePoint, raised>>
    /\ received' = None

Catch(f) ==
    /\ Runs(f) /\ raised
    /\ raised' = FALSE
    /\ UNCHANGED <<frame, bytes, pool, count, thread, control, current, process, root, resumePoint>>
    /\ received' = None

Throw(f) ==
    /\ Runs(f) /\ ~raised
    /\ raised' = TRUE
    /\ UNCHANGED <<frame, bytes, pool, count, thread, control, current, process, root, resumePoint>>
    /\ received' = None

(* unhandled_exception(): kept for the coroutine that awaits this one, if there is one. *)
Unhandled(promise) == [promise EXCEPT !.outcome = IF promise.continuation # None THEN "failed" ELSE @]

(* return_value(). *)
Returned(promise) == [promise EXCEPT !.outcome = "value"]

(* result(): throws the exception, which is then gone, or moves the value. *)
Throws(promise) == promise.outcome = "failed"
Taken(promise) == [promise EXCEPT !.outcome = IF Throws(promise) THEN "none" ELSE @]

(* TaskFinalAwaiter: who goes on after the frame. *)
Successor(f) == frame[f].continuation

(* co_await of a task that is done: its result(), once more. *)
AwaitAgain(f, b) ==
    /\ Runs(f) /\ ~raised
    /\ frame[b].owner = f /\ frame[b].state = "done"
    /\ frame' = [frame EXCEPT ![b] = Taken(@)]
    /\ raised' = Throws(frame[b])
    /\ received' = IF Throws(frame[b]) THEN None ELSE b
    /\ UNCHANGED <<bytes, pool, count, thread, control, current, process, root, resumePoint>>

(* The end of a coroutine: its variables are destroyed, its promise has the outcome, and it is       *)
(* suspended for good. The coroutine that awaits it goes on with result(), of the task it awaits.   *)
ToAwaiter(f, promise) ==
    LET g == Successor(f)
        ended == [Without(Below({f})) EXCEPT ![f] = [promise EXCEPT !.state = "done"]]
        task == ended[g].awaits
    IN /\ g # None
       /\ Destroy(Below({f}))
       /\ frame' = [ended EXCEPT ![g].state = "running", ![g].awaits = None, ![task] = Taken(@)]
       /\ raised' = Throws(ended[task])
       /\ received' = IF Throws(ended[task]) THEN None ELSE task
       /\ control' = g
       /\ UNCHANGED <<thread, current, process, root, resumePoint>>

(* Nobody awaits it: back to CoroProcess::resume(), which completes the process. An exception goes  *)
(* on to whoever runs the context.                                                                  *)
ToProcess(f, promise) ==
    /\ Successor(f) = None
    /\ current \in CoroProcesses
    /\ Destroy(Below({f}))
    /\ frame' = [Without(Below({f})) EXCEPT ![f] = [promise EXCEPT !.state = "done"]]
    /\ process' = [process EXCEPT ![current] = "ended"]
    /\ control' = None
    /\ current' = None
    /\ raised' = FALSE
    /\ UNCHANGED <<thread, root, resumePoint>>
    /\ received' = None

(* Back to the generator, in start() or step(), which ends with result() or with the exception.     *)
ToPython(f, promise) ==
    /\ Successor(f) = None
    /\ current \in PyTasks
    /\ Destroy(Below({f}))
    /\ frame' = [Without(Below({f})) EXCEPT ![f] = [promise EXCEPT !.state = "done"]]
    /\ control' = current
    /\ received' = IF raised THEN None ELSE root[current]
    /\ UNCHANGED <<thread, current, process, root, resumePoint, raised>>

End(f, promise) == ToAwaiter(f, promise) \/ ToProcess(f, promise) \/ ToPython(f, promise)

Return(f) == Runs(f) /\ ~raised /\ End(f, Returned(frame[f]))
Unwind(f) == Runs(f) /\ raised /\ End(f, Unhandled(frame[f]))

-----------------------------------------------------------------------------
(* The code of a Python coroutine. *)

RunsPy(p) == control = p /\ p \in PyTasks

(* The call of a bound coroutine method, and the await of what it returns: start(). *)
PyAwait(p, b, size) ==
    /\ RunsPy(p) /\ ~raised
    /\ root[p] = None
    /\ New(b, size, p, "running")
    /\ root' = [root EXCEPT ![p] = b]
    /\ control' = b
    /\ UNCHANGED <<thread, current, process, resumePoint, raised>>
    /\ received' = None

(* Python lets go of the awaitable, whose task has ended. *)
PyDrop(p) ==
    /\ RunsPy(p)
    /\ root[p] # None
    /\ LET doomed == {root[p]} \cup Below({root[p]}) IN Destroy(doomed) /\ frame' = Without(doomed)
    /\ root' = [root EXCEPT ![p] = None]
    /\ UNCHANGED <<thread, control, current, process, resumePoint, raised>>
    /\ received' = None

(* The await of a leaf in Python does not go through await_suspend(). *)
PyWait(p) ==
    /\ RunsPy(p) /\ ~raised
    /\ control' = None
    /\ current' = None
    /\ UNCHANGED <<frame, bytes, pool, count, thread, process, root, resumePoint, raised>>
    /\ received' = None

PyCatch(p) ==
    /\ RunsPy(p) /\ raised
    /\ raised' = FALSE
    /\ UNCHANGED <<frame, bytes, pool, count, thread, control, current, process, root, resumePoint>>
    /\ received' = None

(* PYGEN_RETURN, PYGEN_ERROR. *)
PyEnd(p) ==
    /\ RunsPy(p)
    /\ process' = [process EXCEPT ![p] = "ended"]
    /\ control' = None
    /\ current' = None
    /\ raised' = FALSE
    /\ UNCHANGED <<frame, bytes, pool, count, thread, root, resumePoint>>
    /\ received' = None

-----------------------------------------------------------------------------
(* remove_process() of a process that has ended, or whose run_until() has a timeout, and the end of *)
(* the context: the destructor of the process destroys the root, wherever it and its tasks wait.    *)
RemoveProcess(p) ==
    /\ control = None
    /\ process[p] # "none"
    /\ Destroy(Below({p}))
    /\ frame' = Without(Below({p}))
    /\ process' = [process EXCEPT ![p] = "none"]
    /\ root' = [root EXCEPT ![p] = None]
    /\ resumePoint' = [resumePoint EXCEPT ![p] = None]
    /\ UNCHANGED <<thread, control, current, raised>>
    /\ received' = None

Next ==
    \/ \E t \in Threads : HandOver(t) \/ EndThread(t)
    \/ \E p \in CoroProcesses :
          \/ \E b \in Blocks, size \in Sizes : AddCoroProcess(p, b, size)
          \/ ResumeCoro(p)
    \/ \E p \in PyTasks :
          \/ AddPyTask(p)
          \/ ResumePy(p)
          \/ \E b \in Blocks, size \in Sizes : PyAwait(p, b, size)
          \/ PyDrop(p) \/ PyWait(p) \/ PyCatch(p) \/ PyEnd(p)
    \/ \E p \in Processes : RemoveProcess(p)
    \/ \E f, b \in Blocks :
          \/ Await(f, b) \/ AwaitAgain(f, b) \/ Leave(f, b)
          \/ \E size \in Sizes : Create(f, b, size)
    \/ \E f \in Blocks : Wait(f) \/ Catch(f) \/ Throw(f) \/ Return(f) \/ Unwind(f)

Spec == Init /\ [][Next]_vars
-----------------------------------------------------------------------------
(* The calls of a process: from the frame that runs, or the one that will be resumed, to the one    *)
(* that nobody awaits.                                                                              *)
Innermost(p) ==
    CASE current = p -> IF control \in Blocks THEN control ELSE None
      [] current # p /\ process[p] = "alive" /\ (p \in CoroProcesses \/ IsAwaiting(p)) -> resumePoint[p]
      [] OTHER -> None

Ancestors(b) ==
    {c \in Blocks : \A S \in SUBSET Blocks :
        (b \in S /\ \A d \in S : frame[d].continuation # None => frame[d].continuation \in S) => c \in S}
Depth(b) == Cardinality(Ancestors(b))
AtDepth(b, i) == {c \in Ancestors(b) : Depth(c) = i}
Callers(b) == [i \in 1..Depth(b) |-> CHOOSE c \in AtDepth(b, i) : TRUE]

Calls(p) == IF Innermost(p) = None THEN <<>> ELSE Callers(Innermost(p))

Stacks == INSTANCE CallStack WITH
    Frames <- Blocks, calls <- [p \in Processes |-> Calls(p)], active <- current, inFlight <- raised

(* co_await of a task is a call: resuming a process at its resume point alone keeps all of the calls *)
(* that it is in, each result and each exception goes to the coroutine that awaits it, and no       *)
(* process gets into the calls of another one, while frames are reused (coro.h:10-13, 145-155).     *)
IsCallStack == Stacks!Spec

(* Whatever the scheduler or a final suspend point will resume is a frame that exists, waits, and is *)
(* destroyed with that process only, not one that took over its memory.                             *)
ResumesItsOwn ==
    \A p \in Processes :
        LET calls == Calls(p)
        IN calls # <<>> =>
              /\ calls[1] = root[p]
              /\ ToSet(calls) \subseteq Below({p})
              /\ \A i \in 1..Len(calls) - 1 : frame[calls[i]].state = "suspended"
              /\ frame[Last(calls)].state \in IF current = p THEN {"running"} ELSE {"start", "suspended"}

(* The pools and the frames do not share memory and lose none: each block of the allocator is a      *)
(* frame that fits into it and belongs to a process, or is listed once, by one pool, under its size. *)
Kept(t, c) == Range(pool[t][c])
PoolIsSound ==
    /\ \A t \in Threads, c \in Classes :
          /\ count[t][c] = Len(pool[t][c]) /\ count[t][c] <= MaxFree
          /\ Cardinality(Kept(t, c)) = Len(pool[t][c])
          /\ \A b \in Kept(t, c) : bytes[b] = c * Granularity /\ frame[b] = NoFrame
    /\ \A s, t \in Threads, c, d \in Classes :
          <<s, c>> # <<t, d>> => Kept(s, c) \cap Kept(t, d) = {}
    /\ LET kept == UNION {Kept(t, c) : t \in Threads, c \in Classes}
           owned == Below({p \in Processes : process[p] # "none"})
       IN \A b \in Blocks :
             /\ frame[b].size <= bytes[b]
             /\ frame[b].state # "none" <=> b \in owned
             /\ bytes[b] > 0 <=> b \in owned \cup kept
=============================================================================
