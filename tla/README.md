# A TLA+ model of dspsim

dspsim is a cycle based simulator for digital designs: a C++ kernel in the style of SystemC
(delta cycles, method processes, C++20 coroutines), Python bindings for it, and a Python tool
chain that builds Verilog, VHDL and C++ models into extension modules. This directory holds TLA+
modules for the parts whose correctness depends on the order in which things happen, the
configurations that TLC checks, and theorems that TLAPS proves. Paths below are relative to the
root of the repository (`src/` in `PROJECT.json`).

## Inventory

| Component | Code | State | Operations | Interacts with |
|---|---|---|---|---|
| Scheduling kernel | `src/context.cpp`, `src/event.cpp`, `src/process.cpp`, `src/coro.cpp`, `src/module.cpp`, `utils/flagged_stack.h` | time, time event queue, evaluation, update and event stacks, subscriptions, wake counts, static sensitivity | `run`, `run_until`, `spawn`, `notify`, `wait`, `next_trigger`, `initialize`, `disable`, `enable`, `always` | every process; signals raise its events; `eval()` calls processes, which call back |
| Context factory | `src/context.cpp` 590-732 | active context, its owner, the global factory | `create`, `obtain`, `elaborate`, `release`, `reset` | all threads; the constructors of models |
| Signals, derived signals, channels | `src/signal.cpp`, `src/derived_signal.cpp`, `src/channel.cpp` | pending and committed values, update stacks | `write`, `init`, `update`, `request_update` | the update phase of the kernel, events |
| Bit selections | `src/bitsel.cpp`, `bits.h` | none | `read`, `write`, `slice`, `concat` | derived signals |
| AXI stream modules | `modules/axis_tx.h`, `modules/axis_rx.h` | two queues, the bus signals | `send`, `drain`, `receive`, `take`, `clear` | clock, bus, user coroutines |
| Clock | `src/clock.cpp` | value, half periods | one coroutine | kernel |
| Ports and binding | `src/port.cpp`, `port.h` | `bound_signal_`, `bound_ports_`, the events a port exposes, their subscribers | `bind`, `resolve`, `finalize`, `elaborate`, `always` | elaboration, events |
| Module scope | `src/module_name.cpp`, `src/model.cpp`, `src/module.cpp` | two stacks of the context | open, end | construction of models |
| Task nesting and frame pool | `coro.h`, `src/coro.cpp`, `bindings/task.h`, `bindings/py_task.h` | frames, their continuations and owners, the resume point, free lists per thread | `co_await`, `co_return`, `throw`, `send`, removal of a process, allocation | kernel |
| Arrays | `ndarray.h`, `src/ndarray.cpp`, the array bindings | none | slices, ranges, views of views | ports, signals |
| Structs | `struct.h`, `src/struct.cpp`, `struct_bindings.h` | trees of named fields, the ports that are bound | `add_field`, `field`, `slice`, `signals`, `bind` | arrays, ports |
| Verilated modules | `vmodule/` | words of packed structs | `eval`: ports in, ports out | structs, signals |
| Traces and logging | `src/context.cpp`, `src/log.cpp` | trace list | dump | kernel |
| Build cache | `src/dspsim/builder.py`, `ghdl.py`, `toolchain.py`, `cpp_parser.py` (the cache of headers) | build directories, hashes, stamps, `_loaded_modules`, `CppHeader._loaded` | `build_cppmodule`, `build_vmodule`, `transpile` | files, other processes, CMake, GHDL |
| Python bindings | `src/bindings/`, `include/bindings/` | references into Python | conversions | kernel, Python |
| Python parsers and generators | `src/dspsim/` | none | parse, generate | build cache |
| Templates, HDL, benchmarks, examples | `templates/`, `hdl/`, `benchmarks/` | none | | |

### What is hard, and what makes each component correct

* **Kernel.** One thread runs everything, but the test bench, the processes and the kernel interleave
  at every suspension. A coroutine may wait for a time, for several events, or for both; every wait
  leaves entries in several places (subscription lists of events, list of the process, time queue),
  and whatever ends it must leave none that acts later. Exceptions leave `eval()` in the middle.
  Correct means: each wait can end, ends for one reason, and reports it rightly; a stack entry and
  its flag agree; time advances only when nothing is scheduled; nothing refers to a destroyed
  process; `run_until()` keeps its deadline and removes its process however it is left.
* **Context factory.** Threads construct designs at the same time. Correct means: models register
  with a context of their own thread, a late release leaves the next construction alone, no wakeup
  is lost and no thread waits for itself.
* **Signals.** Writes of one delta cycle become visible together. Correct means: nobody sees a half
  committed design, a derived signal always equals its selection, events are those of the whole
  step and not of its intermediate states, and a channel commits after all signals.
* **AXI stream.** Two modules that talk through signals of a clocked bus. Correct means: no beat is
  lost, duplicated or reordered, whatever the user and the reset do; a stalled beat stays; the
  waits of the library end.
* **Ports and binding.** Ports are bound before what they are bound to is bound. Correct means: after
  elaboration every port of a chain reaches the signal at its end and its subscribers hear that
  signal, in whatever order the bindings were made, and the search for it ends.
* **Module scope.** Two stacks tell a constructor its parent. Correct means: whatever is constructed,
  in the constructor of a module or after it has thrown, gets the innermost open scope.
* **Task nesting and frame pool.** A chain of coroutines suspends and resumes with its leaf, frames are
  freed while the process goes on, and a context moves between threads that have a pool each. Correct
  means: awaiting a task is a call, a frame is resumed for its own process only, results and exceptions
  reach the caller once, and no frame is used after its memory is.
* **Arrays, structs, verilated ports.** Index arithmetic in four places (slices, views of views, names
  of fields, bits in words) that have to agree. Correct means: what is bound is bound by name and
  element whichever views it is reached by, and a field of a packed struct is the signal bound to it.
* **Bit selections.** Correct means equal to the evident definition at every boundary.
* **Build cache.** Several Python processes share one directory without a lock, and each may be killed
  between any two steps. Correct means: what a call returns is current, what is imported is what was
  built, and what a killed process leaves does not break later builds.

## Modules

| Module | Models | Refines |
|---|---|---|
| `Kernel` | the kernel, one action per call, per step of `eval()`, `run()`, `run_until_done()` | |
| `KernelProperties` | what the kernel promises | |
| `KernelProofs` | proofs | |
| `ContextFactory` | the construction lock, one action per section between two lock operations | `ConstructionLock` |
| `ContextFactoryProofs` | proofs | |
| `BitViews` | values, selections, events of a change: operators | |
| `BitSelections` | parts of signals, slices, packs, selections of derived signals: operators | |
| `Signals` | writes and the update phase, one action per commit | `AtomicUpdate` |
| `SignalsProofs` | proofs | |
| `AxisStream` | `AxisTx`, `AxisRx`, `Clock`, and the coroutines that send and receive | `Stream` |
| `AxisStreamProofs` | proofs | |
| `Elaboration` | binding of ports, `elaborate()` with the recursion of `resolve()`, hand over of subscribers | |
| `ElaborationProofs` | proofs | |
| `Arrays` | shapes, slices, flat indices: operators | |
| `StructPorts` | struct ports and structs of signals, their views, `signals()`, `bind()` | |
| `PackedPorts` | the ports of a verilated module with packed structs, `VModule::eval()` | |
| `Interface` | `StructPorts` and `PackedPorts` composed: what is bound carries what is written | `FieldRecords` |
| `InterfaceProofs` | proofs | |
| `Tasks` | frames, tasks, the processes that run them, the pools | `CallStack` |
| `TasksProofs` | proofs | |
| `BuildCache` | a directory of the cache: generating, configuring, building, importing | |
| `Transpile` | VHDL to SystemVerilog | |
| `Builder` | `BuildCache` and `Transpile` composed with what comes before the key of a build | |
| `BuilderProofs` | proofs | |
| `MC*` | small instances for TLC | |

### How state and actions correspond to the code

**Kernel.** The members of `Context`, `SensitivityEvent` and `ProcessBase` are variables of (nearly)
their names; the comment of each variable in `Kernel.tla` gives the member. `pc` is the place that
control has reached in `run()`, `run_until_done()` and `eval()`. A call of a process or of the test
bench (`Notify`, `WaitEvents`, `Disable`, ...) is one action, because one thread runs everything and
a call is never interrupted; the nondeterminism is which process calls what, and when the test
bench takes over. `Resume(p)` starts an evaluation, which ends with a suspension (`WaitTime`,
`WaitEvents`, ...), a return or a throw. Stacks are sequences where their order is observable; the
order in which one event schedules its subscribers is left open, as nothing may depend on it.
`NothingScheduled` leaves out `post_update_stack_` (`context.cpp:150`), which only holds the derived signals
and channels that are in `Signals`. Two histories are kept: `cause`, what put a process on the evaluation stack, and `calls`, the fuel.
`fresh` stands for `change_time_ = update_count_`. `Wild` is the value of `current_process_`, which
the constructor of `Context` does not set.

**ContextFactory.** `pc[t]` is where thread `t` is between two acquisitions of the mutex; what is done
under the mutex is atomic. Spurious wakeups of the condition variable are actions.

**Signals.** The value of a signal is the set of its bits that are 1, and a selection is a sequence of
bits of sources, so nothing depends on words or shifts. `BitSelections` makes these sequences as the code does,
from parts that are cut, joined and merged; an exception is the empty selection, which no call returns. Every pop of the update stacks is an action.
The order in which dependents are pushed is left open. The evaluation phase appears as the writes
that it makes.

**AxisStream.** `round` is the delta cycle at the current time. The kernel is the abstraction of
`Kernel` that this needs: what waits for a time runs before the edge, both modules evaluate at the
edge in either order, the events of the modules are triggered when the edge's cycle ends. User
processes push, take, reset and start coroutines in every round, between any two steps.

**Elaboration.** `frames` is the call stack of `resolve()`: a port and the number of its `bound_ports_`
that the loop has begun with; the loop itself is `Searching`, `Descend`, `Adopt`, `Return`.
`subscribers` and `staticEvents` are the `static_` list of an event, as a count for each process, and the
`static_events_` of a process. `exposed` is what `change_event_`, `posedge_event_` and `negedge_event_`
point to. `direct` and `asked` are histories: what the user bound and asked for. Two things come from
what the headers say of their use and not from a guard of the code: bindings are made before
`elaborate()` (`port.h:110-112`), and a port is bound to ports of a parent module, which has a smaller
`Level` (`port.h:93-96`; the code has a TODO for the check). While `elaborate()` runs, `always()` can be called
by the `finalize()` of a model, so `Always` is enabled between those of two ports and not inside a
`resolve()`, which calls nothing of the user.

**StructPorts, PackedPorts, Interface.** A tree of structs is a function from paths to
nodes, where a step of a path is a `Field` or the `Element` at a position of an array of structs; a node has the order in
which its fields were added. A view has a shape and `elems`, the elements in row-major order that the code selects by
flat indices, and a history, `expects`, of the element that the user means at each position. In `check()` the nodes that
the recursion reaches are those with nothing but equal nodes above them (`Reached`), and `bind_checked()` stops at the first
array whose shape differs (`IsBoundBefore`); `bound` has the pairs of what is in each port's `bound_signal_` or
`bound_ports_`. `Arrays` has the loops of `select_flat()`, of the constructors and of `flat_index()`: the position that
moves on, the strides, and the sums. A field of an array of structs that is empty cannot be taken, as in the Python bindings
(`struct_bindings.h:252`). In `PackedPorts`
a word or a value is the set of its bits that are 1, and a struct is a range of words; `vl_get_bits` and `vl_set_bits` read
and write part of each word that a field has bits in, at real widths. `VModule::eval()` is a step for each port
that it synchronizes and one for the verilated model, which computes anything; `evaluating` and `next` are the places of
its two loops. Nothing else happens during `eval()`, which is one evaluation of one process. `seen` is a history: the input words that the model
was last evaluated with. The order of the ports, the one of their constructors, is a constant.
`Interface` elaborates a design in which `PortName` is the array of packed structs
of a verilated module, when it is completely bound, and runs it. A write is committed at once there, as
the update phase is the matter of `Signals`, and outputs have signals of their own (`shown`).

**Tasks.** A frame is known by the block of memory it is in, so a handle that outlives its frame points
at whatever the pool has put there since, as in the program. `control` is the frame, or the Python
coroutine, that runs; `resumePoint`, `continuation` are the members, and `owner` is whoever has the `Task`: a
process or the frame whose local variable it is. One action is a call of the library or the end of a
coroutine: `Create` allocates a frame, `Await` and `PyAwait` start it, `Wait` and `PyWait` go back to the
scheduler, and `Return` and `Unwind` destroy the local variables, with the frames `Below` them, store the outcome in the
promise, and go on where `final_suspend()` says. The order in which frames of one owner are destroyed
is left open, and so is the block that the allocator returns. Which process is resumed is the part of the kernel.

**BuildCache, Transpile, Builder.** A file has a version of its contents in place of the contents, or is
`None` when it is missing and `"empty"` when it is opened and not yet written. `call[p].at` is where a
Python process is; what lies between two points does one access to the directory. A process may end at
any point. Histories of a call say what the source, the headers and the tools have been since it began
(`versions`, `library`, `tools`) and whether anything else has moved (`disturbed`). `shared` and `crowded`
say that two processes have written the same files at once. `CompareStamp` reads the hash and the stamp
in one step, where `_build()` reads one after the other: what happens in between could at most make it
configure once more. Taken from how the code uses them, as
external: CMake and the build system, which rebuild what is out of date and fail on an incomplete file; GHDL; the
loader of Python. Tools change only while no process runs, as `toolchain.py:39` says. `Builder` does not
parse: what is read from a source is its version, and `load_model_info()`, which is called twice
for a Verilog module, is called once.

## Runs

| Run | What it asks | Distinct states |
|---|---|---|
| `kernel_waits` | two coroutines, two events, waits with and without timeouts: is each wait armed, ended for one reason, and reported rightly; do `run()` and `run_until()` return, do notified events occur, are completed coroutines destroyed | 278,329 |
| `kernel_tasks` | a method process, a spawned coroutine and one in `run_until()`, every call, exceptions: stack and flags, references to destroyed processes, pauses of the static sensitivity, disabled processes, overdue time events, deadlines | 4,171,818 |
| `factory` | three threads: is the factory a construction lock | 623,998 |
| `signals` | is the update phase one atomic step for everybody else | 113,244 |
| `axis_stream` | are source and sink a lossless queue, do the waits end | 363,712 |
| `elaboration` | three ports in a chain or a fork, two signals, a process: are the ports connected, and does the process hear their signals once | 6,610,172 |
| `interface` | structs put together, viewed and bound in every way, and a verilated module: are elements bound by name, and do the packed ports carry records | 303,265 |
| `tasks` | a C++ and a Python process, three frames, two threads: is `co_await` a call, is memory used by one frame at a time | 26,460 |
| `builds` | two processes, edits, upgrades, kills: is what a call returns current, and does a later build recover | 2,763,836 |
| `completed_resumed`, `bind_is_atomic`, `skips_unwritten` | see Findings | |

**Bounds.** All of them bound calls of the environment, in guards of those calls.

* *Kernel.* `MaxCalls` is how many calls the design and the test bench make altogether: 5 are enough for two
  waits, the notification that ends one of them, and a run with a stale entry left for it; 6 let
  exceptions, `initialize()` and `disable()` come between. `Delays` and `RunTimes` reach before, at and after a
  deadline: the sets hold times that coincide (2 after 0 and 1 after 1).
* *Factory.* `MaxContexts` is 2, so that a late release meets the construction after its own.
* *Signals.* `MaxWrites` is 3: a write to each source and one through the view of both, or an initialization
  between two writes. One view packs bits of both sources, and the other is a part of that view. Before the run
  TLC evaluates three assumptions of `MCSignals`: for all selections of up to two parts of signals of three
  bits, every range of a slice, and every pair packed, slices and packs read what a sequence of bits would.
  `MaxWidth` is 9 for 64, so that some packs are too wide.
* *AXI.* `MaxQueue` is 2: a beat on the bus and one behind it, or one in each queue. `MaxTimeout` is a period of
  the clock, so that a timeout is due at an edge, and between two edges. `Period` is 2, the shortest with
  two halves.
* *Elaboration.* `MaxBinds` is 4: a port that is bound to two others with a signal each; three make a chain.
  `MaxAlways` is 2: two items that end up at one signal. The three kinds of event of a port are treated
  alike, so that the instance has one.
* *Interface.* `MaxFields` is 2, what it takes for fields to be taken for one another; `MaxMoves` is 2, a view of a
  view on each side; `MaxBinds` is 2, one after one that has failed. A word has 2 bits and a long integer 4, so
  that with `Width` 9 a struct has five words, one field is wide, and the other starts and ends inside
  a word. Slices have missing, negative and excessive bounds.
* *Tasks.* Three blocks make a chain of a root, a task and a task of its own, or a task that is dropped while
  its memory is used again. Blocks are alike, and so are threads, which makes them symmetric. Sizes 2 and 3 with `Granularity` 2 and `SizeClasses` 2 fall into a pooled class
  and an unpooled one, `MaxFree` 1 is a pool that is full with one frame.
* *Builder.* `FileCount` is 2: one file is written and the other is not. `MaxStarts` is 2, both processes at once, or one that
  starts after the other was killed; `MaxCalls` is 3: two that collide and one that finds what they leave. `MaxEdits`
  is 1, an edit in the middle of a call. The tools 0 and 1 have the same templates and 2 has others, so that
  a stamp differs in either part.

**Deadlock** is checked in every run but those of `Interface` and `Builder`, whose users are done
when their bounds are used up. In the kernel `Rest` is the test bench that makes no more runs.

**Fairness.** `Kernel!FairSpec` is weakly fair for `Progress`: the code of the kernel goes on, and the
process that runs reaches the end of its evaluation; a process in an endless loop hangs the program.
The test bench is not fair: it need not call `run()` again. `ContextFactory!FairSpec` is weakly
fair for each thread inside a call, as the scheduler of the operating system is; threads need not
make calls or release what they construct. `AxisStream!FairSpec` is weakly fair for the kernel: the
simulation goes on running; users are not fair. `SendReturns` assumes besides that the sink stays
ready, that there is no reset and that nobody queues more data, in the property itself. The other
modules have no fairness: nothing in them waits.

## Proofs

| Theorem | Module | States |
|---|---|---|
| `TypeCorrect`, `NeverOverdue`, `AdvancesSettled`, `DeadlineKept` | `KernelProofs` | `TypeOK`, `NothingOverdue`, `TimeAdvancesSettled`, `UntilKeepsDeadline` |
| `FlagsCorrect`, `MirroredCorrect`, `NothingDangles` | `KernelProofs` | `FlagsMatchStack`, `SubscriptionsMirrored`, `NoDangling` |
| `WaitsAreArmed`, `WaitsEndForTheirReason`, `VerdictsAreRight`, `PausesEnd` | `KernelProofs` | `WaitIsArmed`, `ResumedForItsReason`, `TimeoutVerdict`, `PauseEnds`, while nothing intervenes in the waits (below) |
| `DisabledStaysDeaf` | `KernelProofs` | `DisabledIsDeaf`, in every design |
| `OwnerCorrect`, `RegistersCorrect`, `NotifiedCorrect`, `TargetCorrect`, `NoSelfWaitCorrect`, `LockImplemented` | `ContextFactoryProofs` | the safety of the factory, and that it implements the lock |
| `SignalsTypeCorrect`, `DerivedAreConsistent`, `NoWriteIsLost`, `ChannelsSeeCommitted`, `UpdateIsAtomic` | `SignalsProofs` | all properties of `Signals` |
| `AxisTypeCorrect`, `FrontIsOffered`, `OffersStand`, `StreamImplemented` | `AxisStreamProofs` | all safety properties of `AxisStream` |
| `ElaborationTypeCorrect`, `ResolveNotReentered`, `PortsAreConnected`, `PortsAgree`, `SubscriptionsCorrect`, `SubscribersHandedOver` | `ElaborationProofs` | all properties of `Elaboration`, and `EndsAgree` |
| `ViewsCorrect`, `BindingByName`, `CreatedBind`, `AlikeBinds` | `InterfaceProofs` | `ViewsInv`, and `BoundByName`, `CreatedSignalsBind`, `BindsTheAlike` of `StructPorts` |
| `InterfaceTypeCorrect`, `InputStaysClean`, `RecordImplemented` | `InterfaceProofs` | `InputIsClean`, `IsRecord` of `Interface` |
| `TasksTypeCorrect`, `PoolsAreSound`, `ResumesItsOwnCorrect`, `CallStackImplemented` | `TasksProofs` | all properties of `Tasks` |
| `BuilderInvCorrect`, `CodeIsCurrentCorrect`, `LoadedIsBuiltCorrect`, `CompleteIfPresentCorrect`, `RecoversFromCrashesCorrect` | `BuilderProofs` | all invariants of `Builder` |

They hold for every value of the constants that satisfies the named `ASSUME`s of the modules: sets of
processes, events and signals of any size, any selections, any times, any bounds.

* **Kernel.** `TimeInv` adds two things to the types. `ControlInv` ties `left`, `until` and the stacks
  to `pc`: at the test of a loop with time left to run nothing is scheduled. `DeadlineInv` says that
  what is left never reaches past the deadline. Without the first, `NextStep`, whose length is an
  unsigned difference, could meet an overdue event and even `left \in Nat` would fail; so types and
  times are proved together. The invariants of the stacks and of the subscriptions are inductive
  with `TypeOK`, which their proofs take from `TypeCorrect`.
  `LifeInv` is about processes that are destroyed, not yet created, or completed and not yet destroyed:
  they are asleep, that is not scheduled and not subscribed, and the time events they have left carry
  tags of waits that have ended, so that a completed process cannot be woken and complete a second time.
  `WaitsInv` holds in all designs. Of a coroutine that is left alone it says for each awaitable what it leaves
  behind: while the coroutine is not scheduled, what can end the wait is in place; once it is scheduled,
  nothing of the wait is left and `cause` fits. For `wait(event, timeout)` it has exactly one time event, at
  the deadline; that none is overdue (`TimeInv`) makes the comparison of `await_resume()` with the time right.
  Left alone are all coroutines of designs without `initialize()` and `disable()`, and everywhere those that
  `spawn()` and `run_until()` create, as these calls are made for registered processes. Of the others it says
  what each call leaves true, so that each theorem excludes only what breaks it, for registered coroutines:
  `WaitsAreArmed` the calls that take a process off the stack, `initialize(false)` and `disable()`, which can
  lose a wait that is due; `PausesEnd` the one that resumes a coroutine out of its wait, `initialize(true)`,
  which can leave it paused with nothing pending (both see Noted); the other two all three.
  `PauseEnds` speaks of every process, of method processes also after they have returned for the first
  time. `DisabledIsDeaf` has no hypothesis: `disable()` clears the lists of both ends, so that nothing of the process is
  pending, a wait of one that runs disabled makes it `Waiting` (`process.cpp:135`, `162`), which ends the
  disabling, and events look at the sensitivity. What it leaves open is what the code lets through: `initialize(true)`, and `next_trigger(time)` of a method process that
  is evaluated although it is disabled (see Noted).
* **ContextFactory.** A lost wakeup is excluded because a sleeper and an inactive context imply a
  thread between unlock and `notify_all()`.
* **Signals.** `SigInv` has the state in the middle of the update phase: sources that do not yet show
  their value are on the update stack, views that are stale are on the post update stack and *on top
  of* the channels, and the events raised so far are those of the difference between the values at
  the start (`before`) and now. At the end of the phase it gives the one step of `AtomicUpdate`.
* **AxisStream.** `AxisInv` says that the bus shows what the modules drove, except at an edge, and
  there as long as a module has not evaluated; so both decide on the same handshake. `Outstanding`
  and `Accepted` count a beat as transferred from the moment that the edge sees the handshake.
* **Elaboration.** That no chain leads from a port to a signal is the greatest fixed point `Unconnected`: a
  set of ports closed under their bindings, without a signal. `BindingInv` says that such a set never gets
  one, and that what a port adopted comes from its first port that can be connected. `SearchInv` says that
  what a frame has passed over is in such a set, so that a port which is finalized without a signal
  never gets one later, when another port resolves the same chain. `HearsInv` relates each subscription to the item
  that asked for it, through what the ports expose at the time; with `ExposedInv` at the end of
  `elaborate()` that is the signal of the port. `FramesInv` makes the levels of the frames descend, which
  is why the recursion ends.
* **Structs.** The argument goes from arrays to views to trees to `bind()`. Arrays: the loops visit every position
  of a shape once, in the order of the flat indices, so that the `n`-th position has the flat index `n - 1`
  (`Positions` and `FlatIndexOfView` invert each other); what `select_flat()` computes for a position of a
  selection is the flat index of the position in the whole array that it stands for. Views: hence a slice,
  an element, one field of every struct, and a slice of any of these, have at each position what the user
  means. `ViewsInv` says so of both views, with what this needs of the trees: each step of a path is one that its
  node has, arrays of structs are complete, every node is a port, or every one a signal, and `other` is exactly
  what `signals()` makes of the ports if it was created so. It is inductive as it stands. Binding: the
  places that `check()` visits, the number of a struct and a path below it, are the names of elements, and two trees
  without errors have the same paths with the same shapes; so the pairs that `bind_checked()` makes, before it is
  stopped or to its end, are pairs of one name (`BindingByName`). For `AlikeBinds` in the other direction, the elements of
  the leaves tell the shapes of all that is above them, which is why nothing may be empty. Recursive *functions*
  over dimensions (`Products`, `Strides`, `Flattening`, `Offsets`, `Positions`) exist and are determined by their
  steps (`Recursion`, `Determined`); what holds of all their values follows from `Upwards`, an induction whose parameter is
  the set of numbers at which it holds, so that the provers can use it.
* **Verilated modules.** Every number has one quotient and one remainder, so each bit of a struct has one place in the words (`PlaceOfBit`) and
  each bit of a field one in the words that the field touches (`PartPlace`): the loops of `vl_get_bits` and `vl_set_bits`
  read and write those bits and no others (`GetBitsReads`, `SetBitsWrites`), with the same fields for one integer
  and for many words. Two ports of a struct have no bit in common (`PortsApart`), also not two words of a wide field. `IInv` adds to the types
  that the bits above the structs are 0 (`CleanInv`), and what the loops of `eval()` have already done (`LoopInv`): the inputs
  before `next` are in the words, and the outputs before `next` show theirs, whatever the order of the ports.
  In the refinement the model's own evaluation (`EvalTop`) is `Evaluate`, and every other step, in `StructPorts` too, is
  `Drive`: while the outputs are still being written, `presented` is what the model has computed.
* **Tasks.** `IInv` has two halves. Memory: `PoolInv` says that every block of the allocator has a frame or
  is listed once, under the class of its size; `OwnerInv` says that the frames are exactly those `Below` a
  process that was added. Flow: `CallInv` ties `continuation`, `awaits` and `owner` of two frames to each
  other, `ControlInv` says that one frame at most runs, below the process that is resumed, and `WaitInv`
  that a process which waits has its resume point below it, suspended, and awaiting no task.
  `PoolIsSound` needs the first half only, and the second half needs the first: that the root of a
  process that is gone takes all of its frames with it is why no continuation points into freed memory.
  What is below an owner is a least set, so that a proof about a chain of any length is a
  choice of a closed set, with no induction: a step that adds a frame adds it to the sets
  of its owner's owners, one that destroys some takes them out of all sets. The calls of a process are numbered by how many
  frames are above each. The refinement goes step by step: `AddCoroProcess` is `Start`, `ResumeCoro` and `ResumePy` are
  `Resume`, `Await` and `PyAwait` are `Call`, `Wait` and `PyWait` are `Wait`, `ToAwaiter` is `Return` or `Unwind`,
  `ToPython` is `ReturnToPython`, `ToProcess` and `PyEnd` are `Finish`, `RemoveProcess` is `Discard`, `AwaitAgain` is
  `TakeAgain`; allocation, dropped variables and the change of threads are `Compute`.
* **Builder.** `FilesInv` says what a hash in a directory is worth without a lock: the hash of some version of the
  templates means that no generated file is of an older one, though a file may be empty or newer. With
  `BuildCacheAssumption`, that older templates do not come back, it gives the one version of
  `CodeIsCurrent`. `StampInv` ties the stamp to what CMake was configured with. `CallInv` has a conjunct for each
  point of a call: what the process has read so far, and how old it can be. Most steps of a process leave the
  others alone, which one lemma about bystanders (`Steady`) says for all of them. For the SystemVerilog
  a process that writes it alone has the temporary file for itself until it renames it.
  Recovery needs a second invariant, `RecoverInv`. A call that is undisturbed is alone (`AloneInv`), so nobody can
  have changed what it has read (`FitsInv`). For what was left behind before it began, `RepairInv` says
  of the files of a key that two processes have not written at once: while one of them is empty, or a process is
  writing them, the hash is not that of the tools nor of newer ones, and a process that builds has
  found or written a hash that is. So a build that fails for an incomplete file is in a shared directory; the other
  failures come from the arguments, the temporary file or the header, each with its excuse
  (`FailedInv`), which lasts as long as the process makes no other call.

**Only proved,** as they say little on a small instance: `TypeOK` (`Kernel`), `OwnerCreatedActive`, `NoSelfWait`
(`ContextFactory`), the types and `NoWriteIsLost` of `Signals`, the types and `FrontIsOffered` of
`AxisStream`, the types, `NotReentered` and `EndsAgree` of `Elaboration`, the types and `IInv` of `Tasks` and of `Interface`, `BuilderInv`,
`RecoverInv`.

**Only model-checked:**

* liveness (`RunReturns`, `EventOccurs`, `SpawnedReclaimed`, `SendReturns`, `TimeoutReturns`, the fairness of
  `ConstructionLock`), which the provers cannot do;
* what the operators of `BitSelections` compute, in the assumptions of `MCSignals`: they fold sequences, and what a
  fold returns is found by induction over data.

## Findings

Each is a run that ends with a violation.

* `completed_resumed`: a coroutine that calls `initialize(true)` on itself and returns, or that
  `always()` subscribes after it has completed, is resumed after its completion, although "a completed
  coroutine is never resumed" (`process.h:132`).
* `bind_is_atomic`: `bind()` of structs that differ only in the shape of a port array binds the fields before it
  and then throws, although it throws "without binding anything" (`struct.h:295`).
* `skips_unwritten`: two processes generate the same build, one finishes, and the other is killed with a file
  open. The file stays empty under a valid hash, which is written "once every file is written"
  (`builder.py:382`), and no later build repairs it.

Noted, and not run:

* `next_trigger(time)` of a method process that runs although it is disabled wakes it and leaves it disabled
  (`context.cpp:274`, `process.h:97`): the exception in `DisabledIsDeaf`.
* `initialize(true)` resumes a coroutine that waits for a time, and its next `wait()` does not hear its sensitivity
  list (`process.cpp:45`, `docs/Coro.md:36`).
* A coroutine whose `wait(time)` comes due when `run()` ends is on the evaluation stack with its
  sensitivity active again: `disable()` takes it off and the wait is lost, although `process.h:92-95` says
  that `disable()` throws for such a coroutine (`process.cpp:56`).
* The result of a failed task that is taken twice reads an empty optional (`coro.cpp:117`, `coro.h:194`).
* `transpile()` takes the digest before GHDL reads the files: an edit in between stores the SystemVerilog
  of the new text under the digest of the old one (`ghdl.py:1088`), and `CppHeader` takes its digests after it
  has parsed (`cpp_parser.py:1067`). Both are why `CodeIsCurrent` speaks of the *versions since the
  call began*, and excludes VHDL there.
* Two transpilations of the same sources share `<entity>.sv.tmp`, and one can rename it before the other
  has written it (`ghdl.py:1139`).
* `compile_args.json` that was left empty by a killed process is not repaired (`toolchain.py:74`).
* Older templates that return after newer ones were killed while generating find their own hash over mixed
  files; `BuildCacheAssumption` excludes it.
* `elaborate()` releases through the factory that is global *now*, so after `set_global_context_factory()` an
  elaborated context stays under construction.
* `current_process()` is not `nullptr` after `eval()` (`context.h:307`).
* `AxisTx::send()` waits for the whole queue, also for what others queue.

## Not modelled

* Values: floating point and signed signals (signed fields of packed structs are modelled); signals wider than
  their type; payloads are small sets.
* 64-bit wrap of times and deadlines; times are naturals.
* `clear()` and `pop()` of an `AxisTx` while a beat is on the bus, which pop an empty deque.
* Clocks with a period of 0 or 1, whose half is `wait(0)`.
* Binding of port arrays inside `Elaboration` (`StructPorts` binds them element by element); binding
  after elaboration; ports of one level that are bound to each other; a `finalize()` that constructs models
  while `elaborate()` iterates over them.
* Ports of verilated modules that are unpacked arrays, and real ports.
* Module scope: see the plan.
* Traces, logging, conversions of the Python bindings, parsers and text generators, templates, HDL
  sources and benchmarks: input and output, generated text, and glue.

## Plan

1. `ModuleScope`: the two construction stacks (`module_name.cpp`, `model.cpp`, `module.cpp`) against the
   tree of scopes: a constructor that throws after `Module()` has run, scopes that end out of
   order, two modules in one scope, a port or process outside of a module.
2. Proofs: the layering of `AxisStream` on `Kernel`; waits of registered coroutines in designs that disable
   them, without those that are due.
