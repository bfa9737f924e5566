----------------------------- MODULE AxisStream -----------------------------
(***************************************************************************)
(* A source of a stream (AxisTx) wired to a sink (AxisRx), on the clock    *)
(* that a Clock drives, with coroutines that send and receive.             *)
(*                                                                         *)
(* round is what the kernel evaluates at the current time:                 *)
(*   first    what waited for this time: the clock, and timeouts           *)
(*   edge     what the positive edge of the clock wakes: both modules      *)
(*   react    what the events of the modules wake                          *)
(*   settled  nothing: time may pass, or the test bench has control        *)
(* Processes of the user run in every round, before and after the others.  *)
(***************************************************************************)
EXTENDS Integers, Sequences

CONSTANTS
  Data,        \* the values of a beat
  Sender,      \* coroutines that send and drain
  Receiver,    \* coroutines that receive
  Period,      \* of the clock, in units of time
  MaxTimeout,  \* bound: the longest timeout
  MaxQueue     \* bound: how many beats are queued in both fifos

ASSUME StreamAssumption ==
  /\ Period \in Nat /\ Period >= 2
  /\ MaxTimeout \in Nat
  /\ MaxQueue \in Nat
  /\ Sender \cap Receiver = {}

Coroutine == Sender \cup Receiver

VARIABLES
  round,     \* what the kernel evaluates
  clk,       \* the value of the clock
  newClk,    \* the value written to the clock
  toToggle,  \* the time until the clock's coroutine resumes
  rst,       \* the value of rst
  newRst,    \* the value written to rst
  bus,       \* the values of tvalid, tdata and tready
  drive,     \* the values written to tvalid, tdata and tready
  todo,      \* the modules that the edge has woken
  notified,  \* the events notified in this round
  txFifo,    \* AxisTx::fifo
  rxFifo,    \* AxisRx::fifo
  ready,     \* AxisRx::ready_
  state,     \* of the coroutines: idle, waiting, or woken by an event or a timeout
  timed,     \* does the wait of a coroutine have a timeout
  left,      \* the time left until its deadline
  wanted     \* how many samples a coroutine receives

clockVars == <<clk, newClk, toToggle>>
resetVars == <<rst, newRst>>
busVars == <<bus, drive>>
waitVars == <<state, timed, left, wanted>>

vars == <<round, clockVars, resetVars, busVars, todo, notified, txFifo, rxFifo, ready, waitVars>>

Bus == [valid : BOOLEAN, data : Data, ready : BOOLEAN]

TypeOK ==
  /\ round \in {"first", "edge", "react", "settled"}
  /\ {clk, newClk, rst, newRst, ready} \subseteq BOOLEAN
  /\ toToggle \in 0..Period
  /\ bus \in Bus /\ drive \in Bus
  /\ todo \subseteq {"tx", "rx"}
  /\ notified \subseteq {"sent", "received"}
  /\ txFifo \in Seq(Data) /\ rxFifo \in Seq(Data)
  /\ state \in [Coroutine -> {"idle", "waiting", "woken", "timeout"}]
  /\ timed \in [Coroutine -> BOOLEAN]
  /\ left \in [Coroutine -> 0..MaxTimeout]
  /\ wanted \in [Coroutine -> Nat]

Init ==
  /\ round = "first"
  /\ clk = FALSE /\ newClk = FALSE /\ toToggle = 0
  /\ rst = FALSE /\ newRst = FALSE
  /\ \E x \in Data : bus = [valid |-> FALSE, data |-> x, ready |-> FALSE]
  /\ drive = bus
  /\ todo = {} /\ notified = {}
  /\ txFifo = <<>> /\ rxFifo = <<>>
  /\ ready = FALSE
  /\ state = [p \in Coroutine |-> "idle"]
  /\ timed = [p \in Coroutine |-> FALSE]
  /\ left = [p \in Coroutine |-> 0]
  /\ wanted = [p \in Coroutine |-> 0]
-----------------------------------------------------------------------------
(***************************************************************************)
(* The modules.                                                            *)
(***************************************************************************)
Handshake == bus.valid /\ bus.ready

\* What AxisTx::eval() does, with the queue that is popped, whether the accepted beat is
\* announced, the queue that is presented, and the reset that is seen.
TxEvaluates(queue, announced, presented, reset) ==
  LET stalled == bus.valid /\ ~bus.ready
  IN
  /\ "tx" \in todo
  /\ todo' = todo \ {"tx"}
  /\ txFifo' = queue
  /\ notified' = IF announced THEN notified \cup {"sent"} ELSE notified
  /\ drive' = [drive EXCEPT
       !.valid = ~reset /\ (stalled \/ presented # <<>>),
       !.data  = IF stalled \/ presented = <<>> THEN @ ELSE Head(presented)]
  /\ UNCHANGED <<round, clockVars, resetVars, bus, rxFifo, ready, waitVars>>

\* The queue without the beat that the sink accepts at this edge.
Popped == IF Handshake THEN Tail(txFifo) ELSE txFifo

\* Mutants of TxEval: the reset is seen before it is committed; the last beat is not announced.
TxEvalResetEarly == TxEvaluates(Popped, Handshake, Popped, newRst)
TxEvalSilentLast == TxEvaluates(Popped, Handshake /\ Popped # <<>>, Popped, rst)

\* AxisTx::eval(): the accepted beat is popped and the next one is presented.
TxEval == TxEvaluates(Popped, Handshake, Popped, rst)

\* Mutant of RxEval: the sink takes ready_ for the tready that the source sees.
RxEvalOwnReady ==
  /\ "rx" \in todo
  /\ todo' = todo \ {"rx"}
  /\ IF bus.valid /\ ready
     THEN rxFifo' = Append(rxFifo, bus.data) /\ notified' = notified \cup {"received"}
     ELSE UNCHANGED <<rxFifo, notified>>
  /\ drive' = [drive EXCEPT !.ready = ready]
  /\ UNCHANGED <<round, clockVars, resetVars, bus, txFifo, ready, waitVars>>

\* AxisRx::eval()
RxEval ==
  /\ "rx" \in todo
  /\ todo' = todo \ {"rx"}
  /\ IF Handshake
     THEN rxFifo' = Append(rxFifo, bus.data) /\ notified' = notified \cup {"received"}
     ELSE UNCHANGED <<rxFifo, notified>>
  /\ drive' = [drive EXCEPT !.ready = ready]
  /\ UNCHANGED <<round, clockVars, resetVars, bus, txFifo, ready, waitVars>>
-----------------------------------------------------------------------------
(***************************************************************************)
(* The user: processes and the test bench.                                 *)
(***************************************************************************)
userless == <<round, clockVars, busVars, todo, notified>>

\* AxisTx::push_back()
Push(x) ==
  /\ Len(txFifo) + Len(rxFifo) < MaxQueue
  /\ txFifo' = Append(txFifo, x)
  /\ UNCHANGED <<userless, resetVars, rxFifo, ready, waitVars>>

\* AxisRx::take(), and clear(), which takes everything.
Take(n) ==
  /\ rxFifo' = SubSeq(rxFifo, n + 1, Len(rxFifo))
  /\ UNCHANGED <<userless, resetVars, txFifo, ready, waitVars>>

SetReady ==
  /\ ready' = ~ready
  /\ UNCHANGED <<userless, resetVars, txFifo, rxFifo, waitVars>>

WriteReset ==
  /\ newRst' = ~newRst
  /\ UNCHANGED <<userless, rst, txFifo, rxFifo, ready, waitVars>>

\* A coroutine starts to wait; a timeout of 0 is none.
Wait(p, n, timeout) ==
  /\ state' = [state EXCEPT ![p] = "waiting"]
  /\ timed' = [timed EXCEPT ![p] = timeout > 0]
  /\ left' = [left EXCEPT ![p] = timeout]
  /\ wanted' = [wanted EXCEPT ![p] = n]

\* AxisTx::send(): push_range() is a push for each beat, of which this is the last.
Send(p, x, timeout) ==
  /\ state[p] = "idle"
  /\ Len(txFifo) + Len(rxFifo) < MaxQueue
  /\ txFifo' = Append(txFifo, x)
  /\ Wait(p, 0, timeout)
  /\ UNCHANGED <<userless, resetVars, rxFifo, ready>>

\* AxisTx::drain(), which returns at once if the fifo is empty.
Drain(p, timeout) ==
  /\ state[p] = "idle"
  /\ txFifo # <<>>
  /\ Wait(p, 0, timeout)
  /\ UNCHANGED <<userless, resetVars, txFifo, rxFifo, ready>>

\* AxisRx::receive() with too few samples in the fifo: otherwise it is a take().
Receive(p, n, timeout) ==
  /\ state[p] = "idle"
  /\ Len(rxFifo) < n
  /\ Wait(p, n, timeout)
  /\ UNCHANGED <<userless, resetVars, txFifo, rxFifo, ready>>

\* A coroutine ends, and its frame with it.
Return(p) ==
  /\ state' = [state EXCEPT ![p] = "idle"]
  /\ timed' = [timed EXCEPT ![p] = FALSE]
  /\ left' = [left EXCEPT ![p] = 0]
  /\ wanted' = [wanted EXCEPT ![p] = 0]

WaitAgain(p) ==
  /\ state' = [state EXCEPT ![p] = "waiting"]
  /\ UNCHANGED <<timed, left, wanted>>

\* What ends the process that runs a coroutine, such as the timeout of run_until().
Cancel(p) ==
  /\ state[p] # "idle"
  /\ Return(p)
  /\ UNCHANGED <<userless, resetVars, txFifo, rxFifo, ready>>
-----------------------------------------------------------------------------
(***************************************************************************)
(* The coroutines, once they are woken.                                    *)
(***************************************************************************)
\* The loop of drain(): the fifo is empty, or the deadline has come.
ResumeSender(p) ==
  /\ \/ round = "first" /\ state[p] = "timeout"
     \/ round = "react" /\ state[p] = "woken"
  /\ IF txFifo = <<>> \/ state[p] = "timeout" \/ (timed[p] /\ left[p] = 0)
     THEN Return(p)
     ELSE WaitAgain(p)
  /\ UNCHANGED <<userless, resetVars, txFifo, rxFifo, ready>>

\* Mutant of ResumeReceiver: after a timeout with too few samples it waits without one.
ResumeReceiverUntilEnough(p) ==
  /\ \/ round = "first" /\ state[p] = "timeout"
     \/ round = "react" /\ state[p] = "woken"
  /\ IF Len(rxFifo) >= wanted[p]
     THEN Return(p) /\ rxFifo' = SubSeq(rxFifo, wanted[p] + 1, Len(rxFifo))
     ELSE Wait(p, wanted[p], IF state[p] = "timeout" THEN 0 ELSE left[p]) /\ UNCHANGED rxFifo
  /\ UNCHANGED <<userless, resetVars, txFifo, ready>>

\* The loop of receive(), and the take() that ends it.
ResumeReceiver(p) ==
  LET n == IF wanted[p] <= Len(rxFifo) THEN wanted[p] ELSE Len(rxFifo)
  IN
  /\ \/ round = "first" /\ state[p] = "timeout"
     \/ round = "react" /\ state[p] = "woken"
  /\ IF Len(rxFifo) >= wanted[p] \/ state[p] = "timeout" \/ (timed[p] /\ left[p] = 0)
     THEN Return(p) /\ rxFifo' = SubSeq(rxFifo, n + 1, Len(rxFifo))
     ELSE WaitAgain(p) /\ UNCHANGED rxFifo
  /\ UNCHANGED <<userless, resetVars, txFifo, ready>>
-----------------------------------------------------------------------------
(***************************************************************************)
(* The kernel and the clock.                                               *)
(***************************************************************************)
\* Clock::tick_coro(): the remainder of an odd period is the time that it is low.
ToggleClock ==
  /\ round = "first"
  /\ toToggle = 0
  /\ newClk' = ~clk
  /\ toToggle' = IF newClk' THEN Period \div 2 ELSE Period - Period \div 2
  /\ UNCHANGED <<round, clk, resetVars, busVars, todo, notified, txFifo, rxFifo, ready, waitVars>>

\* The delta cycle of the time events ends. A positive edge wakes both modules.
EndFirst ==
  /\ round = "first"
  /\ toToggle > 0
  /\ \A p \in Coroutine : state[p] # "timeout"
  /\ clk' = newClk
  /\ rst' = newRst
  /\ IF ~clk /\ newClk
     THEN round' = "edge" /\ todo' = {"tx", "rx"}
     ELSE round' = "settled" /\ UNCHANGED todo
  /\ UNCHANGED <<newClk, toToggle, newRst, busVars, notified, txFifo, rxFifo, ready, waitVars>>

\* Does an event that was notified wake p?
Hears(p) ==
  /\ state[p] = "waiting"
  /\ \/ p \in Sender /\ "sent" \in notified
     \/ p \in Receiver /\ "received" \in notified

\* The delta cycle of the edge ends: the signals change, and the events are triggered.
EndEdge ==
  /\ round = "edge"
  /\ todo = {}
  /\ bus' = drive
  /\ rst' = newRst
  /\ state' = [p \in Coroutine |-> IF Hears(p) THEN "woken" ELSE state[p]]
  /\ notified' = {}
  /\ round' = "react"
  /\ UNCHANGED <<clockVars, newRst, drive, todo, txFifo, rxFifo, ready, timed, left, wanted>>

EndReact ==
  /\ round = "react"
  /\ \A p \in Coroutine : state[p] # "woken"
  /\ rst' = newRst
  /\ round' = "settled"
  /\ UNCHANGED <<clockVars, newRst, busVars, todo, notified, txFifo, rxFifo, ready, waitVars>>

\* A unit of time passes. Who waits until now resumes before the edge of the clock, if
\* there is one at this time.
Tick ==
  /\ round = "settled"
  /\ round' = "first"
  /\ toToggle' = toToggle - 1
  /\ left' = [p \in Coroutine |->
                IF state[p] = "waiting" /\ timed[p] THEN left[p] - 1 ELSE left[p]]
  /\ state' = [p \in Coroutine |->
                IF state[p] = "waiting" /\ timed[p] /\ left[p] = 1 THEN "timeout" ELSE state[p]]
  /\ UNCHANGED <<clk, newClk, resetVars, busVars, todo, notified, txFifo, rxFifo, ready,
                 timed, wanted>>

Kernel ==
  \/ ToggleClock \/ EndFirst \/ EndEdge \/ EndReact \/ Tick
  \/ TxEval \/ RxEval
  \/ \E p \in Sender : ResumeSender(p)
  \/ \E p \in Receiver : ResumeReceiver(p)

User ==
  \/ \E x \in Data : Push(x)
  \/ \E n \in 1..Len(rxFifo) : Take(n)
  \/ SetReady
  \/ WriteReset
  \/ \E p \in Sender, x \in Data, t \in 0..MaxTimeout : Send(p, x, t)
  \/ \E p \in Sender, t \in 0..MaxTimeout : Drain(p, t)
  \/ \E p \in Receiver, n \in 1..MaxQueue, t \in 0..MaxTimeout : Receive(p, n, t)
  \/ \E p \in Coroutine : Cancel(p)

Next == Kernel \/ User

Spec == Init /\ [][Next]_vars

\* The simulation keeps running, and every round ends.
FairSpec == Spec /\ WF_vars(Kernel)
-----------------------------------------------------------------------------
(***************************************************************************)
(* Properties.                                                             *)
(***************************************************************************)

(***************************************************************************)
(* Whenever a beat is offered, it is the front of the queue of the source, *)
(* so that the handshake pops the beat that the sink has accepted.  The    *)
(* queue is an ordinary member that every process may push to at any time, *)
(* the signals show it one delta cycle later.                              *)
(***************************************************************************)
OffersFront == drive.valid => txFifo # <<>> /\ drive.data = Head(txFifo)

(***************************************************************************)
(* A beat that the sink has not accepted stays on the bus, unless the      *)
(* edge sees a reset.                                                      *)
(***************************************************************************)
OfferStands ==
  [][bus.valid /\ ~bus.ready /\ ~rst => bus'.valid /\ bus'.data = bus.data]_bus

(***************************************************************************)
(* Source and sink are a lossless queue: in either order of their          *)
(* evaluation, with resets, timeouts, cancelled coroutines and several     *)
(* receivers.  A beat is transferred at the edge that sees tvalid and      *)
(* tready; at that edge a module still has to act on it.                   *)
(***************************************************************************)
Transferring(module) == module \in todo /\ Handshake

Outstanding == IF Transferring("tx") THEN Tail(txFifo) ELSE txFifo
Accepted    == IF Transferring("rx") THEN Append(rxFifo, bus.data) ELSE rxFifo

Abstract == INSTANCE Stream WITH outstanding <- Outstanding, accepted <- Accepted

IsStream == Abstract!Spec

(***************************************************************************)
(* send() and drain() return without a timeout, once the sink stays ready  *)
(* and no other process queues more data.  The event they wait for comes   *)
(* with the last beat.                                                     *)
(***************************************************************************)
MoreData == Len(txFifo') > Len(txFifo)

SendReturns ==
  <>[](ready /\ ~newRst) /\ <>[][~MoreData]_vars
    => \A p \in Sender : state[p] = "waiting" ~> state[p] = "idle"

(***************************************************************************)
(* A timeout ends every wait of the library, whatever the modules and the  *)
(* other coroutines do.                                                    *)
(***************************************************************************)
TimeoutReturns == \A p \in Coroutine : state[p] = "waiting" /\ timed[p] ~> state[p] = "idle"
=============================================================================
