----------------------------- MODULE Elaboration -----------------------------
(***************************************************************************)
(* Ports, what they are bound to, and elaborate(), which connects each of  *)
(* them to a signal and hands the processes that are sensitive to the port *)
(* over to the events of that signal.                                      *)
(*                                                                         *)
(* A port is bound to signals and to ports of parent modules, in any order *)
(* and before those are bound themselves.  resolve() searches the ports it *)
(* is bound to, recursively; its calls in progress are frames.             *)
(*                                                                         *)
(* phase is where the design is:                                           *)
(*   construct    modules are constructed and ports are bound              *)
(*   elaborating  in elaborate()                                           *)
(*   failed       elaborate() has thrown                                   *)
(*   elaborated   elaborate() has returned                                 *)
(***************************************************************************)
EXTENDS Integers, Sequences, FiniteSets, SequencesExt

CONSTANTS
  Port,       \* the ports of the design
  Signal,     \* the signals
  Process,    \* the processes
  Edge,       \* the events of a port or a signal: change, pos and neg
  Level,      \* the depth of a port's module in the hierarchy
  MaxBinds,   \* bound: how many bindings are made
  MaxAlways,  \* bound: how many items are added to sensitivity lists
  None        \* nullptr

Node  == Port \cup Signal
Event == Node \X Edge

ASSUME DesignAssumption ==
  /\ IsFiniteSet(Port)
  /\ Port \cap Signal = {}
  /\ None \notin Signal
  /\ Level \in [Port -> Nat]

ASSUME BoundAssumption == MaxBinds \in Nat /\ MaxAlways \in Nat

VARIABLES
  phase,
  models,        \* registered_models_: the ports in the order of their construction
  next,          \* the model of the loop of elaborate()
  frames,        \* the calls of resolve(): a port, and how many ports it has searched
  boundSignal,   \* bound_signal_
  boundPorts,    \* bound_ports_
  exposed,       \* whose events change(), pos() and neg() of the port return
  subscribers,   \* static_ of each event: how many entries each process has
  staticEvents,  \* static_events_ of each process
  completed,     \* the processes that have completed
  binds,         \* bindings that may still be made
  items,         \* items that may still be added
  direct,        \* history: the signal that bind() gave to the port
  asked          \* history: what each process was made sensitive to

elabVars == <<phase, next, frames>>
bindVars == <<boundSignal, boundPorts, direct, binds>>
subVars  == <<subscribers, staticEvents>>

vars == <<elabVars, models, bindVars, exposed, subVars, completed, items, asked>>

Frame == [port : Port, searched : Nat]

TypeOK ==
  /\ phase \in {"construct", "elaborating", "failed", "elaborated"}
  /\ models \in Seq(Port)
  /\ next \in 1..(Len(models) + 1)
  /\ frames \in Seq(Frame)
  /\ \A i \in DOMAIN frames : frames[i].searched <= Len(boundPorts[frames[i].port])
  /\ boundSignal \in [Port -> Signal \cup {None}]
  /\ boundPorts \in [Port -> Seq(Port)]
  /\ exposed \in [Port -> Node]
  /\ subscribers \in [Event -> [Process -> Nat]]
  /\ staticEvents \in [Process -> SUBSET Event]
  /\ completed \subseteq Process
  /\ binds \in 0..MaxBinds
  /\ items \in 0..MaxAlways
  /\ direct \in [Port -> Signal \cup {None}]
  /\ asked \in [Process -> SUBSET Event]

Init ==
  /\ phase = "construct"
  /\ models \in SetToSeqs(Port)
  /\ next = 1
  /\ frames = <<>>
  /\ boundSignal = [p \in Port |-> None]
  /\ boundPorts = [p \in Port |-> <<>>]
  /\ exposed = [p \in Port |-> p]
  /\ subscribers = [e \in Event |-> [x \in Process |-> 0]]
  /\ staticEvents = [x \in Process |-> {}]
  /\ completed = {}
  /\ binds = MaxBinds
  /\ items = MaxAlways
  /\ direct = [p \in Port |-> None]
  /\ asked = [x \in Process |-> {}]
-----------------------------------------------------------------------------
(***************************************************************************)
(* The design.  Bindings are made before elaborate() is called.            *)
(***************************************************************************)
MayBind == phase = "construct" /\ binds > 0

\* A port that is bound to a signal already is bound to the new one.
BindSignal(p, s) ==
  /\ MayBind
  /\ boundSignal' = [boundSignal EXCEPT ![p] = s]
  /\ direct' = [direct EXCEPT ![p] = s]
  /\ binds' = binds - 1
  /\ UNCHANGED <<elabVars, models, boundPorts, exposed, subVars, completed, items, asked>>

\* Ports are bound to the ports of a parent module.
BindPort(p, parent) ==
  /\ MayBind
  /\ Level[parent] < Level[p]
  /\ boundPorts' = [boundPorts EXCEPT ![p] = Append(@, parent)]
  /\ binds' = binds - 1
  /\ UNCHANGED <<elabVars, models, boundSignal, direct, exposed, subVars, completed, items,
                 asked>>

\* Mutant of Subscribe: the process is subscribed again.
SubscribeAgain(x, es) ==
  /\ staticEvents' = [staticEvents EXCEPT ![x] = @ \cup es]
  /\ subscribers' = [e \in Event |->
       IF e \in es THEN [subscribers[e] EXCEPT ![x] = @ + 1] ELSE subscribers[e]]

\* schedule_static_event(): the events that the process is subscribed to are skipped.
Subscribe(x, es) ==
  /\ staticEvents' = [staticEvents EXCEPT ![x] = @ \cup es]
  /\ subscribers' = [e \in Event |->
       IF e \in es \ staticEvents[x]
       THEN [subscribers[e] EXCEPT ![x] = @ + 1] ELSE subscribers[e]]

\* always() of an event of a signal, or of what a port exposes. While elaborate() runs,
\* the finalize() of a model of the user calls it, between those of two ports.
Always(x, n, edge) ==
  /\ phase = "elaborating" => frames = <<>>
  /\ items > 0
  /\ Subscribe(x, {<<IF n \in Port THEN exposed[n] ELSE n, edge>>})
  /\ asked' = [asked EXCEPT ![x] = @ \cup {<<n, edge>>}]
  /\ items' = items - 1
  /\ UNCHANGED <<elabVars, models, bindVars, exposed, completed>>

\* unsubscribe_static() removes every entry of the process.
Cancel(x) ==
  subscribers' = [e \in Event |-> IF e \in staticEvents[x]
                                  THEN [subscribers[e] EXCEPT ![x] = 0] ELSE subscribers[e]]

\* A coroutine completes, or its process is removed: cancel_static_events().
Complete(x) ==
  /\ phase # "elaborating"
  /\ x \notin completed
  /\ Cancel(x)
  /\ staticEvents' = [staticEvents EXCEPT ![x] = {}]
  /\ completed' = completed \cup {x}
  /\ UNCHANGED <<elabVars, models, bindVars, exposed, items, asked>>
-----------------------------------------------------------------------------
(***************************************************************************)
(* Context::elaborate() and PortBase::resolve().                           *)
(***************************************************************************)
Elaborate ==
  /\ phase # "elaborating"
  /\ phase' = "elaborating"
  /\ next' = 1
  /\ UNCHANGED <<frames, models, bindVars, exposed, subVars, completed, items, asked>>

Top == frames[Len(frames)]

SetTop(f) == [frames EXCEPT ![Len(frames)] = f]

\* The port that the innermost call has searched last.
Candidate == boundPorts[Top.port][Top.searched]

StartResolve ==
  /\ phase = "elaborating"
  /\ frames = <<>>
  /\ next <= Len(models)
  /\ frames' = <<[port |-> models[next], searched |-> 0]>>
  /\ UNCHANGED <<phase, next, models, bindVars, exposed, subVars, completed, items, asked>>

\* The next port is to be searched, as the last one has no signal.
Searching ==
  /\ frames # <<>>
  /\ boundSignal[Top.port] = None
  /\ Top.searched < Len(boundPorts[Top.port])
  /\ Top.searched > 0 => boundSignal[Candidate] = None

\* Mutant of Descend: the ports that a bound port is bound to are not searched.
DescendNot ==
  /\ Searching
  /\ frames' = SetTop([Top EXCEPT !.searched = @ + 1])
  /\ UNCHANGED <<phase, next, models, bindVars, exposed, subVars, completed, items, asked>>

\* resolve() is called for the next port.
Descend ==
  /\ Searching
  /\ frames' = Append(SetTop([Top EXCEPT !.searched = @ + 1]),
                      [port |-> boundPorts[Top.port][Top.searched + 1], searched |-> 0])
  /\ UNCHANGED <<phase, next, models, bindVars, exposed, subVars, completed, items, asked>>

\* The port searched last has a signal, which ends the loop.
Adopt ==
  /\ frames # <<>>
  /\ boundSignal[Top.port] = None
  /\ Top.searched > 0
  /\ boundSignal[Candidate] # None
  /\ boundSignal' = [boundSignal EXCEPT ![Top.port] = boundSignal[Candidate]]
  /\ UNCHANGED <<elabVars, models, boundPorts, direct, binds, exposed, subVars, completed,
                 items, asked>>

\* resolve() returns: the port has a signal, or there is nothing left to search.
Resolved ==
  /\ frames # <<>>
  /\ \/ boundSignal[Top.port] # None
     \/ /\ Top.searched = Len(boundPorts[Top.port])
        /\ Top.searched > 0 => boundSignal[Candidate] = None

\* The call returns to the one that is searching.
Return ==
  /\ Resolved
  /\ Len(frames) > 1
  /\ frames' = Front(frames)
  /\ UNCHANGED <<phase, next, models, bindVars, exposed, subVars, completed, items, asked>>

\* Mutant of HandOver: the subscribers of the port stay with it.
HandOverNobody(p, s) ==
  /\ exposed' = [exposed EXCEPT ![p] = s]
  /\ UNCHANGED subVars

\* update_bound_signal_subscribers(): every process that is subscribed to an event of the
\* port subscribes to the event of the signal.
HandOver(p, s) ==
  LET new(x) == {<<s, edge>> : edge \in {k \in Edge : subscribers[<<p, k>>][x] > 0}}
  IN
  /\ exposed' = [exposed EXCEPT ![p] = s]
  /\ staticEvents' = [x \in Process |-> staticEvents[x] \cup new(x)]
  /\ subscribers' = [e \in Event |-> [x \in Process |->
       IF e \in new(x) \ staticEvents[x] THEN subscribers[e][x] + 1 ELSE subscribers[e][x]]]

\* The outermost resolve() returns, which ends the finalize() of the port.
Finalize ==
  /\ Resolved
  /\ Len(frames) = 1
  /\ frames' = <<>>
  /\ next' = next + 1
  /\ LET s == boundSignal[Top.port]
     IN IF s # None THEN HandOver(Top.port, s) ELSE UNCHANGED <<exposed, subVars>>
  /\ UNCHANGED <<phase, models, bindVars, completed, items, asked>>

EndElaborate ==
  /\ phase = "elaborating"
  /\ frames = <<>>
  /\ next = Len(models) + 1
  /\ phase' = "elaborated"
  /\ UNCHANGED <<next, frames, models, bindVars, exposed, subVars, completed, items, asked>>

\* The finalize() of a model of the user throws.
Throw ==
  /\ phase = "elaborating"
  /\ frames = <<>>
  /\ phase' = "failed"
  /\ next' = 1
  /\ UNCHANGED <<frames, models, bindVars, exposed, subVars, completed, items, asked>>

Elaborating ==
  StartResolve \/ Descend \/ Adopt \/ Return \/ Finalize \/ EndElaborate \/ Throw

Call ==
  \/ \E p \in Port, s \in Signal : BindSignal(p, s)
  \/ \E p, parent \in Port : BindPort(p, parent)
  \/ \E x \in Process, n \in Node, edge \in Edge : Always(x, n, edge)
  \/ \E x \in Process : Complete(x)
  \/ Elaborate

Next == Elaborating \/ Call

Spec == Init /\ [][Next]_vars
-----------------------------------------------------------------------------
(***************************************************************************)
(* Properties.                                                             *)
(***************************************************************************)

\* No signal is bound to p, nor to any port that it leads to: p is in a set of ports that
\* are bound to ports of the set only.
Unconnected(p) ==
  \E ps \in SUBSET Port :
    /\ p \in ps
    /\ \A r \in ps : direct[r] = None /\ \A i \in DOMAIN boundPorts[r] : boundPorts[r][i] \in ps

(***************************************************************************)
(* Elaboration connects every port that can be connected, whatever the     *)
(* order in which the ports were constructed, bound and resolved: a port   *)
(* is left without a signal only if no chain of bindings leads to one.     *)
(***************************************************************************)
ConnectedAreBound ==
  phase = "elaborated" => \A p \in Port : boundSignal[p] = None <=> Unconnected(p)

(***************************************************************************)
(* The ends of a binding agree: a port shows the signal it was bound to,   *)
(* or that of the first of its ports that has one.                         *)
(***************************************************************************)
EndsAgree ==
  phase = "elaborated" => \A p \in Port :
    IF direct[p] # None THEN boundSignal[p] = direct[p]
    ELSE \A i \in DOMAIN boundPorts[p] :
           (\A j \in 1..(i - 1) : boundSignal[boundPorts[p][j]] = None) =>
             boundSignal[p] = boundSignal[boundPorts[p][i]] \/ boundSignal[boundPorts[p][i]] = None

Shown(n) == IF n \in Port THEN boundSignal[n] ELSE n

(***************************************************************************)
(* A process hears the signals that the ports of its sensitivity list      *)
(* show, and no others, whether it was made sensitive to a port before the *)
(* port was bound, during elaboration or after it.                         *)
(***************************************************************************)
HearsWhatItAskedFor ==
  phase = "elaborated" => \A x \in Process \ completed :
    staticEvents[x] \cap (Signal \X Edge)
      = {<<Shown(e[1]), e[2]>> : e \in {a \in asked[x] : Shown(a[1]) # None}}

(***************************************************************************)
(* A process is subscribed once to each event of its list and to no other, *)
(* so that an event schedules it once and its completion leaves no entry,  *)
(* also when several of its ports show the same signal and when elaborate  *)
(* is called again.                                                        *)
(***************************************************************************)
SubscribedOnce ==
  \A e \in Event, x \in Process :
    subscribers[e][x] = IF e \in staticEvents[x] THEN 1 ELSE 0

(***************************************************************************)
(* resolve() is not called for a port that it is resolving already: its    *)
(* recursion leads out of the hierarchy of modules, so that it ends.       *)
(***************************************************************************)
NotReentered ==
  \A i, j \in DOMAIN frames : frames[i].port = frames[j].port => i = j
=============================================================================
