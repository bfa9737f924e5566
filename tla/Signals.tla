------------------------------- MODULE Signals -------------------------------
(***************************************************************************)
(* Signals, derived signals and channels, and the update phase of the      *)
(* kernel that commits them.  The processes of the evaluation phase appear *)
(* as the writes they make, in every order.                                *)
(*                                                                         *)
(* phase is the place in run() and eval() that control has reached:        *)
(*   idle      the test bench has control                                  *)
(*   evaluate  processes are evaluated                                     *)
(*   update    in update_signals()                                         *)
(*   trigger   the events that were raised are triggered                   *)
(***************************************************************************)
EXTENDS BitViews, FiniteSets, SequencesExt

CONSTANTS
  Channel,   \* user-defined channels
  Item,      \* what can be put into a channel
  MaxWrites  \* bound: how many writes, puts and initializations are made

ASSUME ChannelAssumption ==
  /\ IsFiniteSet(Derived)
  /\ IsFiniteSet(Channel)
  /\ Channel \cap Signal = {}
  /\ MaxWrites \in Nat

VARIABLES
  phase,        \* the place in the code that control has reached
  initialized,  \* initialized_
  d,            \* the pending value of each signal
  q,            \* the committed value of each signal
  updateStack,  \* signal_update_stack_
  postStack,    \* post_update_stack_, the top is last
  slot,         \* what was put into each channel
  mail,         \* what each channel shows
  eventStack,   \* sensitivity_event_stack_, as a set
  writes,       \* writes that may still be made
  before        \* history: what was visible at the start of the update phase

vars == <<phase, initialized, d, q, updateStack, postStack, slot, mail, eventStack,
          writes, before>>

signalVars == <<d, q>>

Visible ==
  [values |-> q, mail |-> mail, events |-> eventStack,
   asked |-> Range(postStack) \cap Channel]

\* Each signal has a value of its width, and nothing is on a stack twice.
TypeOK ==
  /\ phase \in {"idle", "evaluate", "update", "trigger"}
  /\ initialized \in BOOLEAN
  /\ {d, q} \subseteq [Signal -> SUBSET Nat]
  /\ \A s \in Signal : d[s] \in Value(s) /\ q[s] \in Value(s)
  /\ updateStack \subseteq Source
  /\ postStack \in Seq(Derived \cup Channel)
  /\ \A i, j \in DOMAIN postStack : postStack[i] = postStack[j] => i = j
  /\ slot \in [Channel -> Item]
  /\ mail \in [Channel -> Item]
  /\ eventStack \subseteq (Signal \cup Channel) \X {"change", "pos", "neg", "written"}
  /\ writes \in 0..MaxWrites

Init ==
  /\ phase = "idle"
  /\ initialized = FALSE
  /\ d = [s \in Signal |-> {}]
  /\ q = [s \in Signal |-> {}]
  /\ updateStack = {}
  /\ postStack = <<>>
  /\ slot \in [Channel -> Item]
  /\ mail = slot
  /\ eventStack = {}
  /\ writes = MaxWrites
  /\ before = Visible
-----------------------------------------------------------------------------
(***************************************************************************)
(* What processes do in the evaluation phase, and the test bench between   *)
(* two runs.                                                               *)
(***************************************************************************)
MayWrite == phase \in {"idle", "evaluate"} /\ writes > 0

\* Signal::write()
Write(s, x) ==
  /\ MayWrite
  /\ d' = [d EXCEPT ![s] = x]
  /\ updateStack' = IF x # q[s] THEN updateStack \cup {s} ELSE updateStack
  /\ writes' = writes - 1
  /\ UNCHANGED <<phase, initialized, q, postStack, slot, mail, eventStack, before>>

\* Signal::write() of a derived signal, which BitSel::write() writes through to the
\* sources. A source that one part of the selection changes and a later one changes
\* back stays scheduled.
WriteThrough(s, x) ==
  LET new == Overlay(s, x, d)
  IN
  /\ MayWrite
  /\ d' = [a \in Signal |-> IF a \in Source THEN new[a] ELSE d[a]]
  /\ \E back \in SUBSET {a \in Parts(s) : new[a] = q[a]} :
       updateStack' = updateStack \cup {a \in Parts(s) : new[a] # q[a]} \cup back
  /\ writes' = writes - 1
  /\ UNCHANGED <<phase, initialized, q, postStack, slot, mail, eventStack, before>>

\* Mutant of Refresh: the derived signals keep their values.
RefreshNot(s, values) == values

\* refresh_dependents(): the derived signals are recomputed from the source s.
Refresh(s, values) ==
  [a \in Signal |-> IF a \in Dependents(s) THEN View(a, values) ELSE values[a]]

\* Signal::init(), which throws for a derived signal.
Initialize(s, x) ==
  /\ phase = "idle" /\ writes > 0
  /\ q' = Refresh(s, [q EXCEPT ![s] = x])
  /\ d' = [a \in Signal |-> IF a = s \/ a \in Dependents(s) THEN q'[a] ELSE d[a]]
  /\ writes' = writes - 1
  /\ UNCHANGED <<phase, initialized, updateStack, postStack, slot, mail, eventStack,
                 before>>

\* push_back() to the stack, which ignores what is on it already, in some order.
PushPost(us) ==
  \E added \in SetToSeqs(us \ Range(postStack)) : postStack' = postStack \o added

\* A process puts an item into a channel, which calls request_update().
Put(c, v) ==
  /\ MayWrite
  /\ slot' = [slot EXCEPT ![c] = v]
  /\ PushPost({c})
  /\ writes' = writes - 1
  /\ UNCHANGED <<phase, initialized, d, q, updateStack, mail, eventStack, before>>
-----------------------------------------------------------------------------
(***************************************************************************)
(* run() and eval().                                                       *)
(***************************************************************************)
\* do_initialize(): the first run starts with an update phase.
FirstRun ==
  /\ phase = "idle"
  /\ ~initialized
  /\ phase' = "update"
  /\ before' = Visible
  /\ UNCHANGED <<initialized, signalVars, updateStack, postStack, slot, mail, eventStack,
                 writes>>

\* eval() starts a delta cycle if there is anything to do, which may be that processes
\* are scheduled.
StartRound ==
  /\ phase = "idle"
  /\ initialized
  /\ phase' = "evaluate"
  /\ UNCHANGED <<initialized, signalVars, updateStack, postStack, slot, mail, eventStack,
                 writes, before>>

\* A process throws, which leaves run().
Throw ==
  /\ phase = "evaluate"
  /\ phase' = "idle"
  /\ UNCHANGED <<initialized, signalVars, updateStack, postStack, slot, mail, eventStack,
                 writes, before>>

StartUpdate ==
  /\ phase = "evaluate"
  /\ phase' = "update"
  /\ before' = Visible
  /\ UNCHANGED <<initialized, signalVars, updateStack, postStack, slot, mail, eventStack,
                 writes>>

\* Mutant of UpdateSignal: the derived signals are recomputed with each source.
UpdateSignalAtOnce(s) ==
  LET values == Refresh(s, [q EXCEPT ![s] = d[s]])
  IN
  /\ phase = "update"
  /\ s \in updateStack
  /\ updateStack' = updateStack \ {s}
  /\ q' = values
  /\ d' = [a \in Signal |-> IF a \in Source THEN d[a] ELSE values[a]]
  /\ eventStack' = eventStack \cup UNION {Events(a, q[a], values[a]) : a \in Signal}
  /\ UNCHANGED <<phase, initialized, postStack, slot, mail, writes, before>>

\* Signal::update() of a source on the stack.
UpdateSignal(s) ==
  /\ phase = "update"
  /\ s \in updateStack
  /\ updateStack' = updateStack \ {s}
  /\ q' = [q EXCEPT ![s] = d[s]]
  /\ eventStack' = eventStack \cup Events(s, q[s], d[s])
  /\ IF d[s] = q[s] THEN UNCHANGED postStack ELSE PushPost(Dependents(s))
  /\ UNCHANGED <<phase, initialized, d, slot, mail, writes, before>>

\* Mutant of Popped: the stack is a queue.
PoppedFirst(u) == u = Head(postStack) /\ postStack' = Tail(postStack)

Popped(u) ==
  /\ u = postStack[Len(postStack)]
  /\ postStack' = SubSeq(postStack, 1, Len(postStack) - 1)

\* DerivedSignal::commit()
CommitDerived(s) ==
  /\ phase = "update"
  /\ updateStack = {} /\ postStack # <<>>
  /\ Popped(s)
  /\ d' = [d EXCEPT ![s] = View(s, q)]
  /\ q' = [q EXCEPT ![s] = View(s, q)]
  /\ eventStack' = eventStack \cup Events(s, q[s], View(s, q))
  /\ UNCHANGED <<phase, initialized, updateStack, slot, mail, writes, before>>

\* Channel::commit(): the channel shows what was put into it, and notifies its event.
CommitChannel(c) ==
  /\ phase = "update"
  /\ updateStack = {} /\ postStack # <<>>
  /\ Popped(c)
  /\ mail' = [mail EXCEPT ![c] = slot[c]]
  /\ eventStack' = eventStack \cup {<<c, "written">>}
  /\ UNCHANGED <<phase, initialized, signalVars, updateStack, slot, writes, before>>

\* update_signals() returns to do_initialize() or to the loop of eval().
EndUpdate ==
  /\ phase = "update"
  /\ updateStack = {} /\ postStack = <<>>
  /\ initialized' = TRUE
  /\ phase' = IF initialized THEN "trigger" ELSE "evaluate"
  /\ UNCHANGED <<signalVars, updateStack, postStack, slot, mail, eventStack, writes,
                 before>>

\* All events of the stack are triggered. Another round follows if one of them has woken
\* a process.
Trigger ==
  /\ phase = "trigger"
  /\ eventStack' = {}
  /\ \/ phase' = "idle"
     \/ eventStack # {} /\ phase' = "evaluate"
  /\ UNCHANGED <<initialized, signalVars, updateStack, postStack, slot, mail, writes,
                 before>>

Call ==
  \/ \E s \in Source : \E x \in Value(s) : Write(s, x) \/ Initialize(s, x)
  \/ \E s \in Derived : \E x \in Value(s) : WriteThrough(s, x)
  \/ \E c \in Channel, v \in Item : Put(c, v)

Commit ==
  \/ \E s \in Source : UpdateSignal(s)
  \/ \E s \in Derived : CommitDerived(s)
  \/ \E c \in Channel : CommitChannel(c)

Next == Call \/ FirstRun \/ StartRound \/ Throw \/ StartUpdate \/ Commit \/ EndUpdate \/ Trigger

Spec == Init /\ [][Next]_vars
-----------------------------------------------------------------------------
(***************************************************************************)
(* Properties.                                                             *)
(***************************************************************************)

(***************************************************************************)
(* Outside the update phase, a derived signal is its selection of the      *)
(* values that its sources show: whichever of them were written, written   *)
(* through or initialized, and whatever has thrown in between.             *)
(***************************************************************************)
DerivedConsistent == phase # "update" => \A s \in Derived : q[s] = View(s, q)

(***************************************************************************)
(* No write is lost: a source whose pending value differs from its         *)
(* committed one is on the stack of the update phase.                      *)
(***************************************************************************)
PendingScheduled == \A s \in Source : d[s] # q[s] => s \in updateStack

(***************************************************************************)
(* A channel commits when every signal shows its new value, the derived    *)
(* ones included: what its update() reads is the design of the next delta  *)
(* cycle.  The derived signals are on the same stack as the channels, so   *)
(* this rests on the order of that stack.                                  *)
(***************************************************************************)
ChannelSeesCommitted ==
  [][\A c \in Channel : c \in Range(postStack) /\ c \notin Range(postStack') =>
       /\ \A s \in Source : q[s] = d[s]
       /\ \A s \in Derived : q[s] = View(s, q)]_vars

(***************************************************************************)
(* The update phase is atomic for the rest of the program: its many steps  *)
(* implement the one step of AtomicUpdate.  In particular, a signal that   *)
(* is derived from several sources changes once when they change together, *)
(* and a write to a view combines with the writes to its sources.          *)
(***************************************************************************)
Shown == IF phase = "update" THEN before ELSE Visible

Atomic == INSTANCE AtomicUpdate WITH
  next   <- [s \in Source |-> d[s]],
  now    <- Shown.values,
  posted <- slot,
  mail   <- Shown.mail,
  asked  <- Shown.asked,
  events <- Shown.events

IsAtomic == Atomic!Spec
=============================================================================
