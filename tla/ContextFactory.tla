--------------------------- MODULE ContextFactory ---------------------------
(***************************************************************************)
(* ContextFactory: the construction lock that decides which context new    *)
(* models register with.  Threads construct designs at the same time.  A   *)
(* mutex guards the active context and its owner, and a condition variable *)
(* is notified when the active context is released, after the mutex.       *)
(*                                                                         *)
(* pc[t] is the place in the code that thread t has reached:               *)
(*   idle     outside the factory                                          *)
(*   create   in create(), before it locks the mutex                       *)
(*   wait     in create(), blocked in released.wait()                      *)
(*   recheck  in create(), awake, before it locks the mutex again          *)
(*   release  in release_active(), before it locks the mutex               *)
(*   notify   in release_active(), after it has unlocked the mutex         *)
(***************************************************************************)
EXTENDS Naturals, FiniteSets

CONSTANTS
  Thread,       \* the threads that construct designs
  Factory,      \* the factories; there is one unless the global one is replaced
  Main,         \* the factory that is global first
  MaxContexts,  \* bound: how many contexts are created altogether
  None          \* nullptr, and no thread

ASSUME FactoryAssumption ==
  /\ Main \in Factory
  /\ MaxContexts \in Nat
  /\ None \notin Thread

\* The contexts, numbered in the order of their creation by any factory.
Context == 1..MaxContexts

ASSUME NoneAssumption == None \notin Context

VARIABLES
  global,     \* global_context_factory
  active,     \* State::active_context of each factory
  owner,      \* State::owner
  pc,         \* the place in the code that each thread has reached
  factory,    \* the factory that the call works on
  target,     \* the context that release() was called with; reset() has none
  obtained,   \* the context that a model being constructed got from obtain()
  creator,    \* history: the thread that created the context, or None
  elaborated  \* elaborated_

lockVars == <<active, owner, creator>>
callVars == <<pc, factory, target>>
vars     == <<global, lockVars, callVars, obtained, elaborated>>

Place == {"idle", "create", "wait", "recheck", "release", "notify"}

TypeOK ==
  /\ global \in Factory
  /\ active \in [Factory -> Context \cup {None}]
  /\ owner \in [Factory -> Thread \cup {None}]
  /\ pc \in [Thread -> Place]
  /\ factory \in [Thread -> Factory]
  /\ target \in [Thread -> Context \cup {None}]
  /\ obtained \in [Thread -> Context \cup {None}]
  /\ creator \in [Context -> Thread \cup {None}]
  /\ elaborated \in [Context -> BOOLEAN]

Init ==
  /\ global = Main
  /\ active = [f \in Factory |-> None]
  /\ owner = [f \in Factory |-> None]
  /\ pc = [t \in Thread |-> "idle"]
  /\ factory = [t \in Thread |-> Main]
  /\ target = [t \in Thread |-> None]
  /\ obtained = [t \in Thread |-> None]
  /\ creator = [c \in Context |-> None]
  /\ elaborated = [c \in Context |-> FALSE]

Goto(t, place) ==
  /\ pc' = [pc EXCEPT ![t] = place]
  /\ UNCHANGED <<factory, target>>

\* The call returns or throws, and its locals go out of scope.
Return(t) ==
  /\ pc' = [pc EXCEPT ![t] = "idle"]
  /\ factory' = [factory EXCEPT ![t] = Main]
  /\ target' = [target EXCEPT ![t] = None]
-----------------------------------------------------------------------------
(***************************************************************************)
(* create()                                                                *)
(***************************************************************************)

\* The threads that are in create() of some factories.
Creating(fs) == {t \in Thread : pc[t] \in {"create", "wait", "recheck"} /\ factory[t] \in fs}

\* get_global_context_factory()->create()
CallCreate(t) ==
  /\ pc[t] = "idle"
  /\ Cardinality(Creating(Factory)) < Cardinality({c \in Context : creator[c] = None})
  /\ pc' = [pc EXCEPT ![t] = "create"]
  /\ factory' = [factory EXCEPT ![t] = global]
  /\ UNCHANGED <<global, lockVars, target, obtained, elaborated>>

\* Waiting for a context that this thread is constructing would deadlock: it throws.
Refuse(t) ==
  /\ pc[t] = "create"
  /\ active[factory[t]] # None
  /\ owner[factory[t]] = t
  /\ Return(t)
  /\ UNCHANGED <<global, lockVars, obtained, elaborated>>

\* The test of the wait fails, which unlocks the mutex.
Block(t) ==
  /\ \/ pc[t] = "create" /\ owner[factory[t]] # t
     \/ pc[t] = "recheck"
  /\ active[factory[t]] # None
  /\ Goto(t, "wait")
  /\ UNCHANGED <<global, lockVars, obtained, elaborated>>

\* A condition variable may wake a thread that was not notified.
WakeSpuriously(t) ==
  /\ pc[t] = "wait"
  /\ Goto(t, "recheck")
  /\ UNCHANGED <<global, lockVars, obtained, elaborated>>

\* Mutant of MayActivate: a thread that has been woken does not test again.
MayActivateWoken(t) == pc[t] = "recheck" \/ (pc[t] = "create" /\ active[factory[t]] = None)

MayActivate(t) == pc[t] \in {"create", "recheck"} /\ active[factory[t]] = None

Activate(t, c) ==
  /\ MayActivate(t)
  /\ creator[c] = None /\ \A d \in Context : d < c => creator[d] # None
  /\ active' = [active EXCEPT ![factory[t]] = c]
  /\ owner' = [owner EXCEPT ![factory[t]] = t]
  /\ creator' = [creator EXCEPT ![c] = t]
  /\ Return(t)
  /\ UNCHANGED <<global, obtained, elaborated>>
-----------------------------------------------------------------------------
(***************************************************************************)
(* obtain(), and the model that registers with the context it returns.     *)
(***************************************************************************)
\* Mutant of MayObtain: a thread obtains the active context of another one.
MayObtainAny(t) == active[global] # None

MayObtain(t) == active[global] # None /\ owner[global] = t

Obtain(t) ==
  /\ pc[t] = "idle"
  /\ obtained[t] = None
  /\ MayObtain(t)
  /\ obtained' = [obtained EXCEPT ![t] = active[global]]
  /\ UNCHANGED <<global, lockVars, callVars, elaborated>>

RegisterModel(t) ==
  /\ obtained[t] # None
  /\ obtained' = [obtained EXCEPT ![t] = None]
  /\ UNCHANGED <<global, lockVars, callVars, elaborated>>
-----------------------------------------------------------------------------
(***************************************************************************)
(* release_active(): called by release(), reset() and elaborate().         *)
(***************************************************************************)
StartRelease(t, c) ==
  /\ pc[t] = "idle"
  /\ obtained[t] = None
  /\ pc' = [pc EXCEPT ![t] = "release"]
  /\ factory' = [factory EXCEPT ![t] = global]
  /\ target' = [target EXCEPT ![t] = c]
  /\ UNCHANGED <<global, lockVars, obtained>>

\* A context can be released by any thread that holds a reference to it.
CallRelease(t, c) ==
  /\ creator[c] # None
  /\ StartRelease(t, c)
  /\ UNCHANGED elaborated

CallReset(t) == StartRelease(t, None) /\ UNCHANGED elaborated

\* elaborate() releases the context whether it succeeds or throws.
Elaborate(t, c) ==
  /\ creator[c] = t
  /\ StartRelease(t, c)
  /\ \E success \in BOOLEAN :
       elaborated' = [elaborated EXCEPT ![c] = @ \/ success]

\* Mutant of Accepts: release() discards whatever is active.
AcceptsAny(t) == TRUE

Accepts(t) == target[t] \in {None, active[factory[t]]}

Deactivate(t) ==
  /\ pc[t] = "release"
  /\ Accepts(t)
  /\ active' = [active EXCEPT ![factory[t]] = None]
  /\ owner' = [owner EXCEPT ![factory[t]] = None]
  /\ Goto(t, "notify")
  /\ UNCHANGED <<global, creator, obtained, elaborated>>

Keep(t) ==
  /\ pc[t] = "release"
  /\ ~Accepts(t)
  /\ Return(t)
  /\ UNCHANGED <<global, lockVars, obtained, elaborated>>

\* Mutant of NotifyAll: nobody is notified.
NotifyNobody(t) ==
  /\ pc[t] = "notify"
  /\ Return(t)
  /\ UNCHANGED <<global, lockVars, obtained, elaborated>>

NotifyAll(t) ==
  /\ pc[t] = "notify"
  /\ pc' = [u \in Thread |-> IF u = t THEN "idle"
                             ELSE IF pc[u] = "wait" /\ factory[u] = factory[t] THEN "recheck"
                             ELSE pc[u]]
  /\ factory' = [factory EXCEPT ![t] = Main]
  /\ target' = [target EXCEPT ![t] = None]
  /\ UNCHANGED <<global, lockVars, obtained, elaborated>>
-----------------------------------------------------------------------------
\* set_global_context_factory()
SetGlobal(f) ==
  /\ f # global
  /\ global' = f
  /\ UNCHANGED <<lockVars, callVars, obtained, elaborated>>

\* The call that a thread is in takes its next step.
Inside(t) ==
  \/ Refuse(t)
  \/ Block(t)
  \/ \E c \in Context : Activate(t, c)
  \/ Deactivate(t)
  \/ Keep(t)
  \/ NotifyAll(t)

Call(t) ==
  \/ CallCreate(t)
  \/ Obtain(t)
  \/ RegisterModel(t)
  \/ CallReset(t)
  \/ \E c \in Context : CallRelease(t, c) \/ Elaborate(t, c)

Next ==
  \/ \E t \in Thread : Inside(t) \/ Call(t) \/ WakeSpuriously(t)
  \/ \E f \in Factory : SetGlobal(f)

Spec     == Init /\ [][Next]_vars
FairSpec == Spec /\ \A t \in Thread : WF_vars(Inside(t))
-----------------------------------------------------------------------------
(***************************************************************************)
(* Properties.                                                             *)
(***************************************************************************)

(***************************************************************************)
(* A thread's models only ever register with contexts that this thread has *)
(* created, whatever the other threads reset and create between the call   *)
(* of obtain() and the registration.                                       *)
(***************************************************************************)
RegistersWithOwn ==
  \A t \in Thread : obtained[t] # None => creator[obtained[t]] = t

(***************************************************************************)
(* The owner is the thread that created the active context, and there is   *)
(* one exactly while a context is active: create() tests the owner of a    *)
(* context that may have been discarded by another thread.                 *)
(***************************************************************************)
OwnerCreatedActive ==
  \A f \in Factory :
    IF active[f] = None THEN owner[f] = None
    ELSE owner[f] # None /\ creator[active[f]] = owner[f]

(***************************************************************************)
(* No thread waits for a context that it is constructing itself.           *)
(***************************************************************************)
NoSelfWait == \A t \in Thread : pc[t] \in {"wait", "recheck"} => owner[factory[t]] # t

(***************************************************************************)
(* The call of elaborate() or release() that comes late, when its context  *)
(* has been discarded and another thread constructs the next one, leaves   *)
(* that one alone: only reset() ends a construction that the call is not   *)
(* about.                                                                  *)
(***************************************************************************)
ReleasesItsTarget ==
  [][\A f \in Factory : active[f] # None /\ active'[f] # active[f] =>
       \E t \in Thread : /\ pc[t] = "release" /\ pc'[t] = "notify"
                         /\ target[t] \in {None, active[f]}]_vars

(***************************************************************************)
(* No wakeup is lost between the mutex, which is unlocked first, and the   *)
(* notification: while a thread sleeps although no context is active,      *)
(* another thread is about to notify.                                      *)
(***************************************************************************)
WaitersAreNotified ==
  \A t \in Thread : pc[t] = "wait" /\ active[factory[t]] = None =>
    \E u \in Thread : pc[u] = "notify" /\ factory[u] = factory[t]

(***************************************************************************)
(* The factory is a construction lock: its steps are steps of the lock,    *)
(* and a lock that is free is taken while threads wait for it.             *)
(***************************************************************************)
Lock == INSTANCE ConstructionLock WITH
  holder  <- owner[Main],
  wanting <- Creating({Main})

IsConstructionLock == Lock!FairSpec
=============================================================================
