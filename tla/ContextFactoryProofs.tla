------------------------- MODULE ContextFactoryProofs -------------------------
(***************************************************************************)
(* Proofs about ContextFactory, for every number of threads, factories and *)
(* contexts.                                                               *)
(***************************************************************************)
EXTENDS ContextFactory, TLAPS

\* What the invariants rest on: ownership, and the place of the threads.
FactoryInv == TypeOK /\ OwnerCreatedActive

LEMMA FactoryInvInit == Init => FactoryInv
  BY FactoryAssumption, NoneAssumption
  DEF Init, FactoryInv, TypeOK, OwnerCreatedActive, Place

LEMMA TypeStep == TypeOK /\ [Next]_vars => TypeOK'
<1> SUFFICES ASSUME TypeOK, [Next]_vars
             PROVE  TypeOK'
  OBVIOUS
<1> USE FactoryAssumption DEF TypeOK, Place
<1>1. ASSUME NEW t \in Thread, Inside(t)
      PROVE  TypeOK'
  <2>1. CASE Refuse(t) \/ Keep(t) \/ NotifyAll(t)
    BY <2>1 DEF Refuse, Keep, NotifyAll, Return, lockVars
  <2>2. CASE Block(t)
    BY <2>2 DEF Block, Goto, lockVars
  <2>3. ASSUME NEW c \in Context, Activate(t, c)
        PROVE  TypeOK'
    BY <2>3 DEF Activate, Return
  <2>4. CASE Deactivate(t)
    BY <2>4 DEF Deactivate, Goto
  <2> QED
    BY <1>1, <2>1, <2>2, <2>3, <2>4 DEF Inside
<1>2. ASSUME NEW t \in Thread, Call(t)
      PROVE  TypeOK'
  <2>1. CASE CallCreate(t)
    BY <2>1 DEF CallCreate, lockVars
  <2>2. CASE Obtain(t)
    BY <2>2 DEF Obtain, lockVars, callVars
  <2>3. CASE RegisterModel(t)
    BY <2>3 DEF RegisterModel, lockVars, callVars
  <2>4. CASE CallReset(t)
    BY <2>4 DEF CallReset, StartRelease, lockVars
  <2>5. ASSUME NEW c \in Context, CallRelease(t, c) \/ Elaborate(t, c)
        PROVE  TypeOK'
    BY <2>5 DEF CallRelease, Elaborate, StartRelease, lockVars
  <2> QED
    BY <1>2, <2>1, <2>2, <2>3, <2>4, <2>5 DEF Call
<1>3. ASSUME NEW t \in Thread, WakeSpuriously(t)
      PROVE  TypeOK'
  BY <1>3 DEF WakeSpuriously, Goto, lockVars
<1>4. ASSUME NEW f \in Factory, SetGlobal(f)
      PROVE  TypeOK'
  BY <1>4 DEF SetGlobal, lockVars, callVars
<1>5. CASE UNCHANGED vars
  BY <1>5 DEF vars, lockVars, callVars
<1> QED
  BY <1>1, <1>2, <1>3, <1>4, <1>5 DEF Next

\* Only two steps change what the mutex guards.
LEMMA LockSteps ==
  ASSUME [Next]_vars
  PROVE  \/ UNCHANGED lockVars
         \/ \E t \in Thread : Deactivate(t)
         \/ \E t \in Thread, c \in Context : Activate(t, c)
  BY DEF Next, Inside, Call, Refuse, Block, Keep, NotifyAll, CallCreate, Obtain, RegisterModel,
         CallReset, CallRelease, Elaborate, StartRelease, WakeSpuriously, SetGlobal, vars

LEMMA OwnerStep == FactoryInv /\ [Next]_vars => OwnerCreatedActive'
<1> SUFFICES ASSUME FactoryInv, [Next]_vars
             PROVE  OwnerCreatedActive'
  OBVIOUS
<1> USE FactoryAssumption, NoneAssumption DEF FactoryInv, TypeOK, OwnerCreatedActive
<1>1. CASE UNCHANGED lockVars
  BY <1>1 DEF lockVars
<1>2. ASSUME NEW t \in Thread, Deactivate(t)
      PROVE  OwnerCreatedActive'
  BY <1>2 DEF Deactivate
<1>3. ASSUME NEW t \in Thread, NEW c \in Context, Activate(t, c)
      PROVE  OwnerCreatedActive'
  BY <1>3 DEF Activate
<1> QED
  BY <1>1, <1>2, <1>3, LockSteps

LEMMA FactoryCorrect == Spec => []FactoryInv
<1>1. FactoryInv /\ [Next]_vars => FactoryInv'
  BY TypeStep, OwnerStep DEF FactoryInv
<1> QED
  BY <1>1, FactoryInvInit, PTL DEF Spec

(***************************************************************************)
(* The owner that create() and obtain() compare with is the thread that    *)
(* created the active context.                                             *)
(***************************************************************************)
THEOREM OwnerCorrect == Spec => []OwnerCreatedActive
  BY FactoryCorrect, PTL DEF FactoryInv
-----------------------------------------------------------------------------
(***************************************************************************)
(* A thread registers its models with a context that it has created.  The  *)
(* owner is tested when the thread obtains the context, and a context has  *)
(* one creator for good.                                                   *)
(***************************************************************************)
THEOREM RegistersCorrect == Spec => []RegistersWithOwn
<1> USE FactoryAssumption, NoneAssumption DEF FactoryInv, TypeOK, RegistersWithOwn
<1>1. Init => RegistersWithOwn
  BY DEF Init
<1>2. FactoryInv /\ RegistersWithOwn /\ [Next]_vars => RegistersWithOwn'
  <2> SUFFICES ASSUME FactoryInv, RegistersWithOwn, [Next]_vars
               PROVE  RegistersWithOwn'
    OBVIOUS
  <2>1. ASSUME NEW t \in Thread, Obtain(t)
        PROVE  RegistersWithOwn'
    BY <2>1 DEF Obtain, MayObtain, OwnerCreatedActive, lockVars
  <2>2. ASSUME NEW t \in Thread, RegisterModel(t)
        PROVE  RegistersWithOwn'
    BY <2>2 DEF RegisterModel, lockVars
  <2>3. ASSUME NEW t \in Thread, NEW c \in Context, Activate(t, c)
        PROVE  RegistersWithOwn'
    BY <2>3 DEF Activate
  <2>4. CASE UNCHANGED <<obtained, creator>>
    BY <2>4
  <2>5. \/ UNCHANGED <<obtained, creator>>
        \/ \E t \in Thread : Obtain(t) \/ RegisterModel(t)
        \/ \E t \in Thread, c \in Context : Activate(t, c)
    BY DEF Next, Inside, Call, Refuse, Block, Keep, NotifyAll, Deactivate, CallCreate, CallReset,
           CallRelease, Elaborate, StartRelease, WakeSpuriously, SetGlobal, vars, lockVars
  <2> QED
    BY <2>1, <2>2, <2>3, <2>4, <2>5
<1> QED
  BY <1>1, <1>2, FactoryCorrect, PTL DEF Spec
-----------------------------------------------------------------------------
\* A step that sets no context free and puts no thread to sleep.
LEMMA SleepersKept ==
  ASSUME WaitersAreNotified,
         \A f \in Factory : active'[f] = None => active[f] = None,
         \A t \in Thread : /\ factory[t] \in Factory
                           /\ pc'[t] = "wait" => pc[t] = "wait" /\ factory'[t] = factory[t]
                           /\ pc[t] = "notify" => pc'[t] = "notify" /\ factory'[t] = factory[t]
  PROVE  WaitersAreNotified'
  BY DEF WaitersAreNotified

(***************************************************************************)
(* No wakeup is lost, although release_active() notifies after it has      *)
(* unlocked the mutex: only a thread that finds a context active goes to   *)
(* sleep, and whoever releases the context notifies after that.            *)
(***************************************************************************)
THEOREM NotifiedCorrect == Spec => []WaitersAreNotified
<1> USE FactoryAssumption, NoneAssumption DEF FactoryInv, TypeOK
<1>1. Init => WaitersAreNotified
  BY DEF Init, WaitersAreNotified
<1>2. FactoryInv /\ WaitersAreNotified /\ [Next]_vars => WaitersAreNotified'
  <2> SUFFICES ASSUME FactoryInv, WaitersAreNotified, [Next]_vars
               PROVE  WaitersAreNotified'
    OBVIOUS
  <2>1. ASSUME NEW t \in Thread, Block(t)
        PROVE  WaitersAreNotified'
    BY <2>1 DEF Block, Goto, lockVars, WaitersAreNotified
  <2>2. ASSUME NEW t \in Thread, Deactivate(t)
        PROVE  WaitersAreNotified'
    BY <2>2 DEF Deactivate, Goto, WaitersAreNotified
  <2>3. ASSUME NEW t \in Thread, NotifyAll(t)
        PROVE  WaitersAreNotified'
    BY <2>3 DEF NotifyAll, lockVars, WaitersAreNotified
  <2>4. ASSUME NEW t \in Thread, Refuse(t) \/ Keep(t) \/ WakeSpuriously(t)
        PROVE  WaitersAreNotified'
    BY <2>4, SleepersKept DEF Refuse, Keep, WakeSpuriously, Return, Goto, lockVars
  <2>5. ASSUME NEW t \in Thread, NEW c \in Context, Activate(t, c)
        PROVE  WaitersAreNotified'
    <3>1. \A f \in Factory : active'[f] = None => active[f] = None
      BY <2>5 DEF Activate
    <3> QED
      BY <2>5, <3>1, SleepersKept DEF Activate, MayActivate, Return
  <2>6. ASSUME NEW t \in Thread, Call(t)
        PROVE  WaitersAreNotified'
    <3>1. UNCHANGED active
      BY <2>6 DEF Call, CallCreate, Obtain, RegisterModel, CallReset, CallRelease, Elaborate,
                  StartRelease, lockVars
    <3>2. \/ UNCHANGED callVars
          \/ /\ pc[t] = "idle"
             /\ \E f \in Factory : factory' = [factory EXCEPT ![t] = f]
             /\ \E place \in {"create", "release"} : pc' = [pc EXCEPT ![t] = place]
      BY <2>6 DEF Call, CallCreate, Obtain, RegisterModel, CallReset, CallRelease, Elaborate,
                  StartRelease
    <3> QED
      BY <3>1, <3>2, SleepersKept DEF callVars
  <2>7. CASE UNCHANGED <<lockVars, callVars>>
    BY <2>7 DEF lockVars, callVars, WaitersAreNotified
  <2> QED
    BY <2>1, <2>2, <2>3, <2>4, <2>5, <2>6, <2>7 DEF Next, Inside, SetGlobal, vars
<1> QED
  BY <1>1, <1>2, FactoryCorrect, PTL DEF Spec
-----------------------------------------------------------------------------
(***************************************************************************)
(* A call of release() that comes late discards nobody else's context.     *)
(***************************************************************************)
THEOREM TargetCorrect == Spec => ReleasesItsTarget
<1> USE FactoryAssumption, NoneAssumption DEF FactoryInv, TypeOK
<1> DEFINE Kept == \A f \in Factory : active[f] # None /\ active'[f] # active[f] =>
                     \E t \in Thread : /\ pc[t] = "release" /\ pc'[t] = "notify"
                                       /\ target[t] \in {None, active[f]}
<1>1. FactoryInv /\ [Next]_vars => Kept
  <2> SUFFICES ASSUME FactoryInv, [Next]_vars
               PROVE  Kept
    OBVIOUS
  <2>1. ASSUME NEW t \in Thread, Deactivate(t)
        PROVE  Kept
    BY <2>1 DEF Deactivate, Accepts, Goto
  <2>2. ASSUME NEW t \in Thread, NEW c \in Context, Activate(t, c)
        PROVE  Kept
    BY <2>2 DEF Activate, MayActivate
  <2>3. CASE UNCHANGED lockVars
    BY <2>3 DEF lockVars
  <2> QED
    BY <2>1, <2>2, <2>3, LockSteps
<1>2. FactoryInv /\ [Next]_vars => [Kept]_vars
  BY <1>1
<1> QED
  BY <1>2, FactoryCorrect, PTL DEF Spec, ReleasesItsTarget
-----------------------------------------------------------------------------
(***************************************************************************)
(* create() never waits for a construction of the calling thread, which    *)
(* would deadlock: the owner is tested once, before the first wait, and no *)
(* other thread makes this one the owner.                                  *)
(***************************************************************************)
THEOREM NoSelfWaitCorrect == Spec => []NoSelfWait
<1> USE FactoryAssumption DEF TypeOK, NoSelfWait
<1>1. Init => NoSelfWait
  BY DEF Init
<1>2. TypeOK /\ NoSelfWait /\ [Next]_vars => NoSelfWait'
  <2> SUFFICES ASSUME TypeOK, NoSelfWait, [Next]_vars
               PROVE  NoSelfWait'
    OBVIOUS
  <2>1. ASSUME NEW t \in Thread, Inside(t)
        PROVE  NoSelfWait'
    <3>1. CASE Refuse(t) \/ Keep(t)
      BY <3>1 DEF Refuse, Keep, Return, lockVars
    <3>2. CASE NotifyAll(t)
      BY <3>2 DEF NotifyAll, lockVars
    <3>3. CASE Block(t)
      BY <3>3 DEF Block, Goto, lockVars
    <3>4. ASSUME NEW c \in Context, Activate(t, c)
          PROVE  NoSelfWait'
      BY <3>4 DEF Activate, Return
    <3>5. CASE Deactivate(t)
      BY <3>5 DEF Deactivate, Goto
    <3> QED
      BY <2>1, <3>1, <3>2, <3>3, <3>4, <3>5 DEF Inside
  <2>2. ASSUME NEW t \in Thread, Call(t)
        PROVE  NoSelfWait'
    BY <2>2 DEF Call, CallCreate, Obtain, RegisterModel, CallReset, CallRelease, Elaborate,
                StartRelease, lockVars, callVars
  <2>3. ASSUME NEW t \in Thread, WakeSpuriously(t)
        PROVE  NoSelfWait'
    BY <2>3 DEF WakeSpuriously, Goto, lockVars
  <2>4. CASE UNCHANGED <<lockVars, callVars>>
    BY <2>4 DEF lockVars, callVars
  <2> QED
    BY <2>1, <2>2, <2>3, <2>4 DEF Next, SetGlobal, vars
<1> QED
  BY <1>1, <1>2, FactoryCorrect, PTL DEF Spec, FactoryInv
-----------------------------------------------------------------------------
(***************************************************************************)
(* The factory implements the construction lock: CallCreate is Ask,        *)
(* Activate is Acquire, and Deactivate is Free if a context is active.     *)
(***************************************************************************)
LEMMA LockStep ==
  FactoryInv /\ [Next]_vars => [Lock!Next]_<<owner[Main], Creating({Main})>>
<1> SUFFICES ASSUME FactoryInv, [Next]_vars
             PROVE  Lock!Next \/ UNCHANGED <<owner[Main], Creating({Main})>>
  OBVIOUS
<1> USE FactoryAssumption, NoneAssumption DEF FactoryInv, TypeOK
<1>1. ASSUME NEW t \in Thread, CallCreate(t)
      PROVE  Lock!Next \/ UNCHANGED <<owner[Main], Creating({Main})>>
  <2>1. CASE global = Main
    <3>1. Lock!Ask(t)
      BY <1>1, <2>1 DEF CallCreate, Lock!Ask, Creating, lockVars
    <3> QED
      BY <3>1 DEF Lock!Next
  <2>2. CASE global # Main
    BY <1>1, <2>2 DEF CallCreate, Creating, lockVars
  <2> QED
    BY <2>1, <2>2
<1>2. ASSUME NEW t \in Thread, Refuse(t)
      PROVE  Lock!Next \/ UNCHANGED <<owner[Main], Creating({Main})>>
  <2>1. CASE factory[t] = Main
    <3>1. Lock!Refuse(t)
      BY <1>2, <2>1 DEF Refuse, Return, Lock!Refuse, Creating, lockVars
    <3> QED
      BY <3>1 DEF Lock!Next
  <2>2. CASE factory[t] # Main
    BY <1>2, <2>2 DEF Refuse, Return, Creating, lockVars
  <2> QED
    BY <2>1, <2>2
<1>3. ASSUME NEW t \in Thread, NEW c \in Context, Activate(t, c)
      PROVE  Lock!Next \/ UNCHANGED <<owner[Main], Creating({Main})>>
  <2>1. CASE factory[t] = Main
    <3>1. Lock!Acquire(t)
      BY <1>3, <2>1 DEF Activate, MayActivate, Return, Lock!Acquire, Creating, OwnerCreatedActive
    <3> QED
      BY <3>1 DEF Lock!Next
  <2>2. CASE factory[t] # Main
    BY <1>3, <2>2 DEF Activate, Return, Creating
  <2> QED
    BY <2>1, <2>2
<1>4. ASSUME NEW t \in Thread, Deactivate(t)
      PROVE  Lock!Next \/ UNCHANGED <<owner[Main], Creating({Main})>>
  <2>1. UNCHANGED Creating({Main})
    BY <1>4 DEF Deactivate, Goto, Creating
  <2>2. owner'[Main] \in {None, owner[Main]}
    BY <1>4 DEF Deactivate
  <2> QED
    BY <2>1, <2>2 DEF Lock!Next, Lock!Free
<1>5. CASE UNCHANGED owner /\ UNCHANGED Creating({Main})
  BY <1>5
<1>6. ASSUME NEW t \in Thread,
             Block(t) \/ WakeSpuriously(t) \/ Keep(t) \/ NotifyAll(t)
      PROVE  UNCHANGED owner /\ UNCHANGED Creating({Main})
  BY <1>6 DEF Block, WakeSpuriously, Keep, NotifyAll, Goto, Return, Creating, lockVars
<1>7. ASSUME NEW t \in Thread, NEW c \in Context, CallRelease(t, c) \/ Elaborate(t, c)
      PROVE  UNCHANGED owner /\ UNCHANGED Creating({Main})
  BY <1>7 DEF CallRelease, Elaborate, StartRelease, Creating, lockVars
<1>8. ASSUME NEW t \in Thread, CallReset(t)
      PROVE  UNCHANGED owner /\ UNCHANGED Creating({Main})
  BY <1>8 DEF CallReset, StartRelease, Creating, lockVars
<1>9. ASSUME UNCHANGED <<lockVars, callVars>>
      PROVE  UNCHANGED owner /\ UNCHANGED Creating({Main})
  BY <1>9 DEF Creating, lockVars, callVars
<1>10. ASSUME NEW t \in Thread, Obtain(t) \/ RegisterModel(t)
       PROVE  UNCHANGED <<lockVars, callVars>>
  BY <1>10 DEF Obtain, RegisterModel
<1>11. ASSUME NEW f \in Factory, SetGlobal(f)
       PROVE  UNCHANGED <<lockVars, callVars>>
  BY <1>11 DEF SetGlobal
<1>12. CASE UNCHANGED vars
  BY <1>5, <1>9, <1>12 DEF vars
<1>13. ASSUME NEW t \in Thread, Inside(t)
       PROVE  Lock!Next \/ UNCHANGED <<owner[Main], Creating({Main})>>
  BY <1>2, <1>3, <1>4, <1>5, <1>6, <1>13 DEF Inside
<1>14. ASSUME NEW t \in Thread, Call(t)
       PROVE  Lock!Next \/ UNCHANGED <<owner[Main], Creating({Main})>>
  BY <1>1, <1>5, <1>7, <1>8, <1>9, <1>10, <1>14 DEF Call
<1> QED
  BY <1>5, <1>6, <1>9, <1>11, <1>12, <1>13, <1>14 DEF Next

(***************************************************************************)
(* The safety part of IsConstructionLock: threads construct one at a time, *)
(* and create() returns to a thread only when the lock was free.           *)
(***************************************************************************)
THEOREM LockImplemented == Spec => Lock!Spec
<1>1. Init => Lock!Init
  BY FactoryAssumption DEF Init, Lock!Init, Creating
<1> QED
  BY <1>1, LockStep, FactoryCorrect, PTL DEF Spec, Lock!Spec
=============================================================================
