---------------------------- MODULE KernelProofs ----------------------------
(***************************************************************************)
(* Proofs about Kernel, for every design and every number of calls: type   *)
(* correctness, and what run() and run_until() do to the time; then, that  *)
(* what the scheduler records twice agrees: the evaluation stack and the   *)
(* flags of the processes, and the subscriptions of an event and those of  *)
(* a process.  From this follows that nothing is left of a destroyed       *)
(* process, and that a wait can end and ends for its reason.               *)
(***************************************************************************)
EXTENDS KernelProperties, SequencesExt, FiniteSetTheorems, SequenceTheorems, TLAPS

-----------------------------------------------------------------------------
(***************************************************************************)
(* Sequences without repetitions.                                          *)
(***************************************************************************)

\* No element occurs twice.
Distinct(s) == \A i, j \in DOMAIN s : s[i] = s[j] => i = j

(***************************************************************************)
(* An order of a finite set is a sequence that has each of its elements    *)
(* once.                                                                   *)
(***************************************************************************)
LEMMA SetToSeqsElements ==
  ASSUME NEW S, IsFiniteSet(S), NEW s \in SetToSeqs(S)
  PROVE  /\ s \in Seq(S)
         /\ Distinct(s)
         /\ Range(s) = S
<1> DEFINE D == 1..Cardinality(S)
<1>1. Cardinality(S) \in Nat
  BY FS_CardinalityType
<1>2. s \in [D -> S] /\ \A i, j \in D : i # j => s[i] # s[j]
  BY DEF SetToSeqs
<1>3. s \in Seq(S) /\ Len(s) = Cardinality(S) /\ DOMAIN s = D
  BY <1>1, <1>2, SeqDef
<1>4. Distinct(s)
  BY <1>2, <1>3 DEF Distinct
<1>5. s \in Injection(D, S)
  BY <1>2 DEF Injection, IsInjective
<1>6. IsFiniteSet(D) /\ Cardinality(D) = Cardinality(S)
  BY <1>1, FS_Interval
<1>7. s \in Surjection(D, S)
  BY <1>5, <1>6, FS_Injection
<1>8. Range(s) = S
  BY <1>2, <1>7 DEF Surjection, Range
<1> QED
  BY <1>3, <1>4, <1>8

\* Two sequences with nothing in common, one after the other.
LEMMA ConcatElements ==
  ASSUME NEW S, NEW s \in Seq(S), NEW t \in Seq(S), Distinct(s), Distinct(t),
         Range(s) \cap Range(t) = {}
  PROVE  /\ Distinct(s \o t)
         /\ Range(s \o t) = Range(s) \cup Range(t)
<1>0. Range(s \o t) = Range(s) \cup Range(t)
  BY RangeConcatenation
<1>1. /\ Len(s) \in Nat /\ DOMAIN s = 1..Len(s)
      /\ Len(t) \in Nat /\ DOMAIN t = 1..Len(t)
      /\ s \o t \in Seq(S)
      /\ DOMAIN (s \o t) = 1..(Len(s) + Len(t))
  BY ConcatProperties, LenProperties
<1>2. \A i \in 1..(Len(s) + Len(t)) :
        (s \o t)[i] = IF i <= Len(s) THEN s[i] ELSE t[i - Len(s)]
  BY ConcatProperties
<1>3. SUFFICES Distinct(s \o t)
  BY <1>0
<1> SUFFICES ASSUME NEW i \in 1..(Len(s) + Len(t)), NEW j \in 1..(Len(s) + Len(t)),
                      (s \o t)[i] = (s \o t)[j]
               PROVE  i = j
  BY <1>1 DEF Distinct
<1>4. CASE i <= Len(s) /\ j <= Len(s)
  BY <1>1, <1>2, <1>3, <1>4 DEF Distinct
<1>5. CASE i > Len(s) /\ j > Len(s)
  <2>1. t[i - Len(s)] = t[j - Len(s)] /\ i - Len(s) \in DOMAIN t /\ j - Len(s) \in DOMAIN t
    BY <1>1, <1>2, <1>3, <1>5
  <2>2. i - Len(s) = j - Len(s)
    BY <2>1 DEF Distinct
  <2> QED
    BY <1>1, <2>2
<1>6. CASE i <= Len(s) /\ j > Len(s)
  <2>1. s[i] = t[j - Len(s)] /\ i \in DOMAIN s /\ j - Len(s) \in DOMAIN t
    BY <1>1, <1>2, <1>3, <1>6
  <2> QED
    BY <2>1 DEF Range
<1>7. CASE i > Len(s) /\ j <= Len(s)
  <2>1. s[j] = t[i - Len(s)] /\ j \in DOMAIN s /\ i - Len(s) \in DOMAIN t
    BY <1>1, <1>2, <1>3, <1>7
  <2> QED
    BY <2>1 DEF Range
<1> QED
  BY <1>1, <1>4, <1>5, <1>6, <1>7

\* One more element at the end.
LEMMA AppendElements ==
  ASSUME NEW S, NEW s \in Seq(S), NEW p \in S, Distinct(s), p \notin Range(s)
  PROVE  /\ Distinct(Append(s, p))
         /\ Range(Append(s, p)) = Range(s) \cup {p}
<1> DEFINE t == <<p>>
<1>1. t \in Seq(S) /\ Distinct(t) /\ Range(t) = {p}
  BY DEF Distinct, Range
<1>2. Append(s, p) = s \o t
  BY AppendIsConcat
<1> HIDE DEF t
<1>3. Range(s) \cap Range(t) = {}
  BY <1>1
<1> QED
  BY <1>1, <1>2, <1>3, ConcatElements

\* All but the first element.
LEMMA TailElements ==
  ASSUME NEW S, NEW s \in Seq(S), s # <<>>, Distinct(s)
  PROVE  /\ Head(s) \in Range(s)
         /\ Distinct(Tail(s))
         /\ Range(Tail(s)) \subseteq Range(s) \ {Head(s)}
<1> DEFINE n == Len(s)
<1>1. n \in Nat \ {0} /\ DOMAIN s = 1..n /\ Head(s) = s[1]
  BY EmptySeq, LenProperties, HeadTailProperties
<1>2. /\ DOMAIN Tail(s) = 1..(n - 1)
      /\ \A i \in 1..(n - 1) : Tail(s)[i] = s[i + 1]
  BY <1>1, HeadTailProperties, LenProperties
<1> HIDE DEF n
<1>3. \A i \in 1..(n - 1) : i + 1 \in 1..n /\ i + 1 # 1
  BY <1>1
<1>4. Distinct(Tail(s))
  BY <1>1, <1>2, <1>3 DEF Distinct
<1>5. \A i \in 1..(n - 1) : s[i + 1] \in Range(s) /\ s[i + 1] # s[1]
  BY <1>1, <1>3 DEF Range, Distinct
<1>6. Range(Tail(s)) \subseteq Range(s) \ {Head(s)}
  BY <1>1, <1>2, <1>5 DEF Range
<1> QED
  BY <1>1, <1>4, <1>6 DEF Range

-----------------------------------------------------------------------------
(***************************************************************************)
(* The operators that the kernel is built from: what they return, and what *)
(* they do to the evaluation stack.                                        *)
(***************************************************************************)

(***************************************************************************)
(* A nonempty set of natural numbers has a least element.                  *)
(***************************************************************************)
LEMMA LeastNat ==
  ASSUME NEW T \in SUBSET Nat, T # {}
  PROVE  \E n \in T : \A m \in T : n <= m
<1> DEFINE R == {ss \in Nat \X Nat : ss[1] < ss[2]}
<1>0. IsWellFoundedOn(R, Nat)
  BY NatLessThanWellFounded, Zenon DEF OpToRel
<1>1. \E n \in T : \A m \in T : ~(<<m, n>> \in R)
  <2> HIDE DEF R
  <2> QED
    BY <1>0, WFMin
<1>2. ASSUME NEW n \in T, NEW m \in T, ~(<<m, n>> \in R)
      PROVE  n <= m
  BY <1>2
<1> QED
  BY <1>1, <1>2

(***************************************************************************)
(* The first time event of a queue that is not empty is in the queue, and  *)
(* none comes before it.                                                   *)
(***************************************************************************)
LEMMA FirstTimeIsFirst ==
  ASSUME timeQ \subseteq TimeEvent, timeQ # {}
  PROVE  /\ FirstTime \in Nat
         /\ \E t \in timeQ : t.at = FirstTime
         /\ \A t \in timeQ : FirstTime <= t.at
<1> DEFINE T == {t.at : t \in timeQ}
<1>1. T \in SUBSET Nat /\ T # {}
  BY DEF TimeEvent
<1>2. \E n \in T : \A m \in T : n <= m
  BY <1>1, LeastNat
<1>3. \E n \in T : \A t \in timeQ : n <= t.at
  BY <1>2
<1>4. FirstTime \in T /\ \A t \in timeQ : FirstTime <= t.at
  BY <1>3 DEF FirstTime
<1> QED
  BY <1>1, <1>4

(***************************************************************************)
(* Removing the last entry for p leaves a sequence of the same set.        *)
(***************************************************************************)
LEMMA WithoutType ==
  ASSUME NEW S, NEW s \in Seq(S), NEW p \in Range(s)
  PROVE  Without(s, p) \in Seq(S)
<1> DEFINE at == CHOOSE i \in DOMAIN s : s[i] = p /\ \A j \in DOMAIN s : j > i => s[j] # p
           n == Len(s) - 1
           e(i) == IF i < at THEN s[i] ELSE s[i + 1]
<1>1. Len(s) \in Nat /\ DOMAIN s = 1..Len(s)
  OBVIOUS
<1>2. Len(s) # 0
  BY <1>1 DEF Range
<1>3. n \in Nat
  BY <1>1, <1>2
<1>4. \A i \in 1..n : e(i) \in S
  <2> TAKE i \in 1..n
  <2>1. i \in 1..Len(s) /\ i + 1 \in 1..Len(s)
    BY <1>1, <1>3
  <2>2. s[i] \in S /\ s[i + 1] \in S
    BY <2>1, ElementOfSeq
  <2> QED
    BY <2>2
<1>5. [i \in 1..n |-> e(i)] \in [1..n -> S]
  BY <1>4
<1>6. [i \in 1..n |-> e(i)] \in Seq(S)
  BY <1>3, <1>5, SeqDef
<1> QED
  BY <1>6 DEF Without
-----------------------------------------------------------------------------
(***************************************************************************)
(* The helpers keep the types of the variables they change.                *)
(***************************************************************************)
LEMMA FiniteProcs == \A S \in SUBSET Proc : IsFiniteSet(S)
  BY ProcAssumption, FS_Subset

LEMMA FiniteEvents == \A S \in SUBSET AllEvent : IsFiniteSet(S)
  BY EventAssumption, FS_Subset

LEMMA MonusType ==
  ASSUME NEW m \in Nat, NEW n \in Nat
  PROVE  Monus(m, n) \in Nat
  BY DEF Monus

\* The orders of a set of processes or events are sequences of the whole set.
LEMMA OrdersType ==
  ASSUME NEW S, NEW T \in SUBSET S, IsFiniteSet(T), NEW s \in SetToSeqs(T)
  PROVE  s \in Seq(S)
  BY SetToSeqsElements, SeqMonotonic

LEMMA PushType ==
  ASSUME StackTypeOK, NEW p \in Proc, NEW why \in Reason, Push(p, why)
  PROVE  StackTypeOK'
<1>1. Append(evalStack, p) \in Seq(Proc)
  BY AppendProperties DEF StackTypeOK
<1> QED
  BY <1>1 DEF StackTypeOK, Push

LEMMA PushBothType ==
  ASSUME StackTypeOK, NEW first \in SUBSET Proc, NEW second \in SUBSET Proc,
         NEW why \in [Proc -> Reason], PushBoth(first, second, why)
  PROVE  StackTypeOK'
<1> DEFINE New(ps) == {p \in ps : ~scheduled[p]}
<1>1. PICK f \in SetToSeqs(New(first)), s \in SetToSeqs(New(second)) :
        evalStack' = evalStack \o f \o s
  BY DEF PushBoth
<1>2. New(first) \in SUBSET Proc /\ New(second) \in SUBSET Proc
  OBVIOUS
<1>3. f \in Seq(Proc) /\ s \in Seq(Proc)
  BY <1>2, FiniteProcs, OrdersType
<1>4. evalStack' \in Seq(Proc)
  BY <1>1, <1>3, ConcatProperties DEF StackTypeOK
<1> QED
  BY <1>4 DEF StackTypeOK, PushBoth

LEMMA EraseType ==
  ASSUME StackTypeOK, NEW p \in Proc, Erase(p)
  PROVE  StackTypeOK'
<1>1. CASE scheduled[p] /\ p \in Range(evalStack)
  <2>1. evalStack' \in Seq(Proc)
    BY <1>1, WithoutType DEF StackTypeOK, Erase
  <2> QED
    BY <1>1, <2>1 DEF StackTypeOK, Erase, Reason
<1>2. CASE ~(scheduled[p] /\ p \in Range(evalStack))
  BY <1>2 DEF StackTypeOK, Erase, stackVars
<1> QED
  BY <1>1, <1>2

LEMMA RaiseType ==
  ASSUME EventTypeOK, NEW e \in AllEvent, Raise(e)
  PROVE  eventStack' \in Seq(AllEvent) /\ notified' \in [AllEvent -> BOOLEAN]
<1>1. Append(eventStack, e) \in Seq(AllEvent)
  BY AppendProperties DEF EventTypeOK
<1> QED
  BY <1>1 DEF EventTypeOK, Raise, eventVars

LEMMA CommitType ==
  ASSUME EventTypeOK, NEW changed \in SUBSET updateStack, Commit(changed)
  PROVE  updateStack' = {} /\ eventStack' \in Seq(AllEvent)
<1> DEFINE subscribed == {s \in changed : \/ staticSubs[s] # {}
                                          \/ \E p \in Proc : dynSubs[s][p] > 0}
<1>1. PICK queued \in SetToSeqs(subscribed) : eventStack' = eventStack \o queued
  BY DEF Commit
<1>2. subscribed \in SUBSET AllEvent
  BY DEF EventTypeOK, AllEvent
<1>3. queued \in Seq(AllEvent)
  BY <1>2, FiniteEvents, OrdersType
<1>4. eventStack' \in Seq(AllEvent)
  BY <1>1, <1>3, ConcatProperties DEF EventTypeOK
<1> QED
  BY <1>4 DEF Commit

LEMMA AddDynamicType ==
  ASSUME SubTypeOK, ProcessTypeOK, NEW p \in Proc, NEW w \in [AllEvent -> Nat],
         AddDynamic(p, w)
  PROVE  /\ dynSubs' \in [AllEvent -> [Proc -> Nat]]
         /\ dynEvents' \in [Proc -> [AllEvent -> Nat]]
         /\ sens' \in [Proc -> {"Active", "Waiting", "Disabled"}]
  BY DEF SubTypeOK, ProcessTypeOK, AddDynamic

LEMMA CancelDynamicType ==
  ASSUME SubTypeOK, NEW ps, CancelDynamic(ps)
  PROVE  /\ dynSubs' \in [AllEvent -> [Proc -> Nat]]
         /\ dynEvents' \in [Proc -> [AllEvent -> Nat]]
  BY MonusType DEF SubTypeOK, CancelDynamic, NoEvents

LEMMA CancelStaticType ==
  ASSUME SubTypeOK, NEW p \in Proc, CancelStatic(p)
  PROVE  /\ staticSubs' \in [AllEvent -> SUBSET Proc]
         /\ staticEvents' \in [Proc -> SUBSET AllEvent]
  BY DEF SubTypeOK, CancelStatic

LEMMA UnscheduleType ==
  ASSUME SubTypeOK, TimeTypeOK, NEW p \in Proc, Unschedule(p)
  PROVE  SubTypeOK' /\ wake' \in [Proc -> Nat]
<1>1. SubTypeOK'
  BY CancelStaticType, CancelDynamicType DEF Unschedule, SubTypeOK
<1> QED
  BY <1>1 DEF Unschedule, TimeTypeOK

\* Removing a process leaves an empty evaluation stack empty.
LEMMA RemoveProcessType ==
  ASSUME TypeOK, NEW p \in Proc, RemoveProcess(p)
  PROVE  /\ SubTypeOK'
         /\ StackTypeOK'
         /\ wake' \in [Proc -> Nat]
         /\ timeQ' \subseteq timeQ
         /\ current' \in Proc \cup {None, Wild}
         /\ life' \in [Proc -> {"unborn", "live", "gone"}]
         /\ evalStack = <<>> => evalStack' = <<>>
<1> USE DEF TypeOK
<1>1. SubTypeOK' /\ wake' \in [Proc -> Nat]
  BY UnscheduleType DEF RemoveProcess
<1>2. StackTypeOK'
  BY EraseType DEF RemoveProcess
<1>3. timeQ' \subseteq timeQ
  BY DEF RemoveProcess, WithoutTimeEvents
<1>4. evalStack = <<>> => evalStack' = <<>>
  <2>1. Range(<<>>) = {}
    BY DEF Range
  <2> QED
    BY <2>1 DEF RemoveProcess, Erase, stackVars
<1> QED
  BY <1>1, <1>2, <1>3, <1>4 DEF RemoveProcess, ProcessTypeOK

-----------------------------------------------------------------------------
(***************************************************************************)
(* Types and times.                                                        *)
(***************************************************************************)

LEMMA TimeInit == Init => TimeInv
<1> SUFFICES ASSUME Init
             PROVE  TimeInv
  OBVIOUS
<1>1. StackTypeOK
  <2>1. evalStack \in Seq(Proc)
    BY FiniteProcs, OrdersType DEF Init, Registered
  <2> QED
    BY <2>1 DEF Init, StackTypeOK, Reason
<1>2. EventTypeOK /\ ProcessTypeOK
  BY DEF Init, EventTypeOK, ProcessTypeOK, Awaitable
<1>3. SubTypeOK
  <2>1. staticSubs \in [AllEvent -> SUBSET Proc]
    BY DEF Init, Registered
  <2>2. dynSubs \in [AllEvent -> [Proc -> Nat]]
    BY DEF Init
  <2>3. staticEvents \in [Proc -> SUBSET AllEvent]
    BY EventAssumption DEF Init, AllEvent
  <2>4. dynEvents \in [Proc -> [AllEvent -> Nat]]
    BY DEF Init, NoEvents
  <2> QED
    BY <2>1, <2>2, <2>3, <2>4 DEF SubTypeOK
<1>4. LoopTypeOK /\ TimeTypeOK
  <2>1. LoopTypeOK
    <3>1. calls \in 0..MaxCalls
      BY NumberAssumption DEF Init
    <3> QED
      BY <3>1 DEF Init, LoopTypeOK, Place
  <2>2. TimeTypeOK
    BY DEF Init, TimeTypeOK
  <2> QED
    BY <2>1, <2>2
<1>5. NothingOverdue /\ ControlInv /\ DeadlineInv
  BY DEF Init, NothingOverdue, ControlInv, DeadlineInv
<1> QED
  BY <1>1, <1>2, <1>3, <1>4, <1>5 DEF TimeInv, TypeOK
-----------------------------------------------------------------------------
(***************************************************************************)
(* The calls of the design.  None of them moves time, and none is made at  *)
(* a place that ControlInv and DeadlineInv speak about but idle.           *)
(***************************************************************************)
LEMMA TimeDesignCall == TimeInv /\ DesignCall => TimeInv'
<1> SUFFICES ASSUME TimeInv, DesignCall
             PROVE  TimeInv'
  OBVIOUS
<1> USE DEF TimeInv, TypeOK
<1> DEFINE Steady == /\ UNCHANGED <<pc, loopVars, time, done>>
                     /\ timeQ' \subseteq timeQ
                     /\ pc \in {"idle", "body"}
                     /\ calls > 0 /\ calls' = calls - 1
<1>1. ASSUME Steady
      PROVE  LoopTypeOK' /\ NothingOverdue' /\ ControlInv' /\ DeadlineInv'
  BY <1>1, NumberAssumption DEF LoopTypeOK, loopVars, NothingOverdue, ControlInv, DeadlineInv
<1>2. ASSUME NEW e \in Event, Notify(e)
      PROVE  TimeInv'
  <2>1. Steady
    BY <1>2 DEF Notify, MayCall, Spend
  <2>2. EventTypeOK'
    BY <1>2, RaiseType DEF Notify, AllEvent, EventTypeOK
  <2> QED
    BY <1>1, <1>2, <2>1, <2>2
    DEF Notify, TimeTypeOK, stackVars, StackTypeOK, subVars, SubTypeOK, frameVars, ProcessTypeOK
<1>3. ASSUME NEW s \in Signal, Write(s)
      PROVE  TimeInv'
  <2>1. Steady
    BY <1>3 DEF Write, MayCall, Spend
  <2> QED
    BY <1>1, <1>3, <2>1
    DEF Write, TimeTypeOK, stackVars, StackTypeOK, eventVars, EventTypeOK, subVars, SubTypeOK,
        frameVars, ProcessTypeOK
<1>4. ASSUME NEW p \in Registered, InitializeTrue(p)
      PROVE  TimeInv'
  <2>1. Steady
    BY <1>4 DEF InitializeTrue, MayCall, Spend
  <2>2. StackTypeOK'
    BY <1>4, PushType DEF InitializeTrue, Registered, Reason
  <2> QED
    BY <1>1, <1>4, <2>1, <2>2
    DEF InitializeTrue, TimeTypeOK, eventVars, EventTypeOK, subVars, SubTypeOK, frameVars,
        ProcessTypeOK
<1>5. ASSUME NEW p \in Registered, InitializeFalse(p)
      PROVE  TimeInv'
  <2>1. Steady
    BY <1>5 DEF InitializeFalse, MayCall, Spend
  <2>2. StackTypeOK'
    BY <1>5, EraseType DEF InitializeFalse, Registered
  <2> QED
    BY <1>1, <1>5, <2>1, <2>2
    DEF InitializeFalse, TimeTypeOK, eventVars, EventTypeOK, subVars, SubTypeOK, frameVars,
        ProcessTypeOK
<1>6. ASSUME NEW p \in Registered, Disable(p)
      PROVE  TimeInv'
  <2>1. Steady
    BY <1>6 DEF Disable, MayCall, Spend, WithoutTimeEvents
  <2>2. StackTypeOK'
    BY <1>6, EraseType DEF Disable, Registered
  <2>3. SubTypeOK'
    BY <1>6, CancelDynamicType DEF Disable, SubTypeOK
  <2> QED
    BY <1>1, <1>6, <2>1, <2>2, <2>3
    DEF Disable, TimeTypeOK, eventVars, EventTypeOK, frameVars, ProcessTypeOK
<1>7. ASSUME NEW p \in Registered, Enable(p)
      PROVE  TimeInv'
  <2>1. Steady
    BY <1>7 DEF Enable, MayCall, Spend
  <2> QED
    BY <1>1, <1>7, <2>1
    DEF Enable, TimeTypeOK, stackVars, StackTypeOK, eventVars, EventTypeOK, subVars, SubTypeOK,
        frameVars, ProcessTypeOK
<1>8. ASSUME NEW p \in Registered, NEW e \in Event \cup Signal, Always(p, e)
      PROVE  TimeInv'
  <2>1. Steady
    BY <1>8 DEF Always, MayCall, Spend
  <2>2. SubTypeOK'
    BY <1>8 DEF Always, SubTypeOK, AllEvent, Registered
  <2> QED
    BY <1>1, <1>8, <2>1, <2>2
    DEF Always, TimeTypeOK, stackVars, StackTypeOK, eventVars, EventTypeOK, frameVars,
        ProcessTypeOK
<1>9. ASSUME NEW p \in Spawned, Spawn(p)
      PROVE  TimeInv'
  <2>1. Steady
    BY <1>9 DEF Spawn, MayCall, Spend
  <2>2. StackTypeOK'
    BY <1>9, PushType, ProcAssumption DEF Spawn, Reason
  <2> QED
    BY <1>1, <1>9, <2>1, <2>2
    DEF Spawn, TimeTypeOK, eventVars, EventTypeOK, subVars, SubTypeOK, frameVars,
        ProcessTypeOK
<1> QED
  BY <1>2, <1>3, <1>4, <1>5, <1>6, <1>7, <1>8, <1>9 DEF DesignCall
-----------------------------------------------------------------------------
(***************************************************************************)
(* What a running process does.  Time stands still, and every time event   *)
(* that it adds is in the future.                                          *)
(***************************************************************************)
LEMMA AddNextDeltaType ==
  ASSUME SubTypeOK, ProcessTypeOK, EventTypeOK, NEW p \in Proc, AddNextDelta(p)
  PROVE  /\ dynSubs' \in [AllEvent -> [Proc -> Nat]]
         /\ dynEvents' \in [Proc -> [AllEvent -> Nat]]
         /\ sens' \in [Proc -> {"Active", "Waiting", "Disabled"}]
         /\ eventStack' \in Seq(AllEvent)
         /\ notified' \in [AllEvent -> BOOLEAN]
<1>1. [NoEvents EXCEPT ![NextDelta] = 1] \in [AllEvent -> Nat]
  BY DEF NoEvents
<1>2. NextDelta \in AllEvent
  BY DEF AllEvent
<1> QED
  BY <1>1, <1>2, AddDynamicType, RaiseType DEF AddNextDelta

LEMMA AddTimeWaitType ==
  ASSUME TimeTypeOK, NEW p \in Proc, NEW delay \in Nat \ {0}, AddTimeWait(p, delay)
  PROVE  /\ timeQ' \subseteq TimeEvent
         /\ timeUsed' \in [Proc -> BOOLEAN]
         /\ \A t \in timeQ' \ timeQ : t.at > time
<1>1. [at |-> time + delay, proc |-> p, tag |-> wake[p]] \in TimeEvent
  BY DEF TimeEvent, TimeTypeOK
<1> QED
  BY <1>1 DEF AddTimeWait, TimeTypeOK

LEMMA CompleteType ==
  ASSUME TypeOK, NEW p \in Proc, Complete(p)
  PROVE  /\ SubTypeOK'
         /\ wake' \in [Proc -> Nat]
         /\ completed' \in Seq(Proc)
         /\ done' \in [Proc -> BOOLEAN]
         /\ awaiting' \in [Proc -> Awaitable]
<1> USE DEF TypeOK
<1>1. SubTypeOK' /\ wake' \in [Proc -> Nat]
  BY UnscheduleType DEF Complete
<1>2. Append(completed, p) \in Seq(Proc)
  BY AppendProperties DEF ProcessTypeOK
<1> QED
  BY <1>1, <1>2 DEF Complete, ProcessTypeOK, Awaitable

LEMMA TimeProcessStep == TimeInv /\ ProcessStep => TimeInv'
<1> SUFFICES ASSUME TimeInv, NEW p \in Proc,
                    \/ \E w \in WaitLists : NextTriggerEvents(p, w) \/ WaitEvents(p, w)
                    \/ \E d \in Delays : NextTriggerTime(p, d) \/ WaitTime(p, d)
                    \/ \E w \in WaitLists, d \in Delays \ {0} : WaitEventsTimeout(p, w, d)
                    \/ WaitStatic(p)
                    \/ MethodReturn(p)
                    \/ MethodThrow(p)
                    \/ CoroReturn(p)
                    \/ CoroThrow(p)
             PROVE  TimeInv'
  BY DEF ProcessStep
<1> USE DEF TimeInv, TypeOK
<1> DEFINE Steady == /\ UNCHANGED <<loopVars, time>>
                     /\ pc = "body" /\ pc' \in {"body", "eval", "unwind"}
                     /\ \A t \in timeQ' \ timeQ : t.at > time
                     /\ \/ UNCHANGED calls
                        \/ calls > 0 /\ calls' = calls - 1
<1>1. ASSUME Steady
      PROVE  LoopTypeOK' /\ NothingOverdue' /\ ControlInv' /\ DeadlineInv'
  BY <1>1, NumberAssumption
  DEF LoopTypeOK, loopVars, NothingOverdue, ControlInv, DeadlineInv, Place
<1>2. ASSUME NEW w \in WaitLists, NextTriggerEvents(p, w)
      PROVE  TimeInv'
  <2>1. Steady
    BY <1>2 DEF NextTriggerEvents, Runs, MayCall, Spend
  <2>2. /\ dynSubs' \in [AllEvent -> [Proc -> Nat]]
        /\ dynEvents' \in [Proc -> [AllEvent -> Nat]]
        /\ sens' \in [Proc -> {"Active", "Waiting", "Disabled"}]
    BY <1>2, AddDynamicType, EventAssumption DEF NextTriggerEvents
  <2> QED
    BY <1>1, <1>2, <2>1, <2>2
    DEF NextTriggerEvents, TimeTypeOK, stackVars, StackTypeOK, eventVars, EventTypeOK,
        SubTypeOK, frameVars, ProcessTypeOK
<1>3. ASSUME NEW d \in Delays, NextTriggerTime(p, d)
      PROVE  TimeInv'
  <2>1. CASE d = 0
    <3>1. Steady
      BY <1>3, <2>1 DEF NextTriggerTime, Runs, MayCall, Spend
    <3>2. AddNextDelta(p)
      BY <1>3, <2>1 DEF NextTriggerTime
    <3>3. TimeTypeOK'
      BY <1>3, <2>1 DEF NextTriggerTime, TimeTypeOK
    <3>4. StackTypeOK' /\ LoopTypeOK' /\ NothingOverdue' /\ ControlInv' /\ DeadlineInv'
      BY <1>1, <1>3, <3>1 DEF NextTriggerTime, stackVars, StackTypeOK
    <3> QED
      BY <1>3, <3>2, <3>3, <3>4, AddNextDeltaType
      DEF NextTriggerTime, EventTypeOK, SubTypeOK, frameVars, ProcessTypeOK
  <2>2. CASE d > 0
    <3> DEFINE new == [at |-> time + d, proc |-> p, tag |-> Sticky]
    <3>1. new \in TimeEvent /\ new.at > time
      BY <2>2, NumberAssumption DEF TimeEvent, TimeTypeOK
    <3>2. timeQ' = timeQ \cup {new}
      BY <1>3, <2>2 DEF NextTriggerTime
    <3>3. Steady
      BY <1>3, <2>2, <3>1, <3>2 DEF NextTriggerTime, Runs, MayCall, Spend
    <3>4. TimeTypeOK'
      BY <1>3, <2>2, <3>1, <3>2 DEF NextTriggerTime, TimeTypeOK
    <3> QED
      BY <1>1, <1>3, <2>2, <3>3, <3>4
      DEF NextTriggerTime, stackVars, StackTypeOK, eventVars, EventTypeOK, SubTypeOK,
          frameVars, ProcessTypeOK
  <2> QED
    BY <2>1, <2>2, NumberAssumption
<1>4. ASSUME MethodReturn(p) \/ MethodThrow(p)
      PROVE  TimeInv'
  <2>1. Steady
    BY <1>4 DEF MethodReturn, MethodThrow, Runs, MayCall, Spend
  <2> QED
    BY <1>1, <1>4, <2>1
    DEF MethodReturn, MethodThrow, TimeTypeOK, stackVars, StackTypeOK, eventVars,
        EventTypeOK, subVars, SubTypeOK, frameVars, ProcessTypeOK
<1>5. ASSUME WaitStatic(p)
      PROVE  TimeInv'
  <2>1. Steady
    BY <1>5 DEF WaitStatic, Suspend, Runs
  <2> QED
    BY <1>1, <1>5, <2>1
    DEF WaitStatic, Suspend, TimeTypeOK, stackVars, StackTypeOK, eventVars, EventTypeOK,
        SubTypeOK, ProcessTypeOK, Awaitable
<1>6. ASSUME NEW d \in Delays, WaitTime(p, d)
      PROVE  TimeInv'
  <2>1. CASE d = 0
    <3>1. Steady
      BY <1>6, <2>1 DEF WaitTime, Suspend, Runs, MayCall, Spend
    <3>2. AddNextDelta(p)
      BY <1>6, <2>1 DEF WaitTime
    <3> QED
      BY <1>1, <1>6, <2>1, <3>1, <3>2, AddNextDeltaType
      DEF WaitTime, Suspend, TimeTypeOK, stackVars, StackTypeOK, EventTypeOK, SubTypeOK,
          ProcessTypeOK, Awaitable
  <2>2. CASE d > 0
    <3>1. AddTimeWait(p, d) /\ d \in Nat \ {0}
      BY <1>6, <2>2, NumberAssumption DEF WaitTime
    <3>2. /\ timeQ' \subseteq TimeEvent
          /\ timeUsed' \in [Proc -> BOOLEAN]
          /\ \A t \in timeQ' \ timeQ : t.at > time
      BY <3>1, AddTimeWaitType
    <3>3. Steady
      BY <1>6, <2>2, <3>2 DEF WaitTime, Suspend, Runs, MayCall, Spend
    <3>4. ProcessTypeOK'
      <4>1. sens' = [sens EXCEPT ![p] = "Waiting"]
        BY <1>6, <2>2 DEF WaitTime
      <4>2. sens' \in [Proc -> {"Active", "Waiting", "Disabled"}]
        BY <4>1 DEF ProcessTypeOK
      <4> QED
        BY <1>6, <4>2 DEF WaitTime, Suspend, ProcessTypeOK, Awaitable
    <3> QED
      BY <1>1, <1>6, <2>2, <3>2, <3>3, <3>4
      DEF WaitTime, Suspend, TimeTypeOK, stackVars, StackTypeOK, eventVars, EventTypeOK,
          SubTypeOK
  <2> QED
    BY <2>1, <2>2, NumberAssumption
<1>7. ASSUME NEW w \in WaitLists, WaitEvents(p, w)
      PROVE  TimeInv'
  <2>1. Steady
    BY <1>7 DEF WaitEvents, Suspend, Runs, MayCall, Spend
  <2>2. /\ dynSubs' \in [AllEvent -> [Proc -> Nat]]
        /\ dynEvents' \in [Proc -> [AllEvent -> Nat]]
        /\ sens' \in [Proc -> {"Active", "Waiting", "Disabled"}]
    BY <1>7, AddDynamicType, EventAssumption DEF WaitEvents
  <2> QED
    BY <1>1, <1>7, <2>1, <2>2
    DEF WaitEvents, Suspend, TimeTypeOK, stackVars, StackTypeOK, eventVars, EventTypeOK,
        SubTypeOK, ProcessTypeOK, Awaitable
<1>8. ASSUME NEW w \in WaitLists, NEW d \in Delays \ {0}, WaitEventsTimeout(p, w, d)
      PROVE  TimeInv'
  <2>1. /\ dynSubs' \in [AllEvent -> [Proc -> Nat]]
        /\ dynEvents' \in [Proc -> [AllEvent -> Nat]]
        /\ sens' \in [Proc -> {"Active", "Waiting", "Disabled"}]
    BY <1>8, AddDynamicType, EventAssumption DEF WaitEventsTimeout
  <2>2. /\ timeQ' \subseteq TimeEvent
        /\ timeUsed' \in [Proc -> BOOLEAN]
        /\ \A t \in timeQ' \ timeQ : t.at > time
    BY <1>8, AddTimeWaitType, NumberAssumption DEF WaitEventsTimeout
  <2>3. Steady
    BY <1>8, <2>2 DEF WaitEventsTimeout, Suspend, Runs, MayCall, Spend
  <2>4. deadline' \in [Proc -> Nat]
    <3>1. time + d \in Nat
      BY NumberAssumption DEF TimeTypeOK
    <3> QED
      BY <1>8, <3>1 DEF WaitEventsTimeout, ProcessTypeOK
  <2> QED
    BY <1>1, <1>8, <2>1, <2>2, <2>3, <2>4
    DEF WaitEventsTimeout, Suspend, TimeTypeOK, stackVars, StackTypeOK, eventVars,
        EventTypeOK, SubTypeOK, ProcessTypeOK, Awaitable
<1>9. ASSUME CoroReturn(p) \/ CoroThrow(p)
      PROVE  TimeInv'
  <2>1. Steady
    BY <1>9 DEF CoroReturn, CoroThrow, Runs, MayCall, Spend
  <2>2. Complete(p)
    BY <1>9 DEF CoroReturn, CoroThrow
  <2> QED
    BY <1>1, <1>9, <2>1, <2>2, CompleteType
    DEF CoroReturn, CoroThrow, TimeTypeOK, stackVars, StackTypeOK, eventVars, EventTypeOK,
        ProcessTypeOK
<1> QED
  BY <1>2, <1>3, <1>4, <1>5, <1>6, <1>7, <1>8, <1>9
-----------------------------------------------------------------------------
(***************************************************************************)
(* Context::eval().                                                        *)
(***************************************************************************)
LEMMA TimeEnter == TimeInv /\ (Enter \/ EndRound) => TimeInv'
<1> SUFFICES ASSUME TimeInv, Enter \/ EndRound
             PROVE  TimeInv'
  OBVIOUS
<1> USE DEF TimeInv, TypeOK
<1>1. /\ pc \in {"enter", "trigger"}
      /\ \/ NothingScheduled /\ pc' = "release"
         \/ ~NothingScheduled /\ pc' = "eval"
      /\ evaluated' \in BOOLEAN
      /\ UNCHANGED <<ret, initialized, left, until, time, timeQ, stackVars, updateStack,
                     eventVars, current, completed, fresh, subVars, life, done, sens, wake,
                     timeUsed, frameVars, calls>>
  BY DEF Enter, EndRound, LoopTypeOK
<1>2. LoopTypeOK' /\ TimeTypeOK' /\ StackTypeOK'
  BY <1>1 DEF LoopTypeOK, Place, TimeTypeOK, stackVars, StackTypeOK
<1>3. EventTypeOK' /\ SubTypeOK' /\ ProcessTypeOK'
  BY <1>1 DEF eventVars, EventTypeOK, subVars, SubTypeOK, frameVars, ProcessTypeOK
<1>4. NothingScheduled' <=> NothingScheduled
  BY <1>1 DEF NothingScheduled, stackVars, eventVars
<1>5. NothingOverdue' /\ ControlInv' /\ DeadlineInv'
  BY <1>1, <1>4 DEF NothingOverdue, ControlInv, DeadlineInv
<1> QED
  BY <1>2, <1>3, <1>5

LEMMA TimeResume ==
  ASSUME TimeInv, NEW p \in Proc, Resume(p)
  PROVE  TimeInv'
<1> USE DEF TimeInv, TypeOK
<1>1. evalStack' \in Seq(Proc)
  <2>1. Len(evalStack) \in Nat /\ \A i \in 1..(Len(evalStack) - 1) : evalStack[i] \in Proc
    BY ElementOfSeq, LenProperties DEF StackTypeOK
  <2> QED
    BY <2>1, SubSeqProperties DEF Resume
<1>2. StackTypeOK' /\ TimeTypeOK'
  BY <1>1 DEF Resume, StackTypeOK, TimeTypeOK, Reason
<1>3. LoopTypeOK' /\ EventTypeOK'
  BY DEF Resume, loopVars, LoopTypeOK, Place, eventVars, EventTypeOK
<1>4. SubTypeOK' /\ ProcessTypeOK'
  BY DEF Resume, subVars, SubTypeOK, ProcessTypeOK, Awaitable
<1>5. NothingOverdue' /\ ControlInv' /\ DeadlineInv'
  BY DEF Resume, loopVars, NothingOverdue, ControlInv, DeadlineInv
<1> QED
  BY <1>2, <1>3, <1>4, <1>5

LEMMA TimeEndEvaluation == TimeInv /\ EndEvaluation => TimeInv'
<1> SUFFICES ASSUME TimeInv, EndEvaluation
             PROVE  TimeInv'
  OBVIOUS
<1> USE DEF TimeInv, TypeOK
<1>1. updateStack' = {} /\ eventStack' \in Seq(AllEvent)
  BY CommitType DEF EndEvaluation
<1>2. EventTypeOK'
  BY <1>1 DEF EndEvaluation, EventTypeOK
<1>3. LoopTypeOK' /\ TimeTypeOK' /\ StackTypeOK'
  BY DEF EndEvaluation, loopVars, LoopTypeOK, Place, TimeTypeOK, stackVars, StackTypeOK
<1>4. SubTypeOK' /\ ProcessTypeOK'
  BY DEF EndEvaluation, subVars, SubTypeOK, frameVars, ProcessTypeOK
<1>5. NothingOverdue' /\ ControlInv' /\ DeadlineInv'
  BY DEF EndEvaluation, loopVars, NothingOverdue, ControlInv, DeadlineInv
<1> QED
  BY <1>2, <1>3, <1>4, <1>5

LEMMA TriggerSubs ==
  ASSUME SubTypeOK, NEW e \in AllEvent, Trigger(e)
  PROVE  SubTypeOK'
<1> DEFINE waiters == {p \in Proc : dynSubs[e][p] > 0}
           kept(f, p) == IF p \notin waiters THEN dynSubs[f][p]
                         ELSE IF f = e THEN 0 ELSE Monus(dynSubs[f][p], dynEvents[p][f])
<1>1. \A f \in AllEvent, p \in Proc : kept(f, p) \in Nat
  <2> TAKE f \in AllEvent, p \in Proc
  <2>1. dynSubs[f][p] \in Nat /\ dynEvents[p][f] \in Nat
    BY DEF SubTypeOK
  <2> QED
    BY <2>1, MonusType
<1>2. dynSubs' = [f \in AllEvent |-> [p \in Proc |-> kept(f, p)]]
  BY DEF Trigger
<1>3. dynSubs' \in [AllEvent -> [Proc -> Nat]]
  BY <1>1, <1>2
<1>4. dynEvents' = [p \in Proc |-> IF p \in waiters THEN NoEvents ELSE dynEvents[p]]
  BY DEF Trigger
<1>5. dynEvents' \in [Proc -> [AllEvent -> Nat]]
  BY <1>4 DEF NoEvents, SubTypeOK
<1> QED
  BY <1>3, <1>5 DEF Trigger, SubTypeOK

LEMMA TimeTrigger ==
  ASSUME TimeInv, NEW e \in AllEvent, Trigger(e)
  PROVE  TimeInv'
<1> USE DEF TimeInv, TypeOK
<1> DEFINE wakes   == StaticWoken(e)
           waiters == {p \in Proc : dynSubs[e][p] > 0}
           why     == [p \in Proc |-> IF p \in wakes THEN "static" ELSE "event"]
<1>1. StackTypeOK'
  <2>1. wakes \in SUBSET Proc /\ waiters \ wakes \in SUBSET Proc
    BY DEF StaticWoken, SubTypeOK
  <2>2. why \in [Proc -> Reason]
    BY DEF Reason
  <2>3. PushBoth(wakes, waiters \ wakes, why)
    BY DEF Trigger
  <2> HIDE DEF why, wakes, waiters
  <2> QED
    BY <2>1, <2>2, <2>3, PushBothType
<1>2. EventTypeOK'
  <2>1. Tail(eventStack) \in Seq(AllEvent)
    BY HeadTailProperties DEF Trigger, EventTypeOK
  <2> QED
    BY <2>1 DEF Trigger, Occur, EventTypeOK
<1>3. SubTypeOK'
  BY TriggerSubs
<1>4. ProcessTypeOK'
  BY DEF Trigger, Restore, frameVars, ProcessTypeOK
<1>5. LoopTypeOK' /\ TimeTypeOK' /\ NothingOverdue' /\ ControlInv' /\ DeadlineInv'
  BY DEF Trigger, loopVars, LoopTypeOK, TimeTypeOK, NothingOverdue, ControlInv, DeadlineInv
<1> QED
  BY <1>1, <1>2, <1>3, <1>4, <1>5

LEMMA TimeRelease == TimeInv /\ Release => TimeInv'
<1> SUFFICES ASSUME TimeInv, Release
             PROVE  TimeInv'
  OBVIOUS
<1> USE DEF TimeInv, TypeOK
<1>1. Head(completed) \in Proc /\ Tail(completed) \in Seq(Proc)
  BY HeadTailProperties DEF Release, ProcessTypeOK
<1>2. RemoveProcess(Head(completed))
  BY DEF Release
<1>3. /\ SubTypeOK'
      /\ StackTypeOK'
      /\ wake' \in [Proc -> Nat]
      /\ timeQ' \subseteq timeQ
      /\ current' \in Proc \cup {None, Wild}
      /\ life' \in [Proc -> {"unborn", "live", "gone"}]
      /\ evalStack = <<>> => evalStack' = <<>>
  BY <1>1, <1>2, RemoveProcessType
<1>4. EventTypeOK' /\ LoopTypeOK'
  BY DEF Release, eventVars, EventTypeOK, loopVars, LoopTypeOK
<1>5. TimeTypeOK' /\ ProcessTypeOK'
  BY <1>1, <1>3 DEF Release, TimeTypeOK, frameVars, ProcessTypeOK
<1>6. NothingScheduled => NothingScheduled'
  BY <1>3 DEF Release, NothingScheduled, eventVars
<1>7. NothingOverdue' /\ ControlInv' /\ DeadlineInv'
  BY <1>3, <1>6 DEF Release, loopVars, NothingOverdue, ControlInv, DeadlineInv
<1> QED
  BY <1>3, <1>4, <1>5, <1>7

LEMMA TimeEvalReturn == TimeInv /\ EvalReturn => TimeInv'
<1> SUFFICES ASSUME TimeInv, EvalReturn
             PROVE  TimeInv'
  OBVIOUS
<1> USE DEF TimeInv, TypeOK
<1>1. LoopTypeOK' /\ TimeTypeOK' /\ StackTypeOK'
  BY DEF EvalReturn, loopVars, LoopTypeOK, Place, TimeTypeOK, stackVars, StackTypeOK
<1>2. EventTypeOK' /\ SubTypeOK' /\ ProcessTypeOK'
  BY DEF EvalReturn, eventVars, EventTypeOK, subVars, SubTypeOK, frameVars, ProcessTypeOK
<1>3. NothingScheduled' <=> NothingScheduled
  BY DEF EvalReturn, NothingScheduled, stackVars, eventVars
<1>4. NothingOverdue' /\ ControlInv' /\ DeadlineInv'
  BY <1>3 DEF EvalReturn, loopVars, LoopTypeOK, NothingOverdue, ControlInv, DeadlineInv
<1> QED
  BY <1>1, <1>2, <1>4
-----------------------------------------------------------------------------
(***************************************************************************)
(* Context::run().                                                         *)
(***************************************************************************)

(***************************************************************************)
(* A time step is not longer than what is left, and ends at the first time *)
(* event or before it.                                                     *)
(***************************************************************************)
LEMMA NextStepBounds ==
  ASSUME timeQ \subseteq TimeEvent, NothingOverdue, time \in Nat, left \in Nat
  PROVE  /\ NextStep \in 0..left
         /\ \A t \in timeQ : t.at >= time + NextStep
<1>1. CASE timeQ = {}
  BY <1>1 DEF NextStep
<1>2. CASE timeQ # {}
  <2>1. /\ FirstTime \in Nat
        /\ FirstTime > time
        /\ \A t \in timeQ : t.at \in Nat /\ FirstTime <= t.at
    BY <1>2, FirstTimeIsFirst DEF NothingOverdue, TimeEvent
  <2> QED
    BY <1>2, <2>1 DEF NextStep
<1> QED
  BY <1>1, <1>2

LEMMA TimeAdvance == TimeInv /\ Advance => TimeInv'
<1> SUFFICES ASSUME TimeInv, Advance
             PROVE  TimeInv'
  OBVIOUS
<1> USE DEF TimeInv, TypeOK
<1> DEFINE now   == time + NextStep
           due   == {t \in timeQ : t.at = now}
           extra == {t.proc : t \in {u \in due : u.tag = Sticky}}
           woken == {t.proc : t \in {u \in due : u.tag = wake[u.proc]}}
           why   == [p \in Proc |-> "time"]
<1>1. NextStep \in 0..left /\ \A t \in timeQ : t.at >= now
  BY NextStepBounds DEF TimeTypeOK, LoopTypeOK
<1>2. time' = now /\ left' = left - NextStep /\ timeQ' = timeQ \ due
  BY DEF Advance
<1>3. time' \in Nat /\ left' \in Nat /\ time' + left' = time + left
  BY <1>1, <1>2 DEF TimeTypeOK, LoopTypeOK
<1>4. TimeTypeOK' /\ NothingOverdue'
  <2>1. \A t \in timeQ' : t.at > time'
    <3> TAKE t \in timeQ'
    <3>1. t \in timeQ /\ t.at # now
      BY <1>2
    <3>2. t.at \in Nat /\ now \in Nat /\ t.at >= now
      BY <1>1, <1>2, <1>3, <3>1 DEF TimeTypeOK, TimeEvent
    <3> QED
      BY <1>2, <3>1, <3>2
  <2> QED
    BY <1>2, <1>3, <2>1 DEF Advance, TimeTypeOK, NothingOverdue
<1>5. StackTypeOK'
  <2>1. extra \cup woken \in SUBSET Proc
    BY DEF TimeTypeOK, TimeEvent
  <2>2. why \in [Proc -> Reason]
    BY DEF Reason
  <2>3. PushBoth(extra \cup woken, {}, why)
    BY DEF Advance
  <2> HIDE DEF why, extra, woken
  <2> QED
    BY <2>1, <2>2, <2>3, PushBothType
<1>6. SubTypeOK' /\ ProcessTypeOK'
  <2>1. CancelDynamic(woken) /\ Restore(woken)
    BY DEF Advance
  <2> HIDE DEF woken
  <2>2. SubTypeOK'
    BY <2>1, CancelDynamicType DEF Advance, SubTypeOK
  <2>3. ProcessTypeOK'
    BY <2>1 DEF Advance, Restore, frameVars, ProcessTypeOK
  <2> QED
    BY <2>2, <2>3
<1>7. EventTypeOK' /\ LoopTypeOK'
  BY <1>3 DEF Advance, eventVars, EventTypeOK, LoopTypeOK, Place
<1>8. ControlInv'
  BY DEF Advance, ControlInv
<1>9. DeadlineInv'
  <2> SUFFICES ASSUME until # None
               PROVE  DeadlineInv'
    BY DEF Advance, DeadlineInv
  <2>1. until.deadline # 0 => time' + left' <= until.deadline
    BY <1>3 DEF DeadlineInv
  <2>2. ASSUME until.expired
        PROVE  /\ NothingScheduled'
               /\ time' + left' = until.deadline
               /\ \A t \in timeQ' : t.at > until.deadline
    <3>1. /\ NothingScheduled
          /\ time + left = until.deadline
          /\ \A t \in timeQ : t.at > until.deadline
      BY <2>2 DEF DeadlineInv
    <3>2. now <= until.deadline
      BY <1>1, <3>1 DEF TimeTypeOK, LoopTypeOK
    <3>3. due = {}
      <4> SUFFICES ASSUME NEW t \in timeQ, t.at = now
                   PROVE  FALSE
        OBVIOUS
      <4>1. t.at \in Nat /\ t.at > until.deadline
        BY <3>1 DEF TimeTypeOK, TimeEvent
      <4>2. until.deadline = time + left /\ now \in Nat /\ time + left \in Nat
        BY <1>1, <3>1 DEF TimeTypeOK, LoopTypeOK
      <4> QED
        BY <3>2, <4>1, <4>2
    <3>4. evalStack' = <<>>
      <4>1. extra = {} /\ woken = {}
        BY <3>3
      <4>2. PushBoth({}, {}, why)
        BY <4>1 DEF Advance
      <4>3. SetToSeqs({}) \subseteq {<<>>}
        BY FS_EmptySet, SetToSeqsElements, EmptySeq DEF Range
      <4>4. PICK f \in SetToSeqs({}), s \in SetToSeqs({}) : evalStack' = evalStack \o f \o s
        <5>1. {p \in {} : ~scheduled[p]} = {}
          OBVIOUS
        <5> QED
          BY <4>2, <5>1 DEF PushBoth
      <4> QED
        BY <3>1, <4>3, <4>4, ConcatEmptySeq, EmptySeq DEF NothingScheduled
    <3> QED
      BY <1>2, <1>3, <3>1, <3>4 DEF Advance, NothingScheduled, eventVars
  <2> QED
    BY <2>1, <2>2 DEF Advance, DeadlineInv
<1> QED
  BY <1>4, <1>5, <1>6, <1>7, <1>8, <1>9

LEMMA TimeLeaveUntil ==
  ASSUME TimeInv, until # None, LeaveUntil
  PROVE  TimeInv'
<1> USE DEF TimeInv, TypeOK
<1>1. until.proc \in Proc
  BY ProcAssumption DEF LoopTypeOK, Until
<1>2. RemoveProcess(until.proc)
  BY DEF LeaveUntil
<1>3. /\ SubTypeOK'
      /\ StackTypeOK'
      /\ wake' \in [Proc -> Nat]
      /\ timeQ' \subseteq timeQ
      /\ current' \in Proc \cup {None, Wild}
      /\ life' \in [Proc -> {"unborn", "live", "gone"}]
  BY <1>1, <1>2, RemoveProcessType
<1>4. EventTypeOK' /\ LoopTypeOK'
  BY DEF LeaveUntil, eventVars, EventTypeOK, LoopTypeOK, Place
<1>5. TimeTypeOK' /\ ProcessTypeOK'
  BY <1>3 DEF LeaveUntil, TimeTypeOK, frameVars, ProcessTypeOK
<1>6. NothingOverdue' /\ ControlInv' /\ DeadlineInv'
  BY <1>3 DEF LeaveUntil, NothingOverdue, ControlInv, DeadlineInv
<1> QED
  BY <1>3, <1>4, <1>5, <1>6

LEMMA TimeRunReturn == TimeInv /\ RunReturn => TimeInv'
<1> SUFFICES ASSUME TimeInv, RunReturn
             PROVE  TimeInv'
  OBVIOUS
<1> USE DEF TimeInv, TypeOK
<1>1. CASE until # None /\ until.expired
  BY <1>1, TimeLeaveUntil DEF RunReturn
<1>2. CASE until = None \/ ~until.expired
  <2>1. /\ pc = "step" /\ left = 0
        /\ pc' \in {"idle", "enter"} /\ ret' \in {"step", "until"}
        /\ pc' = "idle" => until = None
        /\ ret' = "until" /\ pc' # "idle" => until # None
        /\ until # None => ~until.expired
        /\ UNCHANGED <<initialized, evaluated, left, until, time, timeQ, stackVars,
                       updateStack, eventVars, current, completed, fresh, subVars, life,
                       done, sens, wake, timeUsed, frameVars, calls>>
    BY <1>2 DEF RunReturn, loopVars, LoopTypeOK
  <2>2. LoopTypeOK' /\ TimeTypeOK' /\ StackTypeOK'
    BY <2>1 DEF LoopTypeOK, Place, TimeTypeOK, stackVars, StackTypeOK
  <2>3. EventTypeOK' /\ SubTypeOK' /\ ProcessTypeOK'
    BY <2>1 DEF eventVars, EventTypeOK, subVars, SubTypeOK, frameVars, ProcessTypeOK
  <2>4. NothingOverdue' /\ ControlInv' /\ DeadlineInv'
    BY <2>1 DEF NothingOverdue, ControlInv, DeadlineInv
  <2> QED
    BY <2>2, <2>3, <2>4
<1> QED
  BY <1>1, <1>2

(***************************************************************************)
(* Context::run_until().                                                   *)
(***************************************************************************)
LEMMA TimeUntilTest == TimeInv /\ UntilTest => TimeInv'
<1> SUFFICES ASSUME TimeInv, UntilTest
             PROVE  TimeInv'
  OBVIOUS
<1> USE DEF TimeInv, TypeOK
<1>1. until # None /\ until \in Until /\ left = 0 /\ NothingScheduled
  BY DEF UntilTest, ControlInv, LoopTypeOK
<1>2. CASE done[until.proc] \/ timeQ = {}
  <2>1. LeaveUntil
    BY <1>2 DEF UntilTest
  <2> QED
    BY <1>1, <2>1, TimeLeaveUntil
<1>3. CASE ~done[until.proc] /\ timeQ # {}
  <2> DEFINE end == IF PastDeadline THEN until.deadline ELSE FirstTime
  <2>1. left' = end - time /\ UntilRun(PastDeadline)
    BY <1>3 DEF UntilTest
  <2>2. /\ FirstTime \in Nat /\ FirstTime > time
        /\ \A t \in timeQ : t.at \in Nat /\ FirstTime <= t.at
    BY <1>3, FirstTimeIsFirst DEF NothingOverdue, TimeTypeOK, TimeEvent
  <2>3. until.deadline \in Nat /\ time \in Nat
    BY <1>1 DEF Until, TimeTypeOK
  <2>4. until.deadline # 0 => time <= until.deadline
    BY <1>1, <2>3 DEF DeadlineInv
  <2>5. /\ left' \in Nat
        /\ time + left' = end
        /\ until.deadline # 0 => end <= until.deadline
    BY <2>1, <2>2, <2>3, <2>4 DEF PastDeadline
  <2>6. PastDeadline \in BOOLEAN
    BY DEF PastDeadline
  <2>7. until' \in Until
    BY <1>1, <2>1, <2>6 DEF UntilRun, Until
  <2>8. LoopTypeOK' /\ TimeTypeOK' /\ StackTypeOK'
    BY <2>1, <2>5, <2>7 DEF UntilRun, LoopTypeOK, Place, TimeTypeOK, stackVars, StackTypeOK
  <2>9. EventTypeOK' /\ SubTypeOK' /\ ProcessTypeOK'
    BY <2>1 DEF UntilRun, eventVars, EventTypeOK, subVars, SubTypeOK, frameVars,
                ProcessTypeOK
  <2>10. NothingScheduled' /\ NothingOverdue' /\ ControlInv'
    BY <1>1, <2>1 DEF UntilRun, NothingScheduled, stackVars, eventVars, NothingOverdue,
                      ControlInv
  <2>11. DeadlineInv'
    <3>1. /\ until'.deadline = until.deadline
          /\ until'.proc = until.proc
          /\ until'.expired = PastDeadline
      BY <1>1, <2>1 DEF UntilRun, Until
    <3>2. /\ pc' = "enter" /\ ret' = "step" /\ time' = time /\ timeQ' = timeQ
          /\ done' = done
      BY <2>1 DEF UntilRun
    <3>3. PastDeadline => \A t \in timeQ : t.at > until.deadline
      BY <2>2, <2>3 DEF PastDeadline
    <3>4. PastDeadline => until.deadline # 0
      BY DEF PastDeadline
    <3> QED
      BY <1>3, <2>5, <2>10, <3>1, <3>2, <3>3, <3>4 DEF DeadlineInv
  <2> QED
    BY <2>8, <2>9, <2>10, <2>11
<1> QED
  BY <1>2, <1>3 DEF UntilTest

LEMMA TimeUnwind == TimeInv /\ Unwind => TimeInv'
<1> SUFFICES ASSUME TimeInv, Unwind
             PROVE  TimeInv'
  OBVIOUS
<1> USE DEF TimeInv, TypeOK
<1>1. CASE until # None
  BY <1>1, TimeLeaveUntil DEF Unwind
<1>2. CASE until = None
  <2>1. LoopTypeOK' /\ TimeTypeOK' /\ StackTypeOK'
    BY <1>2 DEF Unwind, LoopTypeOK, Place, TimeTypeOK, stackVars, StackTypeOK
  <2>2. EventTypeOK' /\ SubTypeOK' /\ ProcessTypeOK'
    BY <1>2 DEF Unwind, eventVars, EventTypeOK, subVars, SubTypeOK, frameVars, ProcessTypeOK
  <2>3. NothingOverdue' /\ ControlInv' /\ DeadlineInv'
    BY <1>2 DEF Unwind, NothingOverdue, ControlInv, DeadlineInv
  <2> QED
    BY <2>1, <2>2, <2>3
<1> QED
  BY <1>1, <1>2

LEMMA DoInitializeType ==
  ASSUME EventTypeOK, DoInitialize
  PROVE  /\ initialized' = TRUE
         /\ updateStack' \subseteq Signal
         /\ eventStack' \in Seq(AllEvent)
  BY CommitType DEF DoInitialize, EventTypeOK

LEMMA TimeBenchCall == TimeInv /\ BenchCall => TimeInv'
<1> SUFFICES ASSUME TimeInv, BenchCall
             PROVE  TimeInv'
  OBVIOUS
<1> USE DEF TimeInv, TypeOK
<1>1. ASSUME NEW inc \in RunTimes, Run(inc)
      PROVE  TimeInv'
  <2>1. EventTypeOK' /\ initialized' = TRUE
    BY <1>1, DoInitializeType DEF Run, EventTypeOK
  <2>2. LoopTypeOK'
    BY <1>1, <2>1, NumberAssumption DEF Run, MayCall, Spend, LoopTypeOK, Place
  <2>3. TimeTypeOK' /\ StackTypeOK'
    BY <1>1 DEF Run, TimeTypeOK, stackVars, StackTypeOK
  <2>4. SubTypeOK' /\ ProcessTypeOK'
    BY <1>1 DEF Run, subVars, SubTypeOK, frameVars, ProcessTypeOK
  <2>5. NothingOverdue' /\ ControlInv' /\ DeadlineInv'
    BY <1>1 DEF Run, NothingOverdue, ControlInv, DeadlineInv
  <2> QED
    BY <2>1, <2>2, <2>3, <2>4, <2>5
<1>2. ASSUME NEW p \in Once, NEW timeout \in Delays \cup {0}, RunUntil(p, timeout)
      PROVE  TimeInv'
  <2> DEFINE end == IF timeout = 0 THEN 0 ELSE time + timeout
  <2>1. EventTypeOK' /\ initialized' = TRUE
    BY <1>2, DoInitializeType DEF RunUntil, EventTypeOK
  <2>2. /\ until' = [proc |-> p, expired |-> FALSE, deadline |-> end]
        /\ end \in Nat
        /\ end # 0 => time <= end
    BY <1>2, NumberAssumption DEF RunUntil, TimeTypeOK
  <2>3. until' \in Until
    BY <2>2 DEF Until
  <2>4. LoopTypeOK'
    BY <1>2, <2>1, <2>3, NumberAssumption
    DEF RunUntil, MayCall, Spend, LoopTypeOK, Place
  <2>5. StackTypeOK'
    BY <1>2, PushType, ProcAssumption DEF RunUntil, Reason
  <2>6. TimeTypeOK' /\ SubTypeOK' /\ ProcessTypeOK'
    BY <1>2, ProcAssumption DEF RunUntil, TimeTypeOK, subVars, SubTypeOK, frameVars, ProcessTypeOK
  <2>7. left' = 0 /\ until' # None
    BY <1>2, <2>3, ProcAssumption DEF RunUntil, ControlInv
  <2>8. NothingOverdue' /\ ControlInv'
    BY <1>2, <2>7 DEF RunUntil, NothingOverdue, ControlInv
  <2>9. DeadlineInv'
    BY <1>2, <2>2, <2>7 DEF RunUntil, TimeTypeOK, DeadlineInv
  <2> QED
    BY <2>1, <2>4, <2>5, <2>6, <2>8, <2>9
<1> QED
  BY <1>1, <1>2 DEF BenchCall
-----------------------------------------------------------------------------
LEMMA TimeStep == TimeInv /\ [Next]_vars => TimeInv'
<1> SUFFICES ASSUME TimeInv, [Next]_vars
             PROVE  TimeInv'
  OBVIOUS
<1>1. CASE UNCHANGED vars
  <2> USE <1>1 DEF TimeInv, TypeOK, vars
  <2>1. LoopTypeOK' /\ TimeTypeOK' /\ StackTypeOK'
    BY DEF loopVars, LoopTypeOK, TimeTypeOK, stackVars, StackTypeOK
  <2>2. EventTypeOK' /\ SubTypeOK' /\ ProcessTypeOK'
    BY DEF eventVars, EventTypeOK, subVars, SubTypeOK, frameVars, ProcessTypeOK
  <2>3. NothingOverdue' /\ ControlInv' /\ DeadlineInv'
    BY DEF NothingOverdue, ControlInv, DeadlineInv, NothingScheduled, loopVars, stackVars,
           eventVars
  <2> QED
    BY <2>1, <2>2, <2>3
<1>2. CASE KernelStep
  BY <1>2, TimeEnter, TimeResume, TimeEndEvaluation, TimeTrigger, TimeRelease,
     TimeEvalReturn, TimeAdvance, TimeRunReturn, TimeUntilTest, TimeUnwind
  DEF KernelStep
<1>3. CASE Rest
  BY <1>1, <1>3 DEF Rest
<1> QED
  BY <1>1, <1>2, <1>3, TimeDesignCall, TimeProcessStep, TimeBenchCall DEF Next

(***************************************************************************)
(* The inductive invariant.                                                *)
(***************************************************************************)
THEOREM TimeCorrect == Spec => []TimeInv
  BY TimeInit, TimeStep, PTL DEF Spec

(***************************************************************************)
(* Every variable keeps its type.  In particular time_inc never wraps: a   *)
(* time step of run() is never longer than what is left, and the deadline  *)
(* of run_until() has never passed when run(deadline - time_) is called.   *)
(***************************************************************************)
THEOREM TypeCorrect == Spec => []TypeOK
<1>1. TimeInv => TypeOK
  BY DEF TimeInv
<1> QED
  BY <1>1, TimeCorrect, PTL

(***************************************************************************)
(* No time event is left behind, however the steps of run() are cut.       *)
(***************************************************************************)
THEOREM NeverOverdue == Spec => []NothingOverdue
<1>1. TimeInv => NothingOverdue
  BY DEF TimeInv
<1> QED
  BY <1>1, TimeCorrect, PTL

(***************************************************************************)
(* Time only advances when the design has settled.                         *)
(***************************************************************************)
THEOREM AdvancesSettled == Spec => TimeAdvancesSettled
<1> DEFINE Settled == evalStack = <<>> /\ updateStack = {} /\ eventStack = <<>>
<1>1. TimeInv /\ [Next]_vars => [time' # time => Settled]_vars
  <2> SUFFICES ASSUME TimeInv, Next, time' # time
               PROVE  Settled
    BY DEF vars
  <2>1. Advance
    <3>1. ~DesignCall
      BY DEF DesignCall, Notify, Write, InitializeTrue, InitializeFalse, Disable, Enable,
             Always, Spawn
    <3>2. ~ProcessStep
      BY DEF ProcessStep, NextTriggerEvents, NextTriggerTime, MethodReturn, MethodThrow,
             WaitStatic, WaitTime, WaitEvents, WaitEventsTimeout, Suspend, CoroReturn,
             CoroThrow
    <3>3. ~BenchCall /\ ~Rest
      BY DEF BenchCall, Run, RunUntil, Rest, vars
    <3>4. KernelStep
      BY <3>1, <3>2, <3>3 DEF Next
    <3> QED
      BY <3>4 DEF KernelStep, Enter, Resume, EndEvaluation, Trigger, EndRound, Release,
                  EvalReturn, RunReturn, LeaveUntil, UntilTest, UntilRun, Unwind
  <2> QED
    BY <2>1 DEF Advance, TimeInv, ControlInv, NothingScheduled
<1> QED
  BY <1>1, TimeCorrect, PTL DEF Spec, TimeAdvancesSettled

(***************************************************************************)
(* run_until() with a timeout stops at its deadline, and throws            *)
(* TimeoutError nowhere else.                                              *)
(***************************************************************************)
THEOREM DeadlineKept == Spec => UntilKeepsDeadline
<1> DEFINE InTime  == until # None /\ until.deadline # 0 => time <= until.deadline
           TimedOutAt == pc = "step" /\ until # None /\ until' = None =>
                           time = until.deadline /\ evalStack = <<>> /\ ~done[until.proc]
<1>1. TimeInv => InTime
  BY DEF TimeInv, DeadlineInv, TypeOK, TimeTypeOK, LoopTypeOK, Until
<1>2. TimeInv /\ [Next]_vars => [TimedOutAt]_vars
  <2> SUFFICES ASSUME TimeInv, Next, pc = "step", until # None, until' = None
               PROVE  time = until.deadline /\ evalStack = <<>> /\ ~done[until.proc]
    BY DEF vars
  <2>1. RunReturn
    <3>1. ~DesignCall
      BY DEF DesignCall, Notify, Write, InitializeTrue, InitializeFalse, Disable, Enable,
             Always, Spawn, MayCall
    <3>2. ~ProcessStep
      BY DEF ProcessStep, NextTriggerEvents, NextTriggerTime, MethodReturn, MethodThrow,
             WaitStatic, WaitTime, WaitEvents, WaitEventsTimeout, Suspend, CoroReturn,
             CoroThrow, Runs
    <3>3. ~BenchCall /\ ~Rest
      BY DEF BenchCall, Run, RunUntil, Rest
    <3>4. KernelStep
      BY <3>1, <3>2, <3>3 DEF Next
    <3> QED
      BY <3>4 DEF KernelStep, Enter, Resume, EndEvaluation, Trigger, EndRound, Release,
                  EvalReturn, Advance, UntilTest, Unwind
  <2>2. until.expired /\ left = 0
    BY <2>1 DEF RunReturn, loopVars
  <2>3. time \in Nat
    BY DEF TimeInv, TypeOK, TimeTypeOK
  <2> QED
    BY <2>2, <2>3 DEF TimeInv, DeadlineInv, NothingScheduled
<1> QED
  BY <1>1, <1>2, TimeCorrect, PTL DEF Spec, UntilKeepsDeadline

-----------------------------------------------------------------------------

(***************************************************************************)
(* Lemmas about sequences without repetitions.                             *)
(***************************************************************************)

\* Removing p from a sequence without repetitions removes it for good.
LEMMA WithoutElements ==
  ASSUME NEW S, NEW s \in Seq(S), Distinct(s), NEW p \in Range(s)
  PROVE  /\ Distinct(Without(s, p))
         /\ Range(Without(s, p)) = Range(s) \ {p}
<1> DEFINE LastAt(i) == i \in DOMAIN s /\ s[i] = p /\ \A j \in DOMAIN s : j > i => s[j] # p
           at == CHOOSE i \in DOMAIN s : s[i] = p /\ \A j \in DOMAIN s : j > i => s[j] # p
           n == Len(s) - 1
           old(i) == IF i < at THEN i ELSE i + 1
           r == [i \in 1..n |-> s[old(i)]]
<1>1. Len(s) \in Nat /\ DOMAIN s = 1..Len(s)
  BY LenProperties
<1>2. at \in 1..Len(s) /\ s[at] = p
  <2>1. \E i \in DOMAIN s : s[i] = p
    BY DEF Range
  <2>2. \E i \in DOMAIN s : s[i] = p /\ \A j \in DOMAIN s : j > i => s[j] # p
    BY <1>1, <2>1 DEF Distinct
  <2> QED
    BY <1>1, <2>2
<1>3. n \in Nat
  BY <1>1, <1>2
<1>4. Without(s, p) = r
  <2>1. Without(s, p) = [i \in 1..n |-> IF i < at THEN s[i] ELSE s[i + 1]]
    BY DEF Without
  <2> QED
    BY <2>1
<1> HIDE DEF at
<1>5. \A i \in 1..n : old(i) \in 1..Len(s) /\ old(i) # at
  BY <1>1, <1>2
<1>6. \A i, j \in 1..n : old(i) = old(j) => i = j
  BY <1>2, <1>3
<1>7. Distinct(r)
  BY <1>1, <1>5, <1>6 DEF Distinct
<1>8. Range(r) \subseteq Range(s) \ {p}
  <2>1. \A i \in 1..n : s[old(i)] # p
    BY <1>1, <1>2, <1>5 DEF Distinct
  <2> QED
    BY <1>1, <1>5, <2>1 DEF Range
<1>9. ASSUME NEW q \in Range(s), q # p
      PROVE  q \in Range(r)
  <2>1. PICK j \in 1..Len(s) : s[j] = q
    BY <1>1 DEF Range
  <2> DEFINE k == IF j < at THEN j ELSE j - 1
  <2>2. j # at
    BY <1>2, <1>9, <2>1
  <2>3. k \in 1..n /\ old(k) = j
    BY <1>1, <1>2, <2>2
  <2>4. r[k] = q
    BY <2>1, <2>3
  <2> QED
    BY <2>3, <2>4 DEF Range
<1> QED
  BY <1>4, <1>7, <1>8, <1>9
-----------------------------------------------------------------------------
(***************************************************************************)
(* The operations of FlaggedStack.                                         *)
(***************************************************************************)
LEMMA PushFlags ==
  ASSUME StackTypeOK, FlagsMatchStack, NEW p \in Proc, NEW why, Push(p, why)
  PROVE  FlagsMatchStack'
<1>1. CASE scheduled[p]
  BY <1>1 DEF StackTypeOK, FlagsMatchStack, Queued, Push
<1>2. CASE ~scheduled[p]
  <2>1. p \notin Range(evalStack) /\ Distinct(evalStack)
    BY <1>2 DEF FlagsMatchStack, Queued, Distinct
  <2>2. Distinct(evalStack') /\ Range(evalStack') = Range(evalStack) \cup {p}
    BY <1>2, <2>1, AppendElements DEF StackTypeOK, Push
  <2>3. \A q \in Proc : scheduled'[q] <=> (scheduled[q] \/ q = p)
    BY DEF StackTypeOK, Push
  <2> QED
    BY <2>2, <2>3 DEF FlagsMatchStack, Queued, Distinct
<1> QED
  BY <1>1, <1>2

LEMMA PushBothFlags ==
  ASSUME StackTypeOK, FlagsMatchStack, NEW first \in SUBSET Proc,
         NEW second \in SUBSET Proc, first \cap second = {}, NEW why,
         PushBoth(first, second, why)
  PROVE  FlagsMatchStack'
<1> DEFINE New(ps) == {p \in ps : ~scheduled[p]}
<1>1. PICK f \in SetToSeqs(New(first)), s \in SetToSeqs(New(second)) :
        evalStack' = evalStack \o f \o s
  BY DEF PushBoth
<1>2. IsFiniteSet(New(first)) /\ IsFiniteSet(New(second))
  BY FiniteProcs
<1>3. /\ Distinct(f) /\ Range(f) = New(first) /\ f \in Seq(Proc)
      /\ Distinct(s) /\ Range(s) = New(second) /\ s \in Seq(Proc)
  BY <1>2, SetToSeqsElements, SeqMonotonic
<1>4. evalStack \in Seq(Proc) /\ Distinct(evalStack)
  BY DEF StackTypeOK, FlagsMatchStack, Distinct
<1>5. \A p \in Proc : scheduled[p] <=> p \in Range(evalStack)
  BY DEF FlagsMatchStack, Queued
<1> DEFINE middle == evalStack \o f
<1>6. /\ middle \in Seq(Proc)
      /\ Distinct(middle)
      /\ Range(middle) = Range(evalStack) \cup New(first)
  BY <1>3, <1>4, <1>5, ConcatProperties, ConcatElements
<1>7. evalStack' = middle \o s
  BY <1>1
<1> HIDE DEF middle
<1>8. /\ Distinct(evalStack')
      /\ Range(evalStack') = Range(evalStack) \cup New(first) \cup New(second)
  <2>1. Range(middle) \cap Range(s) = {}
    BY <1>3, <1>5, <1>6
  <2>2. Distinct(middle \o s) /\ Range(middle \o s) = Range(middle) \cup Range(s)
    BY <1>3, <1>6, <2>1, ConcatElements
  <2> QED
    BY <1>3, <1>6, <1>7, <2>2
<1>9. \A p \in Proc : scheduled'[p] <=> (scheduled[p] \/ p \in first \cup second)
  BY DEF PushBoth
<1> QED
  BY <1>5, <1>8, <1>9 DEF FlagsMatchStack, Queued, Distinct

LEMMA EraseFlags ==
  ASSUME StackTypeOK, FlagsMatchStack, NEW p \in Proc, Erase(p)
  PROVE  FlagsMatchStack'
<1>1. CASE scheduled[p] /\ p \in Range(evalStack)
  <2>1. Distinct(evalStack') /\ Range(evalStack') = Range(evalStack) \ {p}
    BY <1>1, WithoutElements DEF StackTypeOK, FlagsMatchStack, Distinct, Erase
  <2>2. \A q \in Proc : scheduled'[q] <=> (scheduled[q] /\ q # p)
    BY <1>1 DEF StackTypeOK, Erase
  <2> QED
    BY <2>1, <2>2 DEF FlagsMatchStack, Queued, Distinct
<1>2. CASE ~(scheduled[p] /\ p \in Range(evalStack))
  BY <1>2 DEF Erase, stackVars, FlagsMatchStack, Queued
<1> QED
  BY <1>1, <1>2

\* Popping the top of the stack.
LEMMA ResumeFlags ==
  ASSUME StackTypeOK, FlagsMatchStack, NEW p \in Proc, Resume(p)
  PROVE  FlagsMatchStack'
<1> DEFINE n == Len(evalStack)
<1>1. /\ n \in Nat \ {0}
      /\ DOMAIN evalStack = 1..n
      /\ \A i \in 1..n : evalStack[i] \in Proc
  BY EmptySeq, ElementOfSeq, LenProperties DEF StackTypeOK, Resume
<1>2. Distinct(evalStack) /\ evalStack[n] = p
  BY DEF FlagsMatchStack, Distinct, Resume
<1>3. /\ evalStack' \in Seq(Proc)
      /\ Len(evalStack') = n - 1
      /\ \A i \in 1..(n - 1) : evalStack'[i] = evalStack[i]
  BY <1>1, SubSeqProperties DEF Resume
<1>4. DOMAIN evalStack' = 1..(n - 1)
  BY <1>3, LenProperties
<1>5. Distinct(evalStack')
  BY <1>1, <1>2, <1>3, <1>4 DEF Distinct
<1>6. \A q \in Proc : q \in Range(evalStack') <=> q \in Range(evalStack) /\ q # p
  BY <1>1, <1>2, <1>3, <1>4 DEF Range, Distinct
<1>7. \A q \in Proc : scheduled'[q] <=> scheduled[q] /\ q # p
  BY DEF StackTypeOK, Resume
<1> QED
  BY <1>5, <1>6, <1>7 DEF FlagsMatchStack, Queued, Distinct
-----------------------------------------------------------------------------
(***************************************************************************)
(* Every step keeps the flags right.                                       *)
(***************************************************************************)
LEMMA FlagsInit == Init => FlagsMatchStack
<1> SUFFICES ASSUME Init
             PROVE  FlagsMatchStack
  OBVIOUS
<1>1. IsFiniteSet(Registered \ Dormant) /\ Registered \ Dormant \subseteq Proc
  BY FiniteProcs DEF Registered
<1>2. Distinct(evalStack) /\ Range(evalStack) = Registered \ Dormant
  BY <1>1, SetToSeqsElements DEF Init
<1> QED
  BY <1>1, <1>2 DEF Init, FlagsMatchStack, Queued, Distinct

LEMMA FlagsUnchanged ==
  ASSUME FlagsMatchStack, UNCHANGED stackVars
  PROVE  FlagsMatchStack'
  BY DEF FlagsMatchStack, Queued, stackVars

LEMMA FlagsDesignCall == TypeOK /\ FlagsMatchStack /\ DesignCall => FlagsMatchStack'
<1> SUFFICES ASSUME TypeOK, FlagsMatchStack, DesignCall
             PROVE  FlagsMatchStack'
  OBVIOUS
<1>1. \/ \E p \in Proc, why \in Reason : Push(p, why)
      \/ \E p \in Proc : Erase(p)
      \/ UNCHANGED stackVars
  BY ProcAssumption
  DEF DesignCall, Registered, Reason, Notify, Write, InitializeTrue, InitializeFalse,
      Disable, Enable, Always, Spawn
<1> QED
  BY <1>1, PushFlags, EraseFlags, FlagsUnchanged DEF TypeOK

LEMMA FlagsProcessStep == FlagsMatchStack /\ ProcessStep => FlagsMatchStack'
<1> SUFFICES ASSUME FlagsMatchStack, ProcessStep
             PROVE  FlagsMatchStack'
  OBVIOUS
<1>1. UNCHANGED stackVars
  BY DEF ProcessStep, NextTriggerEvents, NextTriggerTime, MethodReturn, MethodThrow,
         WaitStatic, WaitTime, WaitEvents, WaitEventsTimeout, Suspend, CoroReturn, CoroThrow
<1> QED
  BY <1>1, FlagsUnchanged

LEMMA FlagsTrigger ==
  ASSUME TypeOK, FlagsMatchStack, NEW e \in AllEvent, Trigger(e)
  PROVE  FlagsMatchStack'
<1> DEFINE wakes   == StaticWoken(e)
           waiters == {p \in Proc : dynSubs[e][p] > 0}
           why     == [p \in Proc |-> IF p \in wakes THEN "static" ELSE "event"]
<1>1. wakes \in SUBSET Proc /\ waiters \ wakes \in SUBSET Proc
  BY DEF StaticWoken, TypeOK, SubTypeOK
<1>2. PushBoth(wakes, waiters \ wakes, why)
  BY DEF Trigger
<1> HIDE DEF why, wakes, waiters
<1> QED
  BY <1>1, <1>2, PushBothFlags DEF TypeOK

LEMMA FlagsAdvance == TypeOK /\ FlagsMatchStack /\ Advance => FlagsMatchStack'
<1> SUFFICES ASSUME TypeOK, FlagsMatchStack, Advance
             PROVE  FlagsMatchStack'
  OBVIOUS
<1> DEFINE due   == {t \in timeQ : t.at = time + NextStep}
           extra == {t.proc : t \in {u \in due : u.tag = Sticky}}
           woken == {t.proc : t \in {u \in due : u.tag = wake[u.proc]}}
           why   == [p \in Proc |-> "time"]
<1>1. extra \cup woken \in SUBSET Proc
  BY DEF TypeOK, TimeTypeOK, TimeEvent
<1>2. PushBoth(extra \cup woken, {}, why)
  BY DEF Advance
<1> HIDE DEF why, extra, woken
<1> QED
  BY <1>1, <1>2, PushBothFlags DEF TypeOK

LEMMA FlagsRemoveProcess ==
  ASSUME TypeOK, FlagsMatchStack, NEW p \in Proc, RemoveProcess(p)
  PROVE  FlagsMatchStack'
  BY EraseFlags DEF RemoveProcess, TypeOK

LEMMA FlagsStep == TimeInv /\ FlagsMatchStack /\ [Next]_vars => FlagsMatchStack'
<1> SUFFICES ASSUME TimeInv, FlagsMatchStack, [Next]_vars
             PROVE  FlagsMatchStack'
  OBVIOUS
<1>1. TypeOK
  BY DEF TimeInv
<1>2. ASSUME UNCHANGED stackVars
      PROVE  FlagsMatchStack'
  BY <1>2, FlagsUnchanged
<1>3. ASSUME LeaveUntil, until # None
      PROVE  FlagsMatchStack'
  <2>1. until.proc \in Proc /\ RemoveProcess(until.proc)
    BY <1>1, <1>3, ProcAssumption DEF LeaveUntil, TypeOK, LoopTypeOK, Until
  <2> QED
    BY <1>1, <2>1, FlagsRemoveProcess
<1>4. CASE Release
  <2>1. Head(completed) \in Proc /\ RemoveProcess(Head(completed))
    BY <1>1, <1>4, HeadTailProperties DEF Release, TypeOK, ProcessTypeOK
  <2> QED
    BY <1>1, <2>1, FlagsRemoveProcess
<1>5. CASE RunReturn \/ UntilTest \/ Unwind
  <2>1. UNCHANGED stackVars \/ (LeaveUntil /\ until # None)
    BY <1>5 DEF RunReturn, UntilTest, UntilRun, Unwind, TimeInv, ControlInv
  <2> QED
    BY <1>2, <1>3, <2>1
<1>6. CASE Enter \/ EndEvaluation \/ EndRound \/ EvalReturn
  BY <1>2, <1>6 DEF Enter, EndEvaluation, EndRound, EvalReturn
<1>7. CASE KernelStep
  BY <1>1, <1>4, <1>5, <1>6, <1>7, ResumeFlags, FlagsTrigger, FlagsAdvance
  DEF KernelStep, TypeOK
<1>8. CASE BenchCall
  <2>1. \/ UNCHANGED stackVars
        \/ \E p \in Proc, why \in Reason : Push(p, why)
    BY <1>8, ProcAssumption DEF BenchCall, Run, RunUntil, Reason
  <2> QED
    BY <1>1, <1>2, <2>1, PushFlags DEF TypeOK
<1>9. CASE Rest \/ UNCHANGED vars
  BY <1>2, <1>9 DEF Rest, vars
<1> QED
  BY <1>1, <1>7, <1>8, <1>9, FlagsDesignCall, FlagsProcessStep DEF Next

(***************************************************************************)
(* The flag in a process says whether it is on the evaluation stack, and   *)
(* no process is on it twice.                                              *)
(***************************************************************************)
THEOREM FlagsCorrect == Spec => []FlagsMatchStack
  BY FlagsInit, FlagsStep, TimeCorrect, PTL DEF Spec
-----------------------------------------------------------------------------
(***************************************************************************)
(* A subscription is recorded in the event and in the process.  What ends  *)
(* a wait, or a process, leaves no subscription behind in an event.        *)
(***************************************************************************)

StaticMirrored == \A p \in Proc, e \in AllEvent : p \in staticSubs[e] <=> e \in staticEvents[p]
DynMirrored    == \A p \in Proc, e \in AllEvent : dynSubs[e][p] = dynEvents[p][e]

LEMMA MirroredParts == SubscriptionsMirrored <=> StaticMirrored /\ DynMirrored
  BY DEF SubscriptionsMirrored, StaticMirrored, DynMirrored

LEMMA MirroredInit == Init => SubscriptionsMirrored
<1> SUFFICES ASSUME Init, NEW p \in Proc, NEW e \in AllEvent
             PROVE  /\ dynSubs[e][p] = dynEvents[p][e]
                    /\ p \in staticSubs[e] <=> e \in staticEvents[p]
  BY DEF SubscriptionsMirrored
<1>1. dynSubs[e][p] = 0 /\ dynEvents[p][e] = 0
  BY DEF Init, NoEvents
<1>2. p \in staticSubs[e] <=> p \in Registered /\ e \in Sensitivity[p]
  BY DEF Init
<1>3. staticEvents[p] = IF p \in Registered THEN Sensitivity[p] ELSE {}
  BY DEF Init
<1> QED
  BY <1>1, <1>2, <1>3
-----------------------------------------------------------------------------
(***************************************************************************)
(* Subscribing and unsubscribing.                                          *)
(***************************************************************************)
LEMMA AddDynamicMirrored ==
  ASSUME SubTypeOK, DynMirrored, NEW p \in Proc, NEW w \in [AllEvent -> Nat],
         AddDynamic(p, w)
  PROVE  DynMirrored'
<1> SUFFICES ASSUME NEW q \in Proc, NEW e \in AllEvent
             PROVE  dynSubs'[e][q] = dynEvents'[q][e]
  BY DEF DynMirrored
<1>1. dynSubs'[e][q] = IF q = p THEN dynSubs[e][q] + w[e] ELSE dynSubs[e][q]
  BY DEF AddDynamic, SubTypeOK
<1>2. dynEvents'[q][e] = IF q = p THEN dynEvents[q][e] + w[e] ELSE dynEvents[q][e]
  BY DEF AddDynamic, SubTypeOK
<1> QED
  BY <1>1, <1>2 DEF DynMirrored

LEMMA CancelDynamicMirrored ==
  ASSUME SubTypeOK, DynMirrored, NEW ps, CancelDynamic(ps)
  PROVE  DynMirrored'
<1> SUFFICES ASSUME NEW p \in Proc, NEW e \in AllEvent
             PROVE  dynSubs'[e][p] = dynEvents'[p][e]
  BY DEF DynMirrored
<1>1. dynSubs'[e][p] = IF p \in ps THEN Monus(dynSubs[e][p], dynEvents[p][e]) ELSE dynSubs[e][p]
  BY DEF CancelDynamic
<1>2. dynEvents'[p][e] = IF p \in ps THEN 0 ELSE dynEvents[p][e]
  BY DEF CancelDynamic, NoEvents
<1>3. dynSubs[e][p] = dynEvents[p][e] /\ dynSubs[e][p] \in Nat
  BY DEF DynMirrored, SubTypeOK
<1> QED
  BY <1>1, <1>2, <1>3 DEF Monus

LEMMA TriggerMirrored ==
  ASSUME SubTypeOK, SubscriptionsMirrored, NEW e \in AllEvent, Trigger(e)
  PROVE  SubscriptionsMirrored'
<1> DEFINE waiters == {p \in Proc : dynSubs[e][p] > 0}
<1>1. DynMirrored'
  <2> SUFFICES ASSUME NEW p \in Proc, NEW f \in AllEvent
               PROVE  dynSubs'[f][p] = dynEvents'[p][f]
    BY DEF DynMirrored
  <2>1. dynSubs'[f][p] = IF p \notin waiters THEN dynSubs[f][p]
                         ELSE IF f = e THEN 0 ELSE Monus(dynSubs[f][p], dynEvents[p][f])
    BY DEF Trigger
  <2>2. dynEvents'[p][f] = IF p \in waiters THEN 0 ELSE dynEvents[p][f]
    BY DEF Trigger, NoEvents
  <2>3. dynSubs[f][p] = dynEvents[p][f] /\ dynSubs[f][p] \in Nat
    BY DEF SubscriptionsMirrored, SubTypeOK
  <2> QED
    BY <2>1, <2>2, <2>3 DEF Monus
<1>2. StaticMirrored'
  BY DEF Trigger, SubscriptionsMirrored, StaticMirrored
<1> QED
  BY <1>1, <1>2 DEF SubscriptionsMirrored, StaticMirrored, DynMirrored

LEMMA UnscheduleMirrored ==
  ASSUME SubTypeOK, SubscriptionsMirrored, NEW p \in Proc, Unschedule(p)
  PROVE  SubscriptionsMirrored'
<1>1. DynMirrored'
  BY CancelDynamicMirrored, MirroredParts DEF Unschedule
<1>2. StaticMirrored'
  <2> SUFFICES ASSUME NEW q \in Proc, NEW e \in AllEvent
               PROVE  q \in staticSubs'[e] <=> e \in staticEvents'[q]
    BY DEF StaticMirrored
  <2>1. staticSubs'[e] = IF e \in staticEvents[p] THEN staticSubs[e] \ {p} ELSE staticSubs[e]
    BY DEF Unschedule, CancelStatic
  <2>2. staticEvents'[q] = IF q = p THEN {} ELSE staticEvents[q]
    BY DEF Unschedule, CancelStatic, SubTypeOK
  <2> QED
    BY <2>1, <2>2 DEF SubscriptionsMirrored
<1> QED
  BY <1>1, <1>2 DEF SubscriptionsMirrored, StaticMirrored, DynMirrored

LEMMA MirroredUnchanged ==
  ASSUME SubscriptionsMirrored, UNCHANGED subVars
  PROVE  SubscriptionsMirrored'
  BY DEF SubscriptionsMirrored, subVars
-----------------------------------------------------------------------------
(***************************************************************************)
(* Every step.                                                             *)
(***************************************************************************)
LEMMA MirroredDesignCall ==
  TypeOK /\ SubscriptionsMirrored /\ DesignCall => SubscriptionsMirrored'
<1> SUFFICES ASSUME TypeOK, SubscriptionsMirrored, DesignCall
             PROVE  SubscriptionsMirrored'
  OBVIOUS
<1> USE DEF TypeOK
<1>1. ASSUME NEW p \in Registered, Disable(p)
      PROVE  SubscriptionsMirrored'
  <2>1. DynMirrored'
    BY <1>1, CancelDynamicMirrored, MirroredParts DEF Disable
  <2>2. StaticMirrored'
    BY <1>1 DEF Disable, StaticMirrored, SubscriptionsMirrored
  <2> QED
    BY <2>1, <2>2 DEF SubscriptionsMirrored, StaticMirrored, DynMirrored
<1>2. ASSUME NEW p \in Registered, NEW e \in Event \cup Signal, Always(p, e)
      PROVE  SubscriptionsMirrored'
  <2> SUFFICES ASSUME NEW q \in Proc, NEW f \in AllEvent
               PROVE  /\ dynSubs'[f][q] = dynEvents'[q][f]
                      /\ q \in staticSubs'[f] <=> f \in staticEvents'[q]
    BY DEF SubscriptionsMirrored
  <2>1. staticSubs'[f] = IF f = e THEN staticSubs[f] \cup {p} ELSE staticSubs[f]
    BY <1>2 DEF Always, SubTypeOK
  <2>2. staticEvents'[q] = IF q = p THEN staticEvents[q] \cup {e} ELSE staticEvents[q]
    BY <1>2 DEF Always, SubTypeOK, Registered
  <2>3. dynSubs'[f][q] = dynEvents'[q][f]
    BY <1>2 DEF Always, SubscriptionsMirrored
  <2> QED
    BY <2>1, <2>2, <2>3 DEF SubscriptionsMirrored
<1>3. \/ UNCHANGED subVars
      \/ \E p \in Registered : Disable(p)
      \/ \E p \in Registered, e \in Event \cup Signal : Always(p, e)
  BY DEF DesignCall, Notify, Write, InitializeTrue, InitializeFalse, Enable, Spawn
<1> QED
  BY <1>1, <1>2, <1>3, MirroredUnchanged

LEMMA MirroredProcessStep ==
  TypeOK /\ SubscriptionsMirrored /\ ProcessStep => SubscriptionsMirrored'
<1> SUFFICES ASSUME TypeOK, SubscriptionsMirrored, ProcessStep
             PROVE  SubscriptionsMirrored'
  OBVIOUS
<1> USE DEF TypeOK
<1>1. ASSUME NEW p \in Proc, NEW w \in [AllEvent -> Nat], AddDynamic(p, w),
             UNCHANGED <<staticSubs, staticEvents>>
      PROVE  SubscriptionsMirrored'
  <2>1. DynMirrored'
    BY <1>1, AddDynamicMirrored, MirroredParts
  <2>2. StaticMirrored'
    BY <1>1 DEF StaticMirrored, SubscriptionsMirrored
  <2> QED
    BY <2>1, <2>2 DEF SubscriptionsMirrored, StaticMirrored, DynMirrored
<1>2. ASSUME NEW p \in Proc, AddNextDelta(p), UNCHANGED <<staticSubs, staticEvents>>
      PROVE  SubscriptionsMirrored'
  <2>1. [NoEvents EXCEPT ![NextDelta] = 1] \in [AllEvent -> Nat]
    BY DEF NoEvents
  <2> QED
    BY <1>1, <1>2, <2>1 DEF AddNextDelta
<1>3. ASSUME NEW p \in Proc, Complete(p)
      PROVE  SubscriptionsMirrored'
  BY <1>3, UnscheduleMirrored DEF Complete
<1>4. ASSUME NEW p \in Proc, NEW w \in WaitLists,
             \/ NextTriggerEvents(p, w)
             \/ WaitEvents(p, w)
             \/ \E d \in Delays \ {0} : WaitEventsTimeout(p, w, d)
      PROVE  SubscriptionsMirrored'
  <2>1. AddDynamic(p, w) /\ UNCHANGED <<staticSubs, staticEvents>>
    BY <1>4 DEF NextTriggerEvents, WaitEvents, WaitEventsTimeout, Suspend
  <2> QED
    BY <1>1, <2>1, EventAssumption
<1>5. ASSUME NEW p \in Proc, NEW d \in Delays, NextTriggerTime(p, d) \/ WaitTime(p, d)
      PROVE  SubscriptionsMirrored'
  <2>1. \/ AddNextDelta(p) /\ UNCHANGED <<staticSubs, staticEvents>>
        \/ UNCHANGED subVars
    BY <1>5 DEF NextTriggerTime, WaitTime, Suspend, subVars
  <2> QED
    BY <1>2, <2>1, MirroredUnchanged
<1>6. ASSUME NEW p \in Proc,
             WaitStatic(p) \/ MethodReturn(p) \/ MethodThrow(p) \/ CoroReturn(p) \/ CoroThrow(p)
      PROVE  SubscriptionsMirrored'
  <2>1. UNCHANGED subVars \/ Complete(p)
    BY <1>6 DEF WaitStatic, Suspend, MethodReturn, MethodThrow, CoroReturn, CoroThrow, subVars
  <2> QED
    BY <1>3, <2>1, MirroredUnchanged
<1> QED
  BY <1>4, <1>5, <1>6 DEF ProcessStep

LEMMA MirroredStep ==
  TimeInv /\ SubscriptionsMirrored /\ [Next]_vars => SubscriptionsMirrored'
<1> SUFFICES ASSUME TimeInv, SubscriptionsMirrored, [Next]_vars
             PROVE  SubscriptionsMirrored'
  OBVIOUS
<1>1. TypeOK
  BY DEF TimeInv
<1>2. ASSUME NEW p \in Proc, RemoveProcess(p)
      PROVE  SubscriptionsMirrored'
  BY <1>1, <1>2, UnscheduleMirrored DEF RemoveProcess, TypeOK
<1>3. CASE Release
  <2>1. Head(completed) \in Proc /\ RemoveProcess(Head(completed))
    BY <1>1, <1>3, HeadTailProperties DEF Release, TypeOK, ProcessTypeOK
  <2> QED
    BY <1>2, <2>1
<1>4. CASE RunReturn \/ UntilTest \/ Unwind
  <2>1. UNCHANGED subVars \/ (LeaveUntil /\ until # None)
    BY <1>4 DEF RunReturn, UntilTest, UntilRun, Unwind, TimeInv, ControlInv
  <2>2. ASSUME LeaveUntil, until # None
        PROVE  until.proc \in Proc /\ RemoveProcess(until.proc)
    BY <1>1, <2>2, ProcAssumption DEF LeaveUntil, TypeOK, LoopTypeOK, Until
  <2> QED
    BY <1>2, <2>1, <2>2, MirroredUnchanged
<1>5. CASE Advance
  <2> DEFINE due   == {t \in timeQ : t.at = time + NextStep}
             woken == {t.proc : t \in {u \in due : u.tag = wake[u.proc]}}
  <2>1. CancelDynamic(woken) /\ UNCHANGED <<staticSubs, staticEvents>>
    BY <1>5 DEF Advance
  <2> HIDE DEF woken
  <2>2. DynMirrored'
    BY <1>1, <2>1, CancelDynamicMirrored, MirroredParts DEF TypeOK
  <2>3. StaticMirrored'
    BY <2>1 DEF StaticMirrored, SubscriptionsMirrored
  <2> QED
    BY <2>2, <2>3 DEF SubscriptionsMirrored, StaticMirrored, DynMirrored
<1>6. CASE \E e \in AllEvent : Trigger(e)
  BY <1>1, <1>6, TriggerMirrored DEF TypeOK
<1>7. CASE Enter \/ EndEvaluation \/ EndRound \/ EvalReturn \/ \E p \in Proc : Resume(p)
  BY <1>7, MirroredUnchanged DEF Enter, EndEvaluation, EndRound, EvalReturn, Resume
<1>8. CASE BenchCall
  BY <1>8, MirroredUnchanged DEF BenchCall, Run, RunUntil
<1>9. CASE Rest \/ UNCHANGED vars
  BY <1>9, MirroredUnchanged DEF Rest, vars
<1>10. CASE KernelStep
  BY <1>3, <1>4, <1>5, <1>6, <1>7, <1>10 DEF KernelStep
<1> QED
  BY <1>1, <1>8, <1>9, <1>10, MirroredDesignCall, MirroredProcessStep DEF Next

(***************************************************************************)
(* The subscriptions of the events and those of the processes agree.       *)
(***************************************************************************)
THEOREM MirroredCorrect == Spec => []SubscriptionsMirrored
  BY MirroredInit, MirroredStep, TimeCorrect, PTL DEF Spec
-----------------------------------------------------------------------------
(***************************************************************************)
(* Nothing refers to a destroyed process.  What makes it inductive is that *)
(* a completed process, which is destroyed at the end of eval(), sleeps    *)
(* until then: it is not scheduled or subscribed, and the time events that *)
(* it has left are of waits that have ended, so that it does not complete  *)
(* a second time.                                                          *)
(***************************************************************************)
Settled(p) == life[p] # "live" \/ p \in Range(completed)

Asleep(p) == ~scheduled[p] /\ \A e \in AllEvent : dynSubs[e][p] = 0 /\ p \notin staticSubs[e]

\* A time event is of a wait that has ended or of the present one, or has no tag.
TagInv ==
  \A t \in timeQ :
    /\ timeUsed[t.proc]
    /\ t.tag = Sticky => t.proc \notin Coro
    /\ t.tag <= wake[t.proc]

DestroyedInv ==
  \A p \in Proc : life[p] # "live" =>
    /\ p \notin Range(completed)
    /\ current # p
    /\ \A t \in timeQ : t.proc # p
    /\ until # None => until.proc # p

CompletedInv ==
  /\ Distinct(completed)
  /\ Range(completed) \subseteq Spawned
  /\ \A t \in timeQ : t.proc \in Range(completed) => t.tag # wake[t.proc]

\* Only a registered process can be scheduled while it runs.
RunningInv ==
  pc = "body" /\ current \in Spawned => ~scheduled[current] /\ current \notin Range(completed)

LifeInv ==
  /\ \A p \in Proc : Settled(p) => Asleep(p)
  /\ \A p \in Registered : life[p] = "live"
  /\ TagInv
  /\ DestroyedInv
  /\ CompletedInv
  /\ RunningInv

LEMMA LifeInit == Init => LifeInv
<1> SUFFICES ASSUME Init
             PROVE  LifeInv
  OBVIOUS
<1>1. Range(completed) = {} /\ Distinct(completed)
  BY DEF Init, Range, Distinct
<1>2. \A p \in Proc : Settled(p) => Asleep(p)
  BY <1>1 DEF Init, Settled, Asleep
<1>3. TagInv /\ DestroyedInv /\ CompletedInv /\ RunningInv
  BY <1>1, ProcAssumption DEF Init, TagInv, DestroyedInv, CompletedInv, RunningInv
<1>4. \A p \in Registered : life[p] = "live"
  BY DEF Init, Registered
<1> QED
  BY <1>2, <1>3, <1>4 DEF LifeInv

(***************************************************************************)
(* A step that creates, completes and destroys nothing: it must not touch  *)
(* what is settled.                                                        *)
(***************************************************************************)
LEMMA LifeKept ==
  ASSUME TypeOK, LifeInv, UNCHANGED <<life, completed>>,
         \A p \in Proc : Settled(p) => Asleep(p)' /\ wake'[p] = wake[p],
         TagInv', timeQ' \subseteq TimeEvent,
         \A t \in timeQ' : t \in timeQ \/ ~Settled(t.proc),
         until' = None \/ (until # None /\ until'.proc = until.proc),
         current' = current \/ (current' \in Proc /\ life[current'] = "live"),
         RunningInv'
  PROVE  LifeInv'
<1>1. \A p \in Proc : Settled(p)' => Asleep(p)'
  BY DEF Settled
<1>2. \A p \in Registered : life'[p] = "live"
  BY DEF LifeInv
<1>3. DestroyedInv'
  BY DEF LifeInv, DestroyedInv, Settled
<1>4. CompletedInv'
  <2>1. Distinct(completed') /\ Range(completed') \subseteq Spawned
    BY DEF LifeInv, CompletedInv
  <2>2. ASSUME NEW t \in timeQ', t.proc \in Range(completed')
        PROVE  t.tag # wake'[t.proc]
    <3>1. t.proc \in Proc /\ Settled(t.proc)
      BY <2>2 DEF TimeEvent, Settled
    <3>2. t \in timeQ /\ wake'[t.proc] = wake[t.proc]
      BY <3>1
    <3> QED
      BY <2>2, <3>2 DEF LifeInv, CompletedInv
  <2> QED
    BY <2>1, <2>2 DEF CompletedInv
<1> QED
  BY <1>1, <1>2, <1>3, <1>4 DEF LifeInv

\* A step that leaves the processes, their subscriptions and their time events alone.
LEMMA LifeUnchanged ==
  ASSUME TypeOK, LifeInv,
         UNCHANGED <<life, completed, scheduled, dynSubs, staticSubs, timeQ, timeUsed, wake, current>>,
         until' = None \/ (until # None /\ until'.proc = until.proc),
         pc' = "body" => pc = "body"
  PROVE  LifeInv'
<1>1. \A p \in Proc : Settled(p) => Asleep(p)' /\ wake'[p] = wake[p]
  BY DEF LifeInv, Asleep
<1>2. TagInv' /\ RunningInv'
  BY DEF LifeInv, TagInv, RunningInv
<1> QED
  BY <1>1, <1>2, LifeKept DEF TypeOK, TimeTypeOK
-----------------------------------------------------------------------------
(***************************************************************************)
(* Processes that are created, complete and are destroyed.                 *)
(***************************************************************************)
LEMMA LifeCreated ==
  ASSUME TypeOK, LifeInv, NEW p \in Proc, life[p] = "unborn",
         life' = [life EXCEPT ![p] = "live"], Push(p, "start"),
         UNCHANGED <<completed, dynSubs, staticSubs, timeQ, timeUsed, wake, current>>,
         until' = until \/ until'.proc = p,
         pc' = "body" => pc = "body"
  PROVE  LifeInv'
<1>1. \A q \in Proc : life'[q] = IF q = p THEN "live" ELSE life[q]
  BY DEF TypeOK, ProcessTypeOK
<1>2. \A q \in Proc : scheduled'[q] = (scheduled[q] \/ q = p)
  BY DEF Push, TypeOK, StackTypeOK
<1>3. p \notin Range(completed) /\ current # p
  BY DEF LifeInv, DestroyedInv
<1>4. \A q \in Proc : Settled(q)' => Asleep(q)'
  BY <1>1, <1>2, <1>3 DEF LifeInv, Settled, Asleep
<1>5. \A q \in Registered : life'[q] = "live"
  BY <1>1 DEF LifeInv, Registered
<1>6. TagInv' /\ CompletedInv'
  BY DEF LifeInv, TagInv, CompletedInv
<1>7. DestroyedInv'
  BY <1>1 DEF LifeInv, DestroyedInv
<1>8. RunningInv'
  BY <1>2, <1>3, ProcAssumption DEF LifeInv, RunningInv
<1> QED
  BY <1>4, <1>5, <1>6, <1>7, <1>8 DEF LifeInv

\* What unschedule() leaves of a process.
LEMMA UnscheduleElements ==
  ASSUME TypeOK, SubscriptionsMirrored, NEW p \in Proc, Unschedule(p)
  PROVE  /\ \A e \in AllEvent : dynSubs'[e][p] = 0 /\ p \notin staticSubs'[e]
         /\ \A e \in AllEvent, q \in Proc :
              q # p => dynSubs'[e][q] = dynSubs[e][q] /\ (q \in staticSubs'[e] => q \in staticSubs[e])
         /\ \A q \in Proc : wake'[q] = IF q = p THEN wake[p] + 1 ELSE wake[q]
<1>1. \A e \in AllEvent, q \in Proc :
        dynSubs'[e][q] = IF q = p THEN Monus(dynSubs[e][q], dynEvents[q][e]) ELSE dynSubs[e][q]
  BY DEF Unschedule, CancelDynamic
<1>2. \A e \in AllEvent : dynSubs[e][p] = dynEvents[p][e] /\ dynSubs[e][p] \in Nat
  BY DEF SubscriptionsMirrored, TypeOK, SubTypeOK
<1>3. \A e \in AllEvent : staticSubs'[e] = IF e \in staticEvents[p] THEN staticSubs[e] \ {p}
                                           ELSE staticSubs[e]
  BY DEF Unschedule, CancelStatic
<1>4. \A e \in AllEvent : p \in staticSubs[e] <=> e \in staticEvents[p]
  BY DEF SubscriptionsMirrored
<1>5. \A q \in Proc : wake'[q] = IF q = p THEN wake[p] + 1 ELSE wake[q]
  BY DEF Unschedule, TypeOK, TimeTypeOK
<1>6. \A e \in AllEvent : dynSubs'[e][p] = 0
  BY <1>1, <1>2 DEF Monus
<1> QED
  BY <1>1, <1>3, <1>4, <1>5, <1>6

LEMMA LifeCompleted ==
  ASSUME TypeOK, SubscriptionsMirrored, LifeInv, NEW p \in Coro, pc = "body", current = p,
         Complete(p), pc' # "body",
         UNCHANGED <<until, timeQ, timeUsed, scheduled, current, life>>
  PROVE  LifeInv'
<1>0. p \in Proc
  BY ProcAssumption
<1>1. /\ \A e \in AllEvent : dynSubs'[e][p] = 0 /\ p \notin staticSubs'[e]
      /\ \A e \in AllEvent, q \in Proc :
           q # p => dynSubs'[e][q] = dynSubs[e][q] /\ (q \in staticSubs'[e] => q \in staticSubs[e])
      /\ \A q \in Proc : wake'[q] = IF q = p THEN wake[p] + 1 ELSE wake[q]
  BY <1>0, UnscheduleElements DEF Complete
<1>2. life[p] = "live"
  BY <1>0 DEF LifeInv, DestroyedInv
<1>3. p \in Spawned => ~scheduled[p] /\ p \notin Range(completed)
  BY DEF LifeInv, RunningInv
<1>4. /\ Distinct(completed')
      /\ Range(completed') = IF p \in Spawned THEN Range(completed) \cup {p} ELSE Range(completed)
  <2>1. completed \in Seq(Proc) /\ Distinct(completed)
    BY DEF LifeInv, CompletedInv, TypeOK, ProcessTypeOK
  <2>2. CASE p \in Spawned
    BY <1>0, <1>3, <2>1, <2>2, AppendElements DEF Complete
  <2>3. CASE p \notin Spawned
    BY <2>1, <2>3 DEF Complete
  <2> QED
    BY <2>2, <2>3
<1>5. \A q \in Proc : Settled(q)' => Asleep(q)'
  <2> SUFFICES ASSUME NEW q \in Proc, Settled(q)'
               PROVE  Asleep(q)'
    OBVIOUS
  <2>1. CASE q = p
    <3>1. p \in Spawned \/ p \in Range(completed)
      BY <1>2, <1>4, <2>1 DEF Settled
    <3>2. ~scheduled[p]
      BY <1>3, <3>1 DEF LifeInv, CompletedInv
    <3> QED
      BY <1>1, <2>1, <3>2 DEF Asleep
  <2>2. CASE q # p
    <3>1. Settled(q)
      BY <1>4, <2>2 DEF Settled
    <3> QED
      BY <1>1, <2>2, <3>1 DEF LifeInv, Asleep
  <2> QED
    BY <2>1, <2>2
<1>6. \A q \in Registered : life'[q] = "live"
  BY DEF LifeInv
<1>7. \A t \in timeQ : t.proc \in Proc /\ t.tag \in Int /\ wake[t.proc] \in Nat
  BY DEF TypeOK, TimeTypeOK, TimeEvent, Sticky
<1>8. TagInv'
  BY <1>1, <1>7 DEF LifeInv, TagInv
<1>9. DestroyedInv'
  BY <1>2, <1>4 DEF LifeInv, DestroyedInv
<1>10. CompletedInv'
  <2>1. ASSUME NEW t \in timeQ, t.proc \in Range(completed')
        PROVE  t.tag # wake'[t.proc]
    BY <1>1, <1>4, <1>7, <2>1 DEF LifeInv, TagInv, CompletedInv
  <2> QED
    BY <1>4, <2>1 DEF LifeInv, CompletedInv
<1>11. RunningInv'
  BY DEF RunningInv
<1> QED
  BY <1>5, <1>6, <1>8, <1>9, <1>10, <1>11 DEF LifeInv

LEMMA LifeDestroyed ==
  ASSUME TypeOK, FlagsMatchStack, SubscriptionsMirrored, LifeInv,
         NEW p \in Proc \ Registered, RemoveProcess(p), UNCHANGED timeUsed, pc' # "body",
         Distinct(completed'), Range(completed') \subseteq Range(completed) \ {p},
         until' = None \/ (until' = until /\ until.proc # p)
  PROVE  LifeInv'
<1>1. /\ \A e \in AllEvent : dynSubs'[e][p] = 0 /\ p \notin staticSubs'[e]
      /\ \A e \in AllEvent, q \in Proc :
           q # p => dynSubs'[e][q] = dynSubs[e][q] /\ (q \in staticSubs'[e] => q \in staticSubs[e])
      /\ \A q \in Proc : wake'[q] = IF q = p THEN wake[p] + 1 ELSE wake[q]
  BY UnscheduleElements DEF RemoveProcess
<1>2. \A q \in Proc : scheduled'[q] <=> scheduled[q] /\ q # p
  BY DEF RemoveProcess, Erase, stackVars, FlagsMatchStack, Queued, TypeOK, StackTypeOK
<1>3. timeQ' = {t \in timeQ : t.proc # p}
  <2>1. ~timeUsed[p] => \A t \in timeQ : t.proc # p
    BY DEF LifeInv, TagInv
  <2> QED
    BY <2>1 DEF RemoveProcess, WithoutTimeEvents
<1>4. \A q \in Proc : life'[q] = IF q = p THEN "gone" ELSE life[q]
  BY DEF RemoveProcess, TypeOK, ProcessTypeOK
<1>5. current' # p /\ (current' = current \/ current' = None)
  BY ProcAssumption DEF RemoveProcess
<1>6. \A q \in Proc : Settled(q)' => Asleep(q)'
  <2> SUFFICES ASSUME NEW q \in Proc, Settled(q)'
               PROVE  Asleep(q)'
    OBVIOUS
  <2>1. q # p => Settled(q)
    BY <1>4 DEF Settled
  <2> QED
    BY <1>1, <1>2, <2>1 DEF LifeInv, Asleep
<1>7. \A q \in Registered : life'[q] = "live"
  BY <1>4 DEF LifeInv, Registered
<1>8. \A t \in timeQ' : t \in timeQ /\ t.proc \in Proc /\ wake'[t.proc] = wake[t.proc]
  BY <1>1, <1>3 DEF TypeOK, TimeTypeOK, TimeEvent
<1>9. TagInv'
  BY <1>8 DEF LifeInv, TagInv
<1>10. CompletedInv'
  BY <1>8 DEF LifeInv, CompletedInv
<1>11. DestroyedInv'
  <2> SUFFICES ASSUME NEW q \in Proc, life'[q] # "live"
               PROVE  /\ q \notin Range(completed')
                      /\ current' # q
                      /\ \A t \in timeQ' : t.proc # q
                      /\ until' # None => until'.proc # q
    BY DEF DestroyedInv
  <2>1. CASE q = p
    BY <1>3, <1>5, <2>1
  <2>2. CASE q # p
    BY <1>3, <1>4, <1>5, <2>2, ProcAssumption DEF LifeInv, DestroyedInv
  <2> QED
    BY <2>1, <2>2
<1>12. RunningInv'
  BY DEF RunningInv
<1> QED
  BY <1>6, <1>7, <1>9, <1>10, <1>11, <1>12 DEF LifeInv
-----------------------------------------------------------------------------
(***************************************************************************)
(* Every step.                                                             *)
(***************************************************************************)
LEMMA LifeDesignCall ==
  TypeOK /\ FlagsMatchStack /\ SubscriptionsMirrored /\ LifeInv /\ DesignCall => LifeInv'
<1> SUFFICES ASSUME TypeOK, FlagsMatchStack, SubscriptionsMirrored, LifeInv, DesignCall
             PROVE  LifeInv'
  OBVIOUS
<1>1. ASSUME NEW p \in Registered, UNCHANGED <<pc, until, life, completed, current, wake>>,
             \A q \in Proc \ {p} :
               /\ scheduled'[q] = scheduled[q]
               /\ \A e \in AllEvent : dynSubs'[e][q] = dynSubs[e][q]
                                      /\ (q \in staticSubs'[e] => q \in staticSubs[e]),
             timeQ' \subseteq timeQ, UNCHANGED timeUsed
      PROVE  LifeInv'
  <2>1. ~Settled(p) /\ p \in Proc /\ p \notin Spawned
    BY <1>1 DEF LifeInv, CompletedInv, Registered, Settled
  <2>2. \A q \in Proc : Settled(q) => Asleep(q)' /\ wake'[q] = wake[q]
    BY <1>1, <2>1 DEF LifeInv, Asleep
  <2>3. TagInv'
    BY <1>1 DEF LifeInv, TagInv
  <2>4. RunningInv'
    BY <1>1, <2>1, ProcAssumption DEF LifeInv, RunningInv
  <2>5. timeQ' \subseteq TimeEvent /\ (until' = None \/ (until # None /\ until'.proc = until.proc))
    BY <1>1 DEF TypeOK, TimeTypeOK
  <2> QED
    BY <1>1, <2>2, <2>3, <2>4, <2>5, LifeKept
<1>2. ASSUME NEW p \in Registered, InitializeTrue(p) \/ InitializeFalse(p)
      PROVE  LifeInv'
  <2>1. \A q \in Proc \ {p} : scheduled'[q] = scheduled[q]
    BY <1>2 DEF InitializeTrue, InitializeFalse, Push, Erase, stackVars, TypeOK, StackTypeOK
  <2> QED
    BY <1>1, <1>2, <2>1 DEF InitializeTrue, InitializeFalse, loopVars, subVars
<1>3. ASSUME NEW p \in Registered, Disable(p)
      PROVE  LifeInv'
  <2>1. \A q \in Proc \ {p} : scheduled'[q] = scheduled[q]
    BY <1>3 DEF Disable, Erase, stackVars, TypeOK, StackTypeOK
  <2>2. \A q \in Proc \ {p}, e \in AllEvent : dynSubs'[e][q] = dynSubs[e][q]
    BY <1>3 DEF Disable, CancelDynamic
  <2>3. timeQ' \subseteq timeQ
    BY <1>3 DEF Disable, WithoutTimeEvents
  <2> QED
    BY <1>1, <1>3, <2>1, <2>2, <2>3 DEF Disable, loopVars
<1>4. ASSUME NEW p \in Registered, NEW f \in Event \cup Signal, Always(p, f)
      PROVE  LifeInv'
  <2>1. \A q \in Proc \ {p}, e \in AllEvent : q \in staticSubs'[e] => q \in staticSubs[e]
    BY <1>4 DEF Always, TypeOK, SubTypeOK
  <2> QED
    BY <1>1, <1>4, <2>1 DEF Always, loopVars, stackVars
<1>5. ASSUME NEW p \in Spawned, Spawn(p)
      PROVE  LifeInv'
  BY <1>5, LifeCreated, ProcAssumption DEF Spawn, loopVars, subVars
<1>6. ASSUME (\E e \in Event : Notify(e)) \/ (\E s \in Signal : Write(s))
             \/ (\E p \in Registered : Enable(p))
      PROVE  LifeInv'
  <2>1. /\ UNCHANGED <<life, completed, scheduled, dynSubs, staticSubs, timeQ, timeUsed, wake, current>>
        /\ until' = until /\ pc' = pc
    BY <1>6 DEF Notify, Write, Enable, loopVars, stackVars, subVars
  <2> QED
    BY <2>1, LifeUnchanged
<1> QED
  BY <1>2, <1>3, <1>4, <1>5, <1>6 DEF DesignCall

\* A process that runs is live, and what it waits for is its own.
LEMMA LifeProcessStep == TypeOK /\ SubscriptionsMirrored /\ LifeInv /\ ProcessStep => LifeInv'
<1> SUFFICES ASSUME TypeOK, SubscriptionsMirrored, LifeInv, ProcessStep
             PROVE  LifeInv'
  OBVIOUS
<1>1. ASSUME NEW p \in Proc, pc = "body", current = p,
             UNCHANGED <<until, life, completed, scheduled, staticSubs, wake, current>>,
             \A q \in Proc \ {p}, e \in AllEvent : dynSubs'[e][q] = dynSubs[e][q],
             \/ UNCHANGED <<timeQ, timeUsed>>
             \/ \E t \in TimeEvent : /\ timeQ' = timeQ \cup {t}
                                     /\ timeUsed' = [timeUsed EXCEPT ![p] = TRUE]
                                     /\ t.proc = p /\ t.tag <= wake[p]
                                     /\ t.tag = Sticky => p \notin Coro
      PROVE  LifeInv'
  <2>1. ~Settled(p)
    <3>1. life[p] = "live" /\ (p \in Spawned => p \notin Range(completed))
      BY <1>1 DEF LifeInv, DestroyedInv, RunningInv
    <3> QED
      BY <3>1 DEF Settled, LifeInv, CompletedInv
  <2>2. \A q \in Proc : Settled(q) => Asleep(q)' /\ wake'[q] = wake[q]
    BY <1>1, <2>1 DEF LifeInv, Asleep
  <2>3. TagInv' /\ timeQ' \subseteq TimeEvent /\ \A t \in timeQ' : t \in timeQ \/ t.proc = p
    <3>1. CASE UNCHANGED <<timeQ, timeUsed>>
      BY <1>1, <3>1 DEF LifeInv, TagInv, TypeOK, TimeTypeOK
    <3>2. CASE ~UNCHANGED <<timeQ, timeUsed>>
      <4>1. PICK t \in TimeEvent : /\ timeQ' = timeQ \cup {t}
                                   /\ timeUsed' = [timeUsed EXCEPT ![p] = TRUE]
                                   /\ t.proc = p /\ t.tag <= wake[p]
                                   /\ t.tag = Sticky => p \notin Coro
        BY <1>1, <3>2
      <4>2. \A q \in Proc : timeUsed'[q] = (timeUsed[q] \/ q = p)
        BY <4>1 DEF TypeOK, TimeTypeOK
      <4>3. \A u \in timeQ : u.proc \in Proc
        BY DEF TypeOK, TimeTypeOK, TimeEvent
      <4>4. TagInv'
        <5> SUFFICES ASSUME NEW u \in timeQ \cup {t}
                     PROVE  /\ timeUsed'[u.proc]
                            /\ u.tag = Sticky => u.proc \notin Coro
                            /\ u.tag <= wake[u.proc]
          BY <1>1, <4>1 DEF TagInv
        <5>1. CASE u = t
          BY <4>1, <4>2, <5>1
        <5>2. CASE u \in timeQ
          BY <4>2, <4>3, <5>2 DEF LifeInv, TagInv
        <5> QED
          BY <5>1, <5>2
      <4> QED
        BY <4>1, <4>4 DEF TypeOK, TimeTypeOK
    <3> QED
      BY <3>1, <3>2
  <2>4. RunningInv'
    BY <1>1 DEF LifeInv, RunningInv
  <2>5. \A t \in timeQ' : t \in timeQ \/ ~Settled(t.proc)
    BY <2>1, <2>3
  <2>6. until' = None \/ (until # None /\ until'.proc = until.proc)
    BY <1>1
  <2> QED
    BY <1>1, <2>2, <2>3, <2>4, <2>5, <2>6, LifeKept
<1>2. ASSUME NEW p \in Proc, NEW w, AddDynamic(p, w)
      PROVE  \A q \in Proc \ {p}, e \in AllEvent : dynSubs'[e][q] = dynSubs[e][q]
  BY <1>2 DEF AddDynamic, TypeOK, SubTypeOK
<1>3. ASSUME NEW p \in Proc, NEW d \in Nat \ {0}, AddTimeWait(p, d)
      PROVE  \E t \in TimeEvent : /\ timeQ' = timeQ \cup {t}
                                  /\ timeUsed' = [timeUsed EXCEPT ![p] = TRUE]
                                  /\ t.proc = p /\ t.tag <= wake[p]
                                  /\ t.tag = Sticky => p \notin Coro
  <2> DEFINE t == [at |-> time + d, proc |-> p, tag |-> wake[p]]
  <2>1. t \in TimeEvent /\ t.proc = p /\ t.tag <= wake[p] /\ t.tag # Sticky
    BY DEF TypeOK, TimeTypeOK, TimeEvent, Sticky
  <2>2. timeQ' = timeQ \cup {t} /\ timeUsed' = [timeUsed EXCEPT ![p] = TRUE]
    BY <1>3 DEF AddTimeWait
  <2> HIDE DEF t
  <2> QED
    BY <2>1, <2>2
<1>4. ASSUME NEW p \in Proc, NEW w \in WaitLists, NextTriggerEvents(p, w) \/ WaitEvents(p, w)
      PROVE  LifeInv'
  BY <1>1, <1>2, <1>4 DEF NextTriggerEvents, WaitEvents, Suspend, Runs, loopVars, stackVars
<1>5. ASSUME NEW p \in Proc, NEW w \in WaitLists, NEW d \in Delays \ {0}, WaitEventsTimeout(p, w, d)
      PROVE  LifeInv'
  <2>1. AddTimeWait(p, d) /\ d \in Nat \ {0}
    BY <1>5, NumberAssumption DEF WaitEventsTimeout
  <2> QED
    BY <1>1, <1>2, <1>3, <1>5, <2>1
    DEF WaitEventsTimeout, Suspend, Runs, loopVars, stackVars
<1>6. ASSUME NEW p \in Proc, NEW d \in Delays, WaitTime(p, d)
      PROVE  LifeInv'
  <2>1. CASE d = 0
    BY <1>1, <1>2, <1>6, <2>1 DEF WaitTime, AddNextDelta, Suspend, Runs, loopVars, stackVars
  <2>2. CASE d > 0
    <3>1. AddTimeWait(p, d) /\ d \in Nat \ {0}
      BY <1>6, <2>2, NumberAssumption DEF WaitTime
    <3> QED
      BY <1>1, <1>3, <1>6, <2>2, <3>1
      DEF WaitTime, Suspend, Runs, loopVars, stackVars
  <2> QED
    BY <2>1, <2>2, NumberAssumption
<1>7. ASSUME NEW p \in Proc, NEW d \in Delays, NextTriggerTime(p, d)
      PROVE  LifeInv'
  <2>1. CASE d = 0
    BY <1>1, <1>2, <1>7, <2>1 DEF NextTriggerTime, AddNextDelta, Runs, loopVars, stackVars
  <2>2. CASE d > 0
    <3> DEFINE new == [at |-> time + d, proc |-> p, tag |-> Sticky]
    <3>1. /\ new \in TimeEvent /\ new.proc = p /\ new.tag <= wake[p]
      BY <2>2, NumberAssumption DEF TimeEvent, TypeOK, TimeTypeOK, Sticky
    <3>2. /\ timeQ' = timeQ \cup {new} /\ timeUsed' = [timeUsed EXCEPT ![p] = TRUE]
          /\ p \notin Coro /\ UNCHANGED dynSubs
      BY <1>7, <2>2 DEF NextTriggerTime, Runs
    <3> HIDE DEF new
    <3> QED
      BY <1>1, <1>7, <3>1, <3>2 DEF NextTriggerTime, Runs, loopVars, stackVars
  <2> QED
    BY <2>1, <2>2, NumberAssumption
<1>8. ASSUME NEW p \in Proc, WaitStatic(p) \/ MethodReturn(p) \/ MethodThrow(p)
      PROVE  LifeInv'
  BY <1>1, <1>8
  DEF WaitStatic, Suspend, MethodReturn, MethodThrow, Runs, loopVars, stackVars, subVars
<1>9. ASSUME NEW p \in Proc, CoroReturn(p) \/ CoroThrow(p)
      PROVE  LifeInv'
  BY <1>9, LifeCompleted DEF CoroReturn, CoroThrow, Runs, loopVars, stackVars
<1> QED
  BY <1>4, <1>5, <1>6, <1>7, <1>8, <1>9 DEF ProcessStep

LEMMA LifeResume ==
  ASSUME TypeOK, FlagsMatchStack, LifeInv, NEW p \in Proc, Resume(p)
  PROVE  LifeInv'
<1>1. scheduled[p]
  <2>1. Len(evalStack) \in DOMAIN evalStack
    BY EmptySeq, LenProperties DEF Resume, TypeOK, StackTypeOK
  <2> QED
    BY <2>1 DEF Resume, FlagsMatchStack, Queued, Range
<1>2. ~Settled(p)
  BY <1>1 DEF LifeInv, Asleep
<1>3. \A q \in Proc : scheduled'[q] = (scheduled[q] /\ q # p)
  BY DEF Resume, TypeOK, StackTypeOK
<1>4. \A q \in Proc : wake'[q] = IF q = p THEN wake[q] + 1 ELSE wake[q]
  BY DEF Resume, TypeOK, TimeTypeOK
<1>5. \A q \in Proc : Settled(q) => Asleep(q)' /\ wake'[q] = wake[q]
  BY <1>2, <1>3, <1>4 DEF LifeInv, Asleep, Resume, subVars
<1>6. TagInv'
  <2>1. \A t \in timeQ : t.proc \in Proc /\ t.tag \in Int /\ wake[t.proc] \in Nat
    BY DEF TypeOK, TimeTypeOK, TimeEvent, Sticky
  <2> QED
    BY <1>4, <2>1 DEF Resume, LifeInv, TagInv
<1>7. RunningInv'
  BY <1>2, <1>3 DEF Resume, RunningInv, Settled
<1>8. life[current'] = "live" /\ current' \in Proc
  BY <1>2 DEF Resume, Settled
<1>9. /\ UNCHANGED <<life, completed>> /\ timeQ' \subseteq TimeEvent
      /\ \A t \in timeQ' : t \in timeQ \/ ~Settled(t.proc)
      /\ until' = None \/ (until # None /\ until'.proc = until.proc)
  BY DEF Resume, loopVars, TypeOK, TimeTypeOK
<1> QED
  BY <1>5, <1>6, <1>7, <1>8, <1>9, LifeKept

\* Only what is subscribed or has a time event is scheduled.
LEMMA LifeTrigger ==
  ASSUME TypeOK, SubscriptionsMirrored, LifeInv, NEW e \in AllEvent, Trigger(e)
  PROVE  LifeInv'
<1> DEFINE wakes   == StaticWoken(e)
           waiters == {p \in Proc : dynSubs[e][p] > 0}
<1>1. \A p \in Proc : scheduled'[p] = (scheduled[p] \/ p \in wakes \cup waiters)
  BY DEF Trigger, PushBoth
<1>2. \A p \in Proc : p \in wakes \cup waiters => ~Asleep(p)
  <2>1. \A p \in Proc : dynSubs[e][p] \in Nat
    BY DEF TypeOK, SubTypeOK
  <2> QED
    BY <2>1 DEF StaticWoken, Asleep
<1>3. \A p \in Proc, f \in AllEvent : p \notin waiters => dynSubs'[f][p] = dynSubs[f][p]
  BY DEF Trigger
<1>4. UNCHANGED <<pc, until, life, completed, staticSubs, timeQ, timeUsed, wake, current>>
  BY DEF Trigger, loopVars
<1> HIDE DEF wakes, waiters
<1>5. \A p \in Proc : Settled(p) => Asleep(p)' /\ wake'[p] = wake[p]
  BY <1>1, <1>2, <1>3, <1>4 DEF LifeInv, Asleep
<1>6. TagInv'
  BY <1>4 DEF LifeInv, TagInv
<1>7. RunningInv'
  BY <1>4 DEF Trigger, RunningInv
<1> QED
  BY <1>4, <1>5, <1>6, <1>7, LifeKept DEF TypeOK, TimeTypeOK

LEMMA LifeAdvance == TypeOK /\ SubscriptionsMirrored /\ LifeInv /\ Advance => LifeInv'
<1> SUFFICES ASSUME TypeOK, SubscriptionsMirrored, LifeInv, Advance
             PROVE  LifeInv'
  OBVIOUS
<1> DEFINE due   == {t \in timeQ : t.at = time + NextStep}
           extra == {t.proc : t \in {u \in due : u.tag = Sticky}}
           woken == {t.proc : t \in {u \in due : u.tag = wake[u.proc]}}
<1>1. \A p \in Proc : scheduled'[p] = (scheduled[p] \/ p \in extra \cup woken)
  BY DEF Advance, PushBoth
<1>2. \A p \in Proc : p \in extra \cup woken => ~Settled(p)
  <2> SUFFICES ASSUME NEW t \in timeQ, t.tag \in {Sticky, wake[t.proc]}
               PROVE  ~Settled(t.proc)
    OBVIOUS
  <2>1. t.proc \in Proc
    BY DEF TypeOK, TimeTypeOK, TimeEvent
  <2>2. life[t.proc] = "live"
    BY <2>1 DEF LifeInv, DestroyedInv
  <2>3. t.proc \notin Range(completed)
    BY ProcAssumption DEF LifeInv, CompletedInv, TagInv
  <2> QED
    BY <2>2, <2>3 DEF Settled
<1>3. \A p \in Proc, f \in AllEvent : p \notin woken => dynSubs'[f][p] = dynSubs[f][p]
  BY DEF Advance, CancelDynamic
<1>4. /\ UNCHANGED <<until, life, completed, staticSubs, timeUsed, wake, current>>
      /\ timeQ' \subseteq timeQ
  BY DEF Advance
<1> HIDE DEF extra, woken
<1>5. \A p \in Proc : Settled(p) => Asleep(p)' /\ wake'[p] = wake[p]
  BY <1>1, <1>2, <1>3, <1>4 DEF LifeInv, Asleep
<1>6. TagInv'
  BY <1>4 DEF LifeInv, TagInv
<1>7. RunningInv'
  BY DEF Advance, RunningInv
<1>8. /\ timeQ' \subseteq TimeEvent /\ \A t \in timeQ' : t \in timeQ \/ ~Settled(t.proc)
      /\ until' = None \/ (until # None /\ until'.proc = until.proc)
  BY <1>4 DEF TypeOK, TimeTypeOK
<1> QED
  BY <1>4, <1>5, <1>6, <1>7, <1>8, LifeKept

LEMMA LifeStep ==
  TimeInv /\ FlagsMatchStack /\ SubscriptionsMirrored /\ LifeInv /\ [Next]_vars => LifeInv'
<1> SUFFICES ASSUME TimeInv, FlagsMatchStack, SubscriptionsMirrored, LifeInv, [Next]_vars
             PROVE  LifeInv'
  OBVIOUS
<1>1. TypeOK
  BY DEF TimeInv
<1>2. CASE Release
  <2> DEFINE p == Head(completed)
  <2>1. /\ p \in Range(completed) /\ Distinct(completed')
        /\ Range(completed') \subseteq Range(completed) \ {p}
    BY <1>1, <1>2, TailElements DEF Release, TypeOK, ProcessTypeOK, LifeInv, CompletedInv
  <2>2. p \in Spawned /\ p \in Proc \ Registered
    BY <2>1, ProcAssumption DEF LifeInv, CompletedInv, Registered
  <2>3. until = None \/ until.proc # p
    BY <1>1, <2>2, ProcAssumption DEF TypeOK, LoopTypeOK, Until
  <2>4. RemoveProcess(p) /\ UNCHANGED <<timeUsed, until>> /\ pc' # "body"
    BY <1>2 DEF Release, loopVars
  <2> HIDE DEF p
  <2> QED
    BY <1>1, <2>1, <2>2, <2>3, <2>4, LifeDestroyed
<1>3. ASSUME LeaveUntil, until # None
      PROVE  LifeInv'
  <2>1. until.proc \in Once /\ until.proc \in Proc \ Registered /\ until.proc \notin Spawned
    BY <1>1, <1>3, ProcAssumption DEF TypeOK, LoopTypeOK, Until, Registered
  <2>2. /\ RemoveProcess(until.proc) /\ UNCHANGED <<timeUsed, completed>> /\ pc' # "body"
        /\ until' = None
    BY <1>3 DEF LeaveUntil
  <2>3. /\ Distinct(completed')
        /\ Range(completed') \subseteq Range(completed) \ {until.proc}
    BY <2>1, <2>2 DEF LifeInv, CompletedInv
  <2> QED
    BY <1>1, <2>1, <2>2, <2>3, LifeDestroyed
<1>4. ASSUME UNCHANGED <<life, completed, scheduled, dynSubs, staticSubs, timeQ, timeUsed, wake,
                         current>>,
             until' = until \/ (until # None /\ UntilRun(PastDeadline)),
             pc' = "body" => pc = "body"
      PROVE  LifeInv'
  <2>1. until' = None \/ (until # None /\ until'.proc = until.proc)
    BY <1>1, <1>4, ProcAssumption DEF TypeOK, LoopTypeOK, Until, UntilRun
  <2> QED
    BY <1>1, <1>4, <2>1, LifeUnchanged
<1>5. CASE Enter \/ EndEvaluation \/ EndRound \/ EvalReturn
  BY <1>4, <1>5 DEF Enter, EndEvaluation, EndRound, EvalReturn, loopVars, stackVars, subVars,
                    TimeInv, TypeOK, LoopTypeOK
<1>6. CASE RunReturn \/ UntilTest \/ Unwind
  <2>1. \/ LeaveUntil /\ until # None
        \/ /\ UNCHANGED <<life, completed, scheduled, dynSubs, staticSubs, timeQ, timeUsed, wake,
                          current>>
           /\ until' = until \/ (until # None /\ UntilRun(PastDeadline))
           /\ pc' # "body"
    BY <1>6 DEF RunReturn, UntilTest, UntilRun, Unwind, loopVars, stackVars, subVars,
                TimeInv, ControlInv
  <2> QED
    BY <1>3, <1>4, <2>1
<1>7. CASE KernelStep
  BY <1>1, <1>2, <1>5, <1>6, <1>7, LifeResume, LifeTrigger, LifeAdvance DEF KernelStep
<1>8. ASSUME NEW inc \in RunTimes, Run(inc)
      PROVE  LifeInv'
  BY <1>4, <1>8 DEF Run, stackVars, subVars
<1>9. ASSUME NEW p \in Once, NEW timeout \in Delays \cup {0}, RunUntil(p, timeout)
      PROVE  LifeInv'
  BY <1>1, <1>9, LifeCreated, ProcAssumption DEF RunUntil, subVars
<1>10. CASE Rest \/ UNCHANGED vars
  BY <1>4, <1>10 DEF Rest, vars, loopVars, stackVars, subVars
<1> QED
  BY <1>1, <1>7, <1>8, <1>9, <1>10, LifeDesignCall, LifeProcessStep DEF Next, BenchCall

(***************************************************************************)
(* Nothing that the scheduler looks at refers to a process that is         *)
(* destroyed, or not yet created.                                          *)
(***************************************************************************)
THEOREM NothingDangles == Spec => []NoDangling
<1>1. LifeInv /\ FlagsMatchStack => NoDangling
  <2> SUFFICES ASSUME LifeInv, FlagsMatchStack, NEW p \in Proc, life[p] # "live"
               PROVE  /\ ~Queued(p)
                      /\ p \notin Range(completed)
                      /\ current # p
                      /\ \A t \in timeQ : t.proc # p
                      /\ \A e \in AllEvent : dynSubs[e][p] = 0 /\ p \notin staticSubs[e]
                      /\ until # None => until.proc # p
    BY DEF NoDangling
  <2>1. Asleep(p)
    BY DEF LifeInv, Settled
  <2> QED
    BY <2>1 DEF LifeInv, DestroyedInv, Asleep, FlagsMatchStack
<1> QED
  BY <1>1, LifeInit, LifeStep, TimeCorrect, FlagsCorrect, MirroredCorrect, PTL DEF Spec
-----------------------------------------------------------------------------
(***************************************************************************)
(* Waits of coroutines.  initialize(true) resumes a coroutine out of its   *)
(* wait, initialize(false) and disable() take one off the stack that was   *)
(* about to be resumed.  They are called for registered processes only, so *)
(* that what follows is about all coroutines of designs that do not make   *)
(* these calls, and in other designs about those that are spawned or run   *)
(* with run_until().                                                       *)
(***************************************************************************)
Forcing       == {"initialize(true)"}
Dropping      == {"initialize(false)", "disable"}
Interventions == Forcing \cup Dropping

Spared(interventions) == IF Calls \cap interventions = {} THEN Coro ELSE Coro \ Registered

\* The coroutines that nothing but the kernel resumes or takes off the stack.
LeftAlone == Spared(Interventions)

LEMMA SparedAre ==
  ASSUME NEW interventions
  PROVE  /\ Spared(interventions) \subseteq Coro
         /\ Coro \subseteq Proc
         /\ \A p \in Proc : p \notin Registered /\ p \in Coro => p \in Spared(interventions)
         /\ \A p \in Spawned \cup Once : p \in Spared(interventions) /\ p \notin Registered
         /\ \A call \in Calls \cap interventions, p \in Registered : p \notin Spared(interventions)
BY ProcAssumption DEF Spared, Registered

\* The time events that end the present wait of p.
Pending(p) == {t \in timeQ : t.proc = p /\ t.tag = wake[p]}

\* Nothing that p has waited for is left.
Rested(p) == ~Subscribed(p) /\ sens[p] = "Active"

Ready == {"start", "running", "static", "done"}
Waits == {"event", "time", "timed"}

WokenInv(p) ==
  scheduled[p] =>
    /\ awaiting[p] \in Waits => Rested(p)
    /\ awaiting[p] = "static" => cause[p] = "static"
    /\ awaiting[p] = "event" => cause[p] = "event"
    /\ awaiting[p] \in {"time", "timed"} => cause[p] \in {"time", "event"}
    /\ awaiting[p] = "timed" => deadline[p] # 0 /\ (cause[p] = "time" <=> time >= deadline[p])

ArmedInv(p) ==
  ~scheduled[p] =>
    /\ awaiting[p] \in Waits => sens[p] = "Waiting"
    /\ awaiting[p] = "event" => Subscribed(p) /\ Pending(p) = {}
    /\ awaiting[p] = "timed" =>
         /\ Subscribed(p)
         /\ deadline[p] # 0
         /\ Pending(p) = {[at |-> deadline[p], proc |-> p, tag |-> wake[p]]}
    /\ awaiting[p] = "time" => dynSubs[NextDelta][p] > 0 \/ Pending(p) # {}

\* Nothing intervenes in the waits of p.
WaitInv(p) ==
  /\ awaiting[p] \in Ready => Rested(p) /\ Pending(p) = {}
  /\ WokenInv(p)
  /\ ArmedInv(p)

\* A suspended process that nothing takes off the stack will be resumed.
Armed(p) ==
  ~scheduled[p] =>
    /\ awaiting[p] = "event" => Subscribed(p)
    /\ awaiting[p] = "timed" =>
         /\ Subscribed(p)
         /\ [at |-> deadline[p], proc |-> p, tag |-> wake[p]] \in Pending(p)
    /\ awaiting[p] = "time" => dynSubs[NextDelta][p] > 0 \/ Pending(p) # {}

\* A process that nothing resumes out of its wait is paused while it waits.
Paused(p) == sens[p] = "Waiting" => ~scheduled[p] /\ (Subscribed(p) \/ Pending(p) # {})

ProcInv(p) ==
  /\ p \in LeftAlone => /\ life[p] # "gone" => WaitInv(p)
                        /\ life[p] = "unborn" => awaiting[p] = "start"
  /\ p \in Spared(Dropping) /\ life[p] = "live" => Armed(p)
  /\ p \in Spared(Forcing) /\ life[p] = "live" => Paused(p)
  /\ p \notin Coro /\ sens[p] = "Waiting" => Subscribed(p)

BodyInv ==
  pc = "body" =>
    /\ current \in LeftAlone => ~scheduled[current] /\ awaiting[current] = "running"
    /\ current \in Spared(Forcing) => ~scheduled[current] /\ sens[current] # "Waiting"

WaitsInv == (\A p \in Proc : ProcInv(p)) /\ BodyInv

\* What is proved above.
Consistent == TimeInv /\ FlagsMatchStack /\ SubscriptionsMirrored /\ LifeInv

LEMMA WaitsInit == Init => WaitsInv
<1> SUFFICES ASSUME Init
             PROVE  WaitsInv
  OBVIOUS
<1>1. \A p \in Proc : ~Subscribed(p) /\ sens[p] = "Active" /\ awaiting[p] = "start"
  BY DEF Init, Subscribed
<1>2. \A p \in Proc : Pending(p) = {}
  BY DEF Init, Pending
<1>3. \A p \in Proc : WaitInv(p) /\ Armed(p) /\ Paused(p)
  BY <1>1, <1>2 DEF WaitInv, WokenInv, ArmedInv, Armed, Paused, Rested, Waits
<1> QED
  BY <1>1, <1>3 DEF Init, WaitsInv, ProcInv, BodyInv

\* A step leaves the wait of a process alone.
SameWait(q) ==
  /\ life'[q] = life[q]
  /\ awaiting'[q] = awaiting[q] /\ deadline'[q] = deadline[q] /\ sens'[q] = sens[q]
  /\ wake'[q] = wake[q] /\ scheduled'[q] = scheduled[q]
  /\ scheduled[q] => cause'[q] = cause[q] /\ time' = time
  /\ \A e \in AllEvent : dynSubs'[e][q] = dynSubs[e][q]
  /\ Pending(q)' = Pending(q)

LEMMA WaitKept ==
  ASSUME NEW q \in Proc, ProcInv(q), SameWait(q)
  PROVE  ProcInv(q)' /\ (Subscribed(q)' <=> Subscribed(q))
<1>0. UNCHANGED <<LeftAlone, Spared(Dropping), Spared(Forcing)>>
  BY DEF LeftAlone, Spared, Registered
<1>1. Subscribed(q)' <=> Subscribed(q)
  BY DEF Subscribed, SameWait
<1>2. Rested(q)' <=> Rested(q)
  BY <1>1 DEF Rested, SameWait
<1>3. dynSubs'[NextDelta][q] = dynSubs[NextDelta][q]
  BY DEF AllEvent, SameWait
<1>4. WaitInv(q) => WaitInv(q)'
  <2> SUFFICES ASSUME WaitInv(q)
               PROVE  WaitInv(q)'
    OBVIOUS
  <2>1. WokenInv(q)'
    BY <1>2 DEF WaitInv, WokenInv, SameWait
  <2>2. ArmedInv(q)'
    BY <1>1, <1>3 DEF WaitInv, ArmedInv, SameWait
  <2> QED
    BY <1>2, <2>1, <2>2 DEF WaitInv, SameWait
<1>5. Armed(q) => Armed(q)'
  BY <1>1, <1>3 DEF Armed, SameWait
<1>6. Paused(q) => Paused(q)'
  BY <1>1 DEF Paused, SameWait
<1> QED
  BY <1>0, <1>1, <1>4, <1>5, <1>6 DEF ProcInv, SameWait

\* A step that leaves every wait alone.
LEMMA WaitsUnchanged ==
  ASSUME WaitsInv, UNCHANGED <<awaiting, deadline, sens, wake, scheduled, cause, time, dynSubs, timeQ,
                               life, current>>,
         pc' = "body" => pc = "body"
  PROVE  WaitsInv'
<1>1. \A q \in Proc : SameWait(q)
  BY DEF Pending, SameWait
<1>2. \A q \in Proc : ProcInv(q)'
  BY <1>1, WaitKept DEF WaitsInv
<1>3. BodyInv'
  BY DEF WaitsInv, BodyInv, LeftAlone, Spared, Registered
<1> QED
  BY <1>2, <1>3 DEF WaitsInv

\* A step that leaves all waits alone but one.
LEMMA WaitsButOne ==
  ASSUME WaitsInv, NEW p \in Proc, \A q \in Proc \ {p} : SameWait(q), ProcInv(p)', BodyInv'
  PROVE  WaitsInv'
<1>1. ASSUME NEW q \in Proc, q # p
      PROVE  ProcInv(q)'
  BY <1>1, WaitKept DEF WaitsInv
<1> QED
  BY <1>1 DEF WaitsInv
-----------------------------------------------------------------------------
LEMMA WaitsCreated ==
  ASSUME TypeOK, LifeInv, WaitsInv, NEW p \in Spawned \cup Once, life[p] = "unborn",
         life' = [life EXCEPT ![p] = "live"], Push(p, "start"),
         UNCHANGED <<awaiting, deadline, sens, wake, time, dynSubs, timeQ, current>>,
         pc' = "body" => pc = "body"
  PROVE  WaitsInv'
<1>0. p \in Proc /\ p \in Coro /\ p \in LeftAlone
  BY SparedAre, ProcAssumption DEF LeftAlone
<1>1. \A q \in Proc \ {p} : /\ scheduled'[q] = scheduled[q] /\ cause'[q] = cause[q]
                             /\ life'[q] = life[q]
  BY <1>0 DEF Push, TypeOK, StackTypeOK, ProcessTypeOK
<1>2. \A q \in Proc : Pending(q)' = Pending(q) /\ (Subscribed(q)' <=> Subscribed(q))
  BY DEF Pending, Subscribed
<1>3. \A q \in Proc \ {p} : SameWait(q)
  BY <1>1, <1>2 DEF SameWait
<1>4. scheduled'[p] /\ life'[p] = "live"
  BY <1>0 DEF Push, TypeOK, StackTypeOK, ProcessTypeOK
<1>5. awaiting'[p] = "start" /\ Rested(p)' /\ Pending(p)' = {}
  <2>1. awaiting[p] = "start" /\ WaitInv(p)
    BY <1>0 DEF WaitsInv, ProcInv
  <2> QED
    BY <1>0, <1>2, <2>1 DEF WaitInv, Rested, Ready
<1>6. WaitInv(p)' /\ Armed(p)' /\ Paused(p)'
  BY <1>4, <1>5 DEF WaitInv, WokenInv, ArmedInv, Armed, Paused, Rested, Waits
<1>7. ProcInv(p)'
  BY <1>0, <1>4, <1>6 DEF ProcInv
<1>8. current # p
  BY <1>0 DEF LifeInv, DestroyedInv
<1>9. BodyInv'
  <2>1. \A q \in LeftAlone \cup Spared(Forcing) : q \in Proc
    BY SparedAre DEF LeftAlone
  <2> QED
    BY <1>1, <1>8, <2>1 DEF WaitsInv, BodyInv, LeftAlone, Spared, Registered
<1> QED
  BY <1>0, <1>3, <1>7, <1>9, WaitsButOne

LEMMA WaitsDestroyed ==
  ASSUME TypeOK, SubscriptionsMirrored, WaitsInv, NEW p \in Spawned \cup Once, RemoveProcess(p),
         UNCHANGED <<awaiting, deadline, sens, time>>, pc' # "body"
  PROVE  WaitsInv'
<1>0. p \in Proc /\ p \in Coro
  BY ProcAssumption
<1>1. /\ \A e \in AllEvent, q \in Proc : q # p => dynSubs'[e][q] = dynSubs[e][q]
      /\ \A q \in Proc : q # p => wake'[q] = wake[q]
  BY <1>0, UnscheduleElements DEF RemoveProcess
<1>2. \A q \in Proc : q # p => scheduled'[q] = scheduled[q] /\ cause'[q] = cause[q]
  BY <1>0 DEF RemoveProcess, Erase, stackVars, TypeOK, StackTypeOK
<1>3. \A q \in Proc : life'[q] = IF q = p THEN "gone" ELSE life[q]
  BY <1>0 DEF RemoveProcess, TypeOK, ProcessTypeOK
<1>4. \A q \in Proc : q # p => Pending(q)' = Pending(q)
  BY <1>1 DEF RemoveProcess, WithoutTimeEvents, Pending
<1>5. \A q \in Proc \ {p} : SameWait(q)
  BY <1>1, <1>2, <1>3, <1>4 DEF SameWait
<1>6. ProcInv(p)'
  BY <1>0, <1>3 DEF ProcInv
<1>7. BodyInv'
  BY DEF BodyInv
<1> QED
  BY <1>0, <1>5, <1>6, <1>7, WaitsButOne
-----------------------------------------------------------------------------
LEMMA SparedFixed == UNCHANGED <<LeftAlone, Spared(Dropping), Spared(Forcing)>>
BY DEF LeftAlone, Spared, Registered

LEMMA WaitsInitializeTrue ==
  ASSUME TypeOK, WaitsInv, NEW p \in Registered, InitializeTrue(p)
  PROVE  WaitsInv'
<1>0. p \in Proc /\ p \notin LeftAlone /\ p \notin Spared(Forcing)
  <2>1. "initialize(true)" \in Calls \cap Interventions /\ "initialize(true)" \in Calls \cap Forcing
    BY DEF InitializeTrue, MayCall, Interventions, Forcing
  <2> QED
    BY <2>1, SparedAre DEF LeftAlone, Registered
<1>1. /\ \A q \in Proc \ {p} : scheduled'[q] = scheduled[q] /\ cause'[q] = cause[q]
      /\ scheduled'[p]
  BY <1>0 DEF InitializeTrue, Push, TypeOK, StackTypeOK
<1>2. UNCHANGED <<pc, awaiting, deadline, sens, wake, time, dynSubs, timeQ, life, current>>
  BY DEF InitializeTrue, subVars, frameVars
<1>3. \A q \in Proc \ {p} : SameWait(q)
  BY <1>1, <1>2 DEF SameWait, Pending
<1>4. ProcInv(p)'
  BY <1>0, <1>1, <1>2, SparedFixed DEF WaitsInv, ProcInv, Armed, Subscribed
<1>5. BodyInv'
  <2>1. \A q \in LeftAlone \cup Spared(Forcing) : q \in Proc \ {p}
    BY <1>0, SparedAre DEF LeftAlone
  <2> QED
    BY <1>1, <1>2, <2>1, SparedFixed DEF WaitsInv, BodyInv
<1> QED
  BY <1>0, <1>3, <1>4, <1>5, WaitsButOne

\* Taking a process off the stack.
LEMMA WaitsErase ==
  ASSUME TypeOK, NEW p \in Proc, Erase(p)
  PROVE  /\ \A q \in Proc \ {p} : scheduled'[q] = scheduled[q] /\ cause'[q] = cause[q]
         /\ ~scheduled[p] => ~scheduled'[p]
BY DEF Erase, stackVars, TypeOK, StackTypeOK

LEMMA WaitsInitializeFalse ==
  ASSUME TypeOK, WaitsInv, NEW p \in Registered, InitializeFalse(p)
  PROVE  WaitsInv'
<1>0. p \in Proc /\ p \notin LeftAlone /\ p \notin Spared(Dropping)
  <2>1. "initialize(false)" \in Calls \cap Interventions /\ "initialize(false)" \in Calls \cap Dropping
    BY DEF InitializeFalse, MayCall, Interventions, Dropping
  <2> QED
    BY <2>1, SparedAre DEF LeftAlone, Registered
<1>1. /\ \A q \in Proc \ {p} : scheduled'[q] = scheduled[q] /\ cause'[q] = cause[q]
      /\ ~scheduled[p] => ~scheduled'[p]
  BY <1>0, WaitsErase DEF InitializeFalse
<1>2. UNCHANGED <<pc, awaiting, deadline, sens, wake, time, dynSubs, timeQ, life, current>>
  BY DEF InitializeFalse, subVars, frameVars
<1>3. \A q \in Proc \ {p} : SameWait(q)
  BY <1>1, <1>2 DEF SameWait, Pending
<1>4. ProcInv(p)'
  <2>1. Pending(p)' = Pending(p) /\ (Subscribed(p)' <=> Subscribed(p))
    BY <1>2 DEF Pending, Subscribed
  <2>2. Paused(p) => Paused(p)'
    BY <1>1, <1>2, <2>1 DEF Paused
  <2> QED
    BY <1>0, <1>2, <2>1, <2>2, SparedFixed DEF WaitsInv, ProcInv
<1>5. BodyInv'
  <2>1. \A q \in LeftAlone \cup Spared(Forcing) : q \in Proc
    BY SparedAre DEF LeftAlone
  <2> QED
    BY <1>0, <1>1, <1>2, <2>1, SparedFixed DEF WaitsInv, BodyInv
<1> QED
  BY <1>0, <1>3, <1>4, <1>5, WaitsButOne

LEMMA WaitsDisable ==
  ASSUME TypeOK, WaitsInv, NEW p \in Registered, Disable(p)
  PROVE  WaitsInv'
<1>0. p \in Proc /\ p \notin LeftAlone /\ p \notin Spared(Dropping)
  <2>1. "disable" \in Calls \cap Interventions /\ "disable" \in Calls \cap Dropping
    BY DEF Disable, MayCall, Interventions, Dropping
  <2> QED
    BY <2>1, SparedAre DEF LeftAlone, Registered
<1>1. /\ \A q \in Proc \ {p} : scheduled'[q] = scheduled[q] /\ cause'[q] = cause[q]
      /\ ~scheduled[p] => ~scheduled'[p]
  BY <1>0, WaitsErase DEF Disable
<1>2. UNCHANGED <<pc, awaiting, deadline, wake, time, life, current>>
  BY DEF Disable, frameVars
<1>3. /\ \A q \in Proc : sens'[q] = IF q = p THEN "Disabled" ELSE sens[q]
      /\ \A q \in Proc \ {p}, e \in AllEvent : dynSubs'[e][q] = dynSubs[e][q]
      /\ \A q \in Proc \ {p} : Pending(q)' = Pending(q)
  <2>1. \A q \in Proc : sens'[q] = IF q = p THEN "Disabled" ELSE sens[q]
    BY <1>0 DEF Disable, TypeOK, ProcessTypeOK
  <2>2. \A q \in Proc \ {p}, e \in AllEvent : dynSubs'[e][q] = dynSubs[e][q]
    BY DEF Disable, CancelDynamic
  <2>3. \A q \in Proc \ {p} : Pending(q)' = Pending(q)
    BY <1>2 DEF Disable, WithoutTimeEvents, Pending
  <2> QED
    BY <2>1, <2>2, <2>3
<1>4. \A q \in Proc \ {p} : SameWait(q)
  BY <1>1, <1>2, <1>3 DEF SameWait
<1>5. ProcInv(p)'
  BY <1>0, <1>3, SparedFixed DEF ProcInv, Paused
<1>6. BodyInv'
  <2>1. \A q \in LeftAlone \cup Spared(Forcing) : q \in Proc
    BY SparedAre DEF LeftAlone
  <2> QED
    BY <1>0, <1>1, <1>2, <1>3, <2>1, SparedFixed DEF WaitsInv, BodyInv
<1> QED
  BY <1>0, <1>4, <1>5, <1>6, WaitsButOne

LEMMA WaitsEnable ==
  ASSUME TypeOK, LifeInv, WaitsInv, NEW p \in Registered, Enable(p)
  PROVE  WaitsInv'
<1>0. p \in Proc
  BY DEF Registered
<1>1. p \notin LeftAlone
  <2> SUFFICES ASSUME p \in LeftAlone
               PROVE  FALSE
    OBVIOUS
  <2>1. WaitInv(p) /\ awaiting[p] \in Ready \cup Waits
    BY <1>0 DEF WaitsInv, ProcInv, LifeInv, TypeOK, ProcessTypeOK, Awaitable, Ready, Waits
  <2>2. sens[p] \in {"Active", "Waiting"}
    BY <2>1 DEF WaitInv, WokenInv, ArmedInv, Rested
  <2> QED
    BY <2>2 DEF Enable
<1>2. \A q \in Proc : sens'[q] = IF q = p THEN "Active" ELSE sens[q]
  BY <1>0 DEF Enable, TypeOK, ProcessTypeOK
<1>3. UNCHANGED <<pc, awaiting, deadline, wake, scheduled, cause, time, dynSubs, timeQ, life, current>>
  BY DEF Enable, stackVars, subVars, frameVars
<1>4. \A q \in Proc : Pending(q)' = Pending(q) /\ (Subscribed(q)' <=> Subscribed(q))
  BY <1>3 DEF Pending, Subscribed
<1>5. \A q \in Proc \ {p} : SameWait(q)
  BY <1>2, <1>3, <1>4 DEF SameWait
<1>6. ProcInv(p)'
  <2>1. sens'[p] = "Active"
    BY <1>0, <1>2
  <2>2. Armed(p) => Armed(p)'
    BY <1>0, <1>3, <1>4 DEF Armed
  <2>3. Paused(p)'
    BY <2>1 DEF Paused
  <2> QED
    BY <1>0, <1>1, <1>3, <2>1, <2>2, <2>3, SparedFixed DEF WaitsInv, ProcInv
<1>7. BodyInv'
  <2>1. \A q \in LeftAlone \cup Spared(Forcing) : q \in Proc
    BY SparedAre DEF LeftAlone
  <2>2. \A q \in Proc : sens[q] # "Waiting" => sens'[q] # "Waiting"
    BY <1>2
  <2> QED
    BY <1>3, <2>1, <2>2, SparedFixed DEF WaitsInv, BodyInv
<1> QED
  BY <1>0, <1>5, <1>6, <1>7, WaitsButOne

LEMMA WaitsDesignCall == Consistent /\ WaitsInv /\ DesignCall => WaitsInv'
<1> SUFFICES ASSUME Consistent, WaitsInv, DesignCall
             PROVE  WaitsInv'
  OBVIOUS
<1>1. TypeOK /\ LifeInv
  BY DEF Consistent, TimeInv
<1>2. ASSUME NEW p \in Spawned, Spawn(p)
      PROVE  WaitsInv'
  BY <1>1, <1>2, WaitsCreated DEF Spawn, subVars, frameVars
<1>3. ASSUME NEW p \in Registered,
             InitializeTrue(p) \/ InitializeFalse(p) \/ Disable(p) \/ Enable(p)
      PROVE  WaitsInv'
  BY <1>1, <1>3, WaitsInitializeTrue, WaitsInitializeFalse, WaitsDisable, WaitsEnable
<1>4. ASSUME \/ \E e \in Event : Notify(e)
             \/ \E s \in Signal : Write(s)
             \/ \E p \in Registered, e \in Event \cup Signal : Always(p, e)
      PROVE  WaitsInv'
  <2>1. UNCHANGED <<pc, awaiting, deadline, sens, wake, scheduled, cause, time, dynSubs, timeQ, life, current>>
    BY <1>4 DEF Notify, Write, Always, stackVars, subVars, frameVars
  <2> QED
    BY <2>1, WaitsUnchanged
<1> QED
  BY <1>2, <1>3, <1>4 DEF DesignCall

(***************************************************************************)
(* The running process ends its evaluation.  A coroutine that is left      *)
(* alone has nothing left of an earlier wait, so what it is armed with is  *)
(* of this one.                                                            *)
(***************************************************************************)
LEMMA WaitsProcessStep == Consistent /\ WaitsInv /\ ProcessStep => WaitsInv'
<1> SUFFICES ASSUME Consistent, WaitsInv, ProcessStep
             PROVE  WaitsInv'
  OBVIOUS
<1>1. TypeOK
  BY DEF Consistent, TimeInv
<1>2. ASSUME NEW p \in Proc, pc = "body", current = p,
             UNCHANGED <<life, current, scheduled, cause, time>>,
             \A q \in Proc \ {p} :
               /\ awaiting'[q] = awaiting[q] /\ deadline'[q] = deadline[q] /\ sens'[q] = sens[q]
               /\ wake'[q] = wake[q] /\ Pending(q)' = Pending(q)
               /\ \A e \in AllEvent : dynSubs'[e][q] = dynSubs[e][q],
             p \in Coro => pc' # "body" /\ Armed(p)',
             p \in LeftAlone => WaitInv(p)',
             p \in Spared(Forcing) => Paused(p)',
             p \notin Coro => (sens'[p] = "Waiting" => Subscribed(p)')
      PROVE  WaitsInv'
  <2>1. \A q \in Proc \ {p} : SameWait(q)
    BY <1>2 DEF SameWait
  <2>2. life[p] = "live" /\ p \in LeftAlone \cup Spared(Dropping) \cup Spared(Forcing) => p \in Coro
    BY <1>2, SparedAre DEF Consistent, LifeInv, DestroyedInv, LeftAlone
  <2>3. life'[p] = "live"
    BY <1>2 DEF Consistent, LifeInv, DestroyedInv
  <2>4. ProcInv(p)'
    BY <1>2, <2>2, <2>3, SparedFixed DEF ProcInv
  <2>5. BodyInv'
    <3>1. p \in LeftAlone \cup Spared(Forcing) => p \in Coro
      BY SparedAre DEF LeftAlone
    <3> QED
      BY <1>2, <3>1, SparedFixed DEF BodyInv
  <2> QED
    BY <2>1, <2>4, <2>5, WaitsButOne
\* What a running coroutine has that is left alone.
<1>3. ASSUME NEW p \in LeftAlone, pc = "body", current = p
      PROVE  /\ p \in Proc /\ ~scheduled[p] /\ ~Subscribed(p) /\ sens[p] = "Active" /\ Pending(p) = {}
             /\ \A t \in timeQ : t.proc = p => t.tag < wake[p]
  <2>1. p \in Proc /\ life[p] = "live"
    BY <1>3, SparedAre DEF Consistent, LifeInv, DestroyedInv, LeftAlone
  <2>2. WaitInv(p) /\ awaiting[p] = "running" /\ ~scheduled[p]
    BY <1>3, <2>1 DEF WaitsInv, ProcInv, BodyInv
  <2>3. Rested(p) /\ Pending(p) = {}
    BY <2>2 DEF WaitInv, Ready
  <2>4. ASSUME NEW t \in timeQ, t.proc = p
        PROVE  t.tag < wake[p]
    <3>1. t.tag # wake[p] /\ t.tag <= wake[p]
      BY <2>3, <2>4 DEF Pending, Consistent, LifeInv, TagInv
    <3>2. t.tag \in Int /\ wake[p] \in Nat
      BY <1>1, <2>1 DEF TypeOK, TimeTypeOK, TimeEvent, Sticky
    <3> QED
      BY <3>1, <3>2
  <2> QED
    BY <2>1, <2>2, <2>3, <2>4 DEF Rested
\* Subscribing the running process.
<1>4. ASSUME NEW p \in Proc, NEW w \in [AllEvent -> Nat], AddDynamic(p, w)
      PROVE  /\ \A e \in AllEvent : w[e] > 0 => dynSubs'[e][p] > 0
             /\ (\E e \in AllEvent : w[e] > 0) => Subscribed(p)'
             /\ sens'[p] = "Waiting"
             /\ \A q \in Proc \ {p} : /\ sens'[q] = sens[q]
                                      /\ \A e \in AllEvent : dynSubs'[e][q] = dynSubs[e][q]
  <2>1. \A e \in AllEvent : dynSubs'[e][p] = dynSubs[e][p] + w[e]
    BY <1>1, <1>4 DEF AddDynamic, TypeOK, SubTypeOK
  <2>2. \A e \in AllEvent : dynSubs[e][p] \in Nat /\ w[e] \in Nat
    BY <1>1 DEF TypeOK, SubTypeOK
  <2>3. \A e \in AllEvent : w[e] > 0 => dynSubs'[e][p] > 0
    BY <2>1, <2>2
  <2>4. (\E e \in AllEvent : w[e] > 0) => Subscribed(p)'
    BY <2>1, <2>2 DEF Subscribed
  <2>5. \A q \in Proc \ {p}, e \in AllEvent : dynSubs'[e][q] = dynSubs[e][q]
    BY <1>1, <1>4 DEF AddDynamic, TypeOK, SubTypeOK
  <2>6. sens'[p] = "Waiting" /\ \A q \in Proc \ {p} : sens'[q] = sens[q]
    BY <1>1, <1>4 DEF AddDynamic, TypeOK, ProcessTypeOK
  <2> QED
    BY <2>3, <2>4, <2>5, <2>6
<1>5. ASSUME NEW p \in Proc, NEW d \in Nat \ {0}, AddTimeWait(p, d), wake' = wake
      PROVE  /\ \A q \in Proc \ {p} : Pending(q)' = Pending(q)
             /\ Pending(p)' = Pending(p) \cup {[at |-> time + d, proc |-> p, tag |-> wake[p]]}
  <2> DEFINE new == [at |-> time + d, proc |-> p, tag |-> wake[p]]
  <2>1. timeQ' = timeQ \cup {new}
    BY <1>5 DEF AddTimeWait
  <2>2. new.proc = p /\ new.tag = wake[p]
    OBVIOUS
  <2> HIDE DEF new
  <2>3. /\ \A q \in Proc \ {p} : Pending(q)' = Pending(q)
        /\ Pending(p)' = Pending(p) \cup {new}
    BY <1>5, <2>1, <2>2 DEF Pending
  <2> QED
    BY <2>3 DEF new
<1>6. ASSUME NEW p \in Proc, NEW leaf \in Awaitable, Suspend(p, leaf)
      PROVE  /\ p \in Coro /\ pc = "body" /\ current = p /\ pc' # "body"
             /\ UNCHANGED <<life, current, scheduled, cause, time, wake>>
             /\ awaiting'[p] = leaf
             /\ \A q \in Proc \ {p} : awaiting'[q] = awaiting[q]
  BY <1>1, <1>6 DEF Suspend, Runs, stackVars, TypeOK, ProcessTypeOK
<1>7. [NoEvents EXCEPT ![NextDelta] = 1] \in [AllEvent -> Nat]
      /\ [NoEvents EXCEPT ![NextDelta] = 1][NextDelta] = 1 /\ NextDelta \in AllEvent
  BY DEF NoEvents, AllEvent
<1>8. ASSUME timeQ' = timeQ, NEW q \in Proc, wake'[q] = wake[q]
      PROVE  Pending(q)' = Pending(q)
  BY <1>8 DEF Pending
<1>9. ASSUME NEW p \in Proc, WaitStatic(p)
      PROVE  WaitsInv'
  <2>1. /\ p \in Coro /\ pc = "body" /\ current = p /\ pc' # "body"
        /\ UNCHANGED <<life, current, scheduled, cause, time, wake>>
        /\ awaiting'[p] = "static"
        /\ \A q \in Proc \ {p} : awaiting'[q] = awaiting[q]
    BY <1>6, <1>9 DEF WaitStatic, Awaitable
  <2>2. UNCHANGED <<timeQ, dynSubs, sens, deadline>>
    BY <1>9 DEF WaitStatic
  <2>3. \A q \in Proc : Pending(q)' = Pending(q)
    BY <1>8, <2>1, <2>2
  <2>4. ASSUME p \in LeftAlone
        PROVE  WaitInv(p)'
    <3>1. Rested(p)' /\ Pending(p)' = {} /\ ~scheduled'[p]
      BY <1>3, <2>1, <2>2, <2>3, <2>4 DEF Rested, Subscribed
    <3> QED
      BY <2>1, <3>1 DEF WaitInv, WokenInv, ArmedInv, Waits
  <2>5. Armed(p)' /\ (p \in Spared(Forcing) => Paused(p)')
    BY <2>1, <2>2 DEF Armed, Paused, WaitsInv, BodyInv
  <2> QED
    BY <1>2, <2>1, <2>2, <2>3, <2>4, <2>5
<1>10. ASSUME NEW p \in Proc, NEW d \in Delays, WaitTime(p, d)
       PROVE  WaitsInv'
  <2>1. /\ p \in Coro /\ pc = "body" /\ current = p /\ pc' # "body"
        /\ UNCHANGED <<life, current, scheduled, cause, time, wake>>
        /\ awaiting'[p] = "time"
        /\ \A q \in Proc \ {p} : awaiting'[q] = awaiting[q]
    BY <1>6, <1>10 DEF WaitTime, Awaitable
  <2>2. deadline' = deadline
    BY <1>10 DEF WaitTime
  <2>3. p \in LeftAlone \cup Spared(Forcing) => ~scheduled'[p]
    BY <2>1 DEF WaitsInv, BodyInv
  <2>4. CASE d = 0
    <3>1. /\ AddDynamic(p, [NoEvents EXCEPT ![NextDelta] = 1])
          /\ timeQ' = timeQ
      BY <1>10, <2>4 DEF WaitTime, AddNextDelta
    <3>2. /\ dynSubs'[NextDelta][p] > 0 /\ sens'[p] = "Waiting"
          /\ \A q \in Proc \ {p} : /\ sens'[q] = sens[q]
                                   /\ \A e \in AllEvent : dynSubs'[e][q] = dynSubs[e][q]
      <4> DEFINE once == [NoEvents EXCEPT ![NextDelta] = 1]
      <4>1. once \in [AllEvent -> Nat] /\ once[NextDelta] > 0 /\ NextDelta \in AllEvent /\ AddDynamic(p, once)
        BY <1>7, <3>1
      <4> HIDE DEF once
      <4> QED
        BY <1>4, <4>1
    <3>3. \A q \in Proc : Pending(q)' = Pending(q)
      BY <1>8, <2>1, <3>1
    <3>4. p \in LeftAlone => WaitInv(p)'
      BY <2>1, <2>3, <3>2 DEF WaitInv, WokenInv, ArmedInv, Ready, Waits
    <3>5. Armed(p)' /\ (p \in Spared(Forcing) => Paused(p)')
      BY <1>7, <2>1, <2>3, <3>2 DEF Armed, Paused, Subscribed
    <3> QED
      BY <1>2, <2>1, <2>2, <3>2, <3>3, <3>4, <3>5
  <2>5. CASE d > 0
    <3>1. AddTimeWait(p, d) /\ d \in Nat \ {0} /\ dynSubs' = dynSubs
          /\ sens' = [sens EXCEPT ![p] = "Waiting"]
      BY <1>10, <2>5, NumberAssumption DEF WaitTime
    <3>2. /\ \A q \in Proc \ {p} : Pending(q)' = Pending(q)
          /\ Pending(p)' # {}
      BY <1>5, <2>1, <3>1
    <3>3. sens'[p] = "Waiting" /\ \A q \in Proc \ {p} : sens'[q] = sens[q]
      BY <1>1, <3>1 DEF TypeOK, ProcessTypeOK
    <3>4. p \in LeftAlone => WaitInv(p)'
      BY <2>1, <2>3, <3>2, <3>3 DEF WaitInv, WokenInv, ArmedInv, Ready, Waits
    <3>5. Armed(p)' /\ (p \in Spared(Forcing) => Paused(p)')
      BY <2>1, <2>3, <3>2 DEF Armed, Paused
    <3> QED
      BY <1>2, <2>1, <2>2, <3>1, <3>2, <3>3, <3>4, <3>5
  <2> QED
    BY <2>4, <2>5, NumberAssumption
<1>11. ASSUME NEW p \in Proc, NEW w \in WaitLists, WaitEvents(p, w)
       PROVE  WaitsInv'
  <2>1. /\ p \in Coro /\ pc = "body" /\ current = p /\ pc' # "body"
        /\ UNCHANGED <<life, current, scheduled, cause, time, wake>>
        /\ awaiting'[p] = "event"
        /\ \A q \in Proc \ {p} : awaiting'[q] = awaiting[q]
    BY <1>6, <1>11 DEF WaitEvents, Awaitable
  <2>2. /\ Subscribed(p)' /\ sens'[p] = "Waiting"
        /\ \A q \in Proc \ {p} : /\ sens'[q] = sens[q]
                                 /\ \A e \in AllEvent : dynSubs'[e][q] = dynSubs[e][q]
    BY <1>4, <1>11, EventAssumption DEF WaitEvents
  <2>3. timeQ' = timeQ /\ deadline' = deadline
    BY <1>11 DEF WaitEvents
  <2>4. \A q \in Proc : Pending(q)' = Pending(q)
    BY <1>8, <2>1, <2>3
  <2>5. ASSUME p \in LeftAlone
        PROVE  WaitInv(p)'
    <3>1. Pending(p)' = {} /\ ~scheduled'[p]
      BY <1>3, <2>1, <2>4, <2>5
    <3> QED
      BY <2>1, <2>2, <3>1 DEF WaitInv, WokenInv, ArmedInv, Ready, Waits
  <2>6. Armed(p)' /\ (p \in Spared(Forcing) => Paused(p)')
    BY <2>1, <2>2 DEF Armed, Paused, WaitsInv, BodyInv
  <2> QED
    BY <1>2, <2>1, <2>2, <2>3, <2>4, <2>5, <2>6
<1>12. ASSUME NEW p \in Proc, NEW w \in WaitLists, NEW d \in Delays \ {0}, WaitEventsTimeout(p, w, d)
       PROVE  WaitsInv'
  <2>1. /\ p \in Coro /\ pc = "body" /\ current = p /\ pc' # "body"
        /\ UNCHANGED <<life, current, scheduled, cause, time, wake>>
        /\ awaiting'[p] = "timed"
        /\ \A q \in Proc \ {p} : awaiting'[q] = awaiting[q]
    BY <1>6, <1>12 DEF WaitEventsTimeout, Awaitable
  <2>2. /\ Subscribed(p)' /\ sens'[p] = "Waiting"
        /\ \A q \in Proc \ {p} : /\ sens'[q] = sens[q]
                                 /\ \A e \in AllEvent : dynSubs'[e][q] = dynSubs[e][q]
    BY <1>4, <1>12, EventAssumption DEF WaitEventsTimeout
  <2>3. d \in Nat \ {0} /\ AddTimeWait(p, d)
    BY <1>12, NumberAssumption DEF WaitEventsTimeout
  <2>4. /\ \A q \in Proc \ {p} : Pending(q)' = Pending(q)
        /\ Pending(p)' = Pending(p) \cup {[at |-> time + d, proc |-> p, tag |-> wake[p]]}
    BY <1>5, <2>1, <2>3
  <2>5. deadline'[p] = time + d /\ \A q \in Proc \ {p} : deadline'[q] = deadline[q]
    BY <1>1, <1>12 DEF WaitEventsTimeout, TypeOK, ProcessTypeOK
  <2>6. deadline'[p] # 0 /\ wake'[p] = wake[p]
    BY <1>1, <2>1, <2>3, <2>5 DEF TypeOK, TimeTypeOK
  <2>7. Pending(p)' = Pending(p) \cup {[at |-> deadline'[p], proc |-> p, tag |-> wake'[p]]}
    BY <2>4, <2>5, <2>6
  <2>8. ASSUME p \in LeftAlone
        PROVE  WaitInv(p)'
    <3>1. Pending(p) = {} /\ ~scheduled'[p]
      BY <1>3, <2>1, <2>8
    <3>2. Pending(p)' = {[at |-> deadline'[p], proc |-> p, tag |-> wake'[p]]}
      BY <2>7, <3>1
    <3> QED
      BY <2>1, <2>2, <2>6, <3>1, <3>2 DEF WaitInv, WokenInv, ArmedInv, Ready, Waits
  <2>9. Armed(p)' /\ (p \in Spared(Forcing) => Paused(p)')
    <3>1. [at |-> deadline'[p], proc |-> p, tag |-> wake'[p]] \in Pending(p)'
      BY <2>7
    <3> QED
      BY <2>1, <2>2, <3>1 DEF Armed, Paused, WaitsInv, BodyInv
  <2> QED
    BY <1>2, <2>1, <2>2, <2>4, <2>5, <2>8, <2>9
<1>13. ASSUME NEW p \in Proc, CoroReturn(p) \/ CoroThrow(p)
       PROVE  WaitsInv'
  <2>1. /\ p \in Coro /\ pc = "body" /\ current = p /\ pc' # "body" /\ Complete(p)
        /\ UNCHANGED <<life, current, scheduled, cause, time, timeQ, sens, deadline>>
    BY <1>13 DEF CoroReturn, CoroThrow, Runs, stackVars
  <2>2. /\ \A e \in AllEvent : dynSubs'[e][p] = 0
        /\ \A e \in AllEvent, q \in Proc : q # p => dynSubs'[e][q] = dynSubs[e][q]
        /\ \A q \in Proc : wake'[q] = IF q = p THEN wake[p] + 1 ELSE wake[q]
    BY <1>1, <2>1, UnscheduleElements DEF Complete, Consistent
  <2>3. awaiting'[p] = "done" /\ \A q \in Proc \ {p} : awaiting'[q] = awaiting[q]
    BY <1>1, <2>1 DEF Complete, TypeOK, ProcessTypeOK
  <2>4. \A q \in Proc \ {p} : Pending(q)' = Pending(q)
    BY <1>8, <2>1, <2>2
  <2>5. ASSUME p \in LeftAlone
        PROVE  WaitInv(p)'
    <3>1. \A t \in timeQ : t.proc = p => t.tag < wake[p] /\ t.tag \in Int /\ wake[p] \in Nat
      BY <1>1, <1>3, <2>1, <2>5 DEF TypeOK, TimeTypeOK, TimeEvent, Sticky
    <3>2. Pending(p)' = {}
      BY <2>1, <2>2, <3>1 DEF Pending
    <3>3. Rested(p)' /\ ~scheduled'[p]
      BY <1>3, <2>1, <2>2, <2>5 DEF Rested, Subscribed
    <3> QED
      BY <2>3, <3>2, <3>3 DEF WaitInv, WokenInv, ArmedInv, Waits
  <2>6. Armed(p)' /\ (p \in Spared(Forcing) => Paused(p)')
    BY <2>1, <2>3 DEF Armed, Paused, WaitsInv, BodyInv
  <2> QED
    BY <1>2, <2>1, <2>2, <2>3, <2>4, <2>5, <2>6
<1>14. ASSUME NEW p \in Proc, p \notin Coro,
              \/ \E w \in WaitLists : NextTriggerEvents(p, w)
              \/ \E d \in Delays : NextTriggerTime(p, d)
              \/ MethodReturn(p) \/ MethodThrow(p)
       PROVE  WaitsInv'
  <2>1. /\ pc = "body" /\ current = p
        /\ UNCHANGED <<life, current, scheduled, cause, time, wake, awaiting, deadline>>
    BY <1>14 DEF NextTriggerEvents, NextTriggerTime, MethodReturn, MethodThrow, Runs, stackVars, frameVars
  <2>2. \/ \E w \in [AllEvent -> Nat] : AddDynamic(p, w) /\ \E e \in AllEvent : w[e] > 0
        \/ UNCHANGED <<dynSubs, sens>>
    <3>1. ASSUME NEW w \in WaitLists, NextTriggerEvents(p, w)
          PROVE  w \in [AllEvent -> Nat] /\ AddDynamic(p, w) /\ \E e \in AllEvent : w[e] > 0
      BY <3>1, EventAssumption DEF NextTriggerEvents
    <3>2. ASSUME NEW d \in Delays, NextTriggerTime(p, d), d = 0
          PROVE  \E w \in [AllEvent -> Nat] : AddDynamic(p, w) /\ \E e \in AllEvent : w[e] > 0
      <4> DEFINE once == [NoEvents EXCEPT ![NextDelta] = 1]
      <4>1. once \in [AllEvent -> Nat] /\ once[NextDelta] > 0 /\ NextDelta \in AllEvent
        BY <1>7
      <4>2. AddDynamic(p, once)
        BY <3>2 DEF NextTriggerTime, AddNextDelta
      <4> HIDE DEF once
      <4> QED
        BY <4>1, <4>2
    <3>3. ASSUME NEW d \in Delays, NextTriggerTime(p, d), d # 0
          PROVE  UNCHANGED <<dynSubs, sens>>
      BY <3>3, NumberAssumption DEF NextTriggerTime, subVars
    <3>4. ASSUME MethodReturn(p) \/ MethodThrow(p)
          PROVE  UNCHANGED <<dynSubs, sens>>
      BY <3>4 DEF MethodReturn, MethodThrow, subVars
    <3> QED
      BY <1>14, <3>1, <3>2, <3>3, <3>4
  <2>3. /\ \A q \in Proc \ {p} : /\ sens'[q] = sens[q]
                                 /\ \A e \in AllEvent : dynSubs'[e][q] = dynSubs[e][q]
        /\ sens'[p] = "Waiting" => Subscribed(p)'
    <3>1. CASE UNCHANGED <<dynSubs, sens>>
      BY <1>14, <3>1 DEF WaitsInv, ProcInv, Subscribed
    <3> QED
      BY <1>4, <2>2, <3>1
  <2>4. \A q \in Proc \ {p} : Pending(q)' = Pending(q)
    <3>1. timeQ \subseteq timeQ' /\ \A t \in timeQ' : t \in timeQ \/ t.proc = p
      BY <1>14 DEF NextTriggerEvents, NextTriggerTime, MethodReturn, MethodThrow
    <3> QED
      BY <2>1, <3>1 DEF Pending
  <2>5. p \notin LeftAlone /\ p \notin Spared(Forcing)
    BY <1>14, SparedAre DEF LeftAlone
  <2> QED
    BY <1>2, <1>14, <2>1, <2>3, <2>4, <2>5
<1> QED
  BY <1>9, <1>10, <1>11, <1>12, <1>13, <1>14
  DEF ProcessStep, NextTriggerEvents, NextTriggerTime, MethodReturn, MethodThrow, Runs
-----------------------------------------------------------------------------
LEMMA WaitsResume ==
  ASSUME Consistent, WaitsInv, NEW p \in Proc, Resume(p)
  PROVE  WaitsInv'
<1>1. TypeOK
  BY DEF Consistent, TimeInv
<1>2. scheduled[p]
  <2>1. Len(evalStack) \in DOMAIN evalStack
    BY <1>1, EmptySeq, LenProperties DEF Resume, TypeOK, StackTypeOK
  <2> QED
    BY <2>1 DEF Resume, Consistent, FlagsMatchStack, Queued, Range
<1>3. life[p] = "live"
  BY <1>2 DEF Consistent, LifeInv, Asleep, Settled
<1>4. /\ \A q \in Proc \ {p} : /\ scheduled'[q] = scheduled[q] /\ cause'[q] = cause[q]
                               /\ wake'[q] = wake[q] /\ awaiting'[q] = awaiting[q]
                               /\ deadline'[q] = deadline[q]
      /\ ~scheduled'[p] /\ wake'[p] = wake[p] + 1
      /\ p \in Coro => awaiting'[p] = "running"
      /\ p \notin Coro => awaiting'[p] = awaiting[p]
  BY <1>1 DEF Resume, TypeOK, StackTypeOK, TimeTypeOK, ProcessTypeOK
<1>5. UNCHANGED <<sens, time, dynSubs, timeQ, life>> /\ current' = p
  BY DEF Resume, subVars
<1>6. \A q \in Proc \ {p} : Pending(q)' = Pending(q)
  BY <1>4, <1>5 DEF Pending
<1>7. \A q \in Proc \ {p} : SameWait(q)
  BY <1>4, <1>5, <1>6 DEF SameWait
<1>8. ASSUME p \in LeftAlone
      PROVE  WaitInv(p)'
  <2>1. WaitInv(p) /\ awaiting[p] \in Ready \cup Waits
    BY <1>1, <1>3, <1>8 DEF WaitsInv, ProcInv, TypeOK, ProcessTypeOK, Awaitable, Ready, Waits
  <2>2. Rested(p)
    BY <1>2, <2>1 DEF WaitInv, WokenInv
  <2>3. Rested(p)'
    BY <1>5, <2>2 DEF Rested, Subscribed
  <2>4. Pending(p)' = {}
    <3>1. \A t \in timeQ : t.proc = p => t.tag <= wake[p] /\ t.tag \in Int /\ wake[p] \in Nat
      BY <1>1 DEF TypeOK, TimeTypeOK, TimeEvent, Sticky, Consistent, LifeInv, TagInv
    <3> QED
      BY <1>4, <1>5, <3>1 DEF Pending
  <2>5. p \in Coro
    BY <1>8, SparedAre DEF LeftAlone
  <2> QED
    BY <1>4, <2>3, <2>4, <2>5 DEF WaitInv, WokenInv, ArmedInv, Waits
<1>9. p \in Spared(Forcing) => sens'[p] # "Waiting" /\ Paused(p)'
  BY <1>2, <1>3, <1>5 DEF WaitsInv, ProcInv, Paused
<1>10. p \in Coro => Armed(p)'
  BY <1>4 DEF Armed
<1>11. p \notin Coro => (sens'[p] = "Waiting" => Subscribed(p)')
  BY <1>5 DEF WaitsInv, ProcInv, Subscribed
<1>12. p \in LeftAlone \cup Spared(Forcing) \cup Spared(Dropping) => p \in Coro
  BY SparedAre DEF LeftAlone
<1>13. ProcInv(p)' /\ BodyInv'
  BY <1>3, <1>4, <1>5, <1>8, <1>9, <1>10, <1>11, <1>12, SparedFixed DEF ProcInv, BodyInv
<1> QED
  BY <1>7, <1>13, WaitsButOne

(***************************************************************************)
(* An event ends the wait of a coroutine that is subscribed: it is not yet *)
(* scheduled, its static sensitivity is paused, and its timeout is not due *)
(* as no time event is overdue.                                            *)
(***************************************************************************)
LEMMA WaitsTrigger ==
  ASSUME Consistent, WaitsInv, NEW e \in AllEvent, Trigger(e)
  PROVE  WaitsInv'
<1>1. TypeOK
  BY DEF Consistent, TimeInv
<1> DEFINE wakes   == StaticWoken(e)
           waiters == {p \in Proc : dynSubs[e][p] > 0}
<1>2. \A p \in Proc : scheduled'[p] <=> scheduled[p] \/ p \in wakes \/ p \in waiters
  BY DEF Trigger, PushBoth
<1>3. \A p \in Proc : cause'[p] = IF (p \in wakes \/ p \in waiters) /\ ~scheduled[p]
                                  THEN IF p \in wakes THEN "static" ELSE "event"
                                  ELSE cause[p]
  BY DEF Trigger, PushBoth
<1>4. \A p \in Proc : sens'[p] = IF p \in waiters THEN "Active" ELSE sens[p]
  BY DEF Trigger, Restore
<1>5. \A p \in Proc, f \in AllEvent : dynSubs'[f][p] = IF p \in waiters THEN 0 ELSE dynSubs[f][p]
  <2> SUFFICES ASSUME NEW p \in Proc, NEW f \in AllEvent
               PROVE  dynSubs'[f][p] = IF p \in waiters THEN 0 ELSE dynSubs[f][p]
    OBVIOUS
  <2>1. dynSubs'[f][p] = IF p \notin waiters THEN dynSubs[f][p]
                         ELSE IF f = e THEN 0 ELSE Monus(dynSubs[f][p], dynEvents[p][f])
    BY DEF Trigger
  <2>2. dynSubs[f][p] = dynEvents[p][f] /\ dynSubs[f][p] \in Nat
    BY <1>1 DEF Consistent, SubscriptionsMirrored, TypeOK, SubTypeOK
  <2> QED
    BY <2>1, <2>2 DEF Monus
<1>6. UNCHANGED <<pc, awaiting, deadline, wake, time, timeQ, life, current>>
  BY DEF Trigger, frameVars
<1>7. \A p \in Proc : p \in wakes => sens[p] = "Active"
  BY DEF StaticWoken
<1>8. \A p \in Proc : p \in waiters => Subscribed(p)
  BY DEF Subscribed
<1>9. \A p \in Proc : Pending(p)' = Pending(p)
  BY <1>6 DEF Pending
<1> HIDE DEF wakes, waiters
<1>10. ASSUME NEW p \in Proc, p \notin waiters, p \notin wakes \/ scheduled[p]
       PROVE  SameWait(p)
  <2>1. scheduled'[p] = scheduled[p]
    BY <1>1, <1>2, <1>10 DEF Trigger, PushBoth, TypeOK, StackTypeOK
  <2> QED
    BY <1>3, <1>4, <1>5, <1>6, <1>9, <1>10, <2>1 DEF SameWait
<1>11. ASSUME NEW p \in LeftAlone, life'[p] # "gone"
       PROVE  WaitInv(p)'
  <2>0. p \in Proc
    BY SparedAre DEF LeftAlone
  <2>1. ProcInv(p) /\ WaitInv(p) /\ awaiting[p] \in Ready \cup Waits
    BY <1>1, <1>6, <1>11, <2>0 DEF WaitsInv, ProcInv, TypeOK, ProcessTypeOK, Awaitable, Ready, Waits
  <2>2. CASE p \in waiters
    <3>1. awaiting[p] \in Waits /\ ~scheduled[p] /\ sens[p] = "Waiting"
      BY <1>8, <2>0, <2>1, <2>2 DEF WaitInv, WokenInv, ArmedInv, Rested
    <3>2. scheduled'[p] /\ cause'[p] = "event"
      BY <1>2, <1>3, <1>7, <2>0, <2>2, <3>1
    <3>3. Rested(p)'
      BY <1>4, <1>5, <2>0, <2>2 DEF Rested, Subscribed
    <3>4. awaiting[p] = "timed" => deadline[p] # 0 /\ ~(time >= deadline[p])
      <4> SUFFICES ASSUME awaiting[p] = "timed"
                   PROVE  deadline[p] # 0 /\ ~(time >= deadline[p])
        OBVIOUS
      <4> DEFINE t == [at |-> deadline[p], proc |-> p, tag |-> wake[p]]
      <4>1. deadline[p] # 0 /\ Pending(p) = {t}
        BY <2>1, <3>1 DEF WaitInv, ArmedInv
      <4>2. t \in timeQ /\ t.at = deadline[p]
        BY <4>1 DEF Pending
      <4>3. deadline[p] > time /\ deadline[p] \in Nat /\ time \in Nat
        BY <1>1, <2>0, <4>2 DEF Consistent, TimeInv, NothingOverdue, TypeOK, TimeTypeOK, ProcessTypeOK
      <4> QED
        BY <4>1, <4>3
    <3> QED
      BY <1>6, <3>1, <3>2, <3>3, <3>4 DEF WaitInv, WokenInv, ArmedInv, Ready, Waits
  <2>3. CASE p \notin waiters /\ p \in wakes /\ ~scheduled[p]
    <3>1. awaiting[p] \in Ready
      BY <1>7, <2>0, <2>1, <2>3 DEF WaitInv, ArmedInv
    <3>2. Rested(p)' /\ Pending(p)' = {}
      BY <1>4, <1>5, <1>9, <2>0, <2>1, <2>3, <3>1 DEF WaitInv, Rested, Subscribed
    <3>3. scheduled'[p] /\ cause'[p] = "static"
      BY <1>2, <1>3, <2>0, <2>3
    <3> QED
      BY <1>6, <3>1, <3>2, <3>3 DEF WaitInv, WokenInv, ArmedInv, Ready, Waits
  <2>4. CASE p \notin waiters /\ (p \notin wakes \/ scheduled[p])
    <3>1. ProcInv(p)'
      BY <1>10, <2>0, <2>1, <2>4, WaitKept
    <3> QED
      BY <1>11, <3>1, SparedFixed DEF ProcInv
  <2> QED
    BY <2>2, <2>3, <2>4
<1>12. ASSUME NEW p \in Proc
       PROVE  ProcInv(p)'
  <2>1. ProcInv(p)
    BY DEF WaitsInv
  <2>2. CASE p \in waiters
    <3>1. scheduled'[p] /\ sens'[p] = "Active"
      BY <1>2, <1>4, <2>2
    <3>2. Armed(p)' /\ Paused(p)'
      BY <3>1 DEF Armed, Paused
    <3> QED
      BY <1>6, <1>11, <2>1, <3>1, <3>2, SparedFixed DEF ProcInv
  <2>3. CASE p \notin waiters /\ p \in wakes /\ ~scheduled[p]
    <3>1. scheduled'[p] /\ sens'[p] = "Active"
      BY <1>2, <1>4, <1>7, <2>3
    <3>2. Armed(p)' /\ Paused(p)'
      BY <3>1 DEF Armed, Paused
    <3> QED
      BY <1>6, <1>11, <2>1, <3>1, <3>2, SparedFixed DEF ProcInv
  <2>4. CASE p \notin waiters /\ (p \notin wakes \/ scheduled[p])
    BY <1>10, <2>1, <2>4, WaitKept
  <2> QED
    BY <2>2, <2>3, <2>4
<1>13. BodyInv'
  BY DEF Trigger, BodyInv
<1> QED
  BY <1>12, <1>13 DEF WaitsInv

(***************************************************************************)
(* Time advances when nothing is scheduled, and the time events that come  *)
(* due end the waits that they are of.                                     *)
(***************************************************************************)
LEMMA WaitsAdvance == Consistent /\ WaitsInv /\ Advance => WaitsInv'
<1> SUFFICES ASSUME Consistent, WaitsInv, Advance
             PROVE  WaitsInv'
  OBVIOUS
<1>1. TypeOK
  BY DEF Consistent, TimeInv
<1> DEFINE now   == time + NextStep
           due   == {t \in timeQ : t.at = now}
           extra == {t.proc : t \in {u \in due : u.tag = Sticky}}
           woken == {t.proc : t \in {u \in due : u.tag = wake[u.proc]}}
<1>2. \A p \in Proc : ~scheduled[p]
  <2>1. Range(<<>>) = {}
    BY DEF Range
  <2> QED
    BY <2>1 DEF Advance, Consistent, TimeInv, ControlInv, NothingScheduled, FlagsMatchStack, Queued
<1>3. \A p \in Proc : scheduled'[p] <=> p \in extra \/ p \in woken
  BY <1>2 DEF Advance, PushBoth
<1>4. \A p \in Proc : p \in woken => cause'[p] = "time"
  BY <1>2 DEF Advance, PushBoth
<1>5. \A p \in Coro : p \notin extra
  BY DEF Consistent, LifeInv, TagInv
<1>6. \A p \in Proc : sens'[p] = IF p \in woken THEN "Active" ELSE sens[p]
  BY DEF Advance, Restore
<1>7. \A p \in Proc, f \in AllEvent : dynSubs'[f][p] = IF p \in woken THEN 0 ELSE dynSubs[f][p]
  <2> SUFFICES ASSUME NEW p \in Proc, NEW f \in AllEvent
               PROVE  dynSubs'[f][p] = IF p \in woken THEN 0 ELSE dynSubs[f][p]
    OBVIOUS
  <2>1. dynSubs'[f][p] = IF p \in woken THEN Monus(dynSubs[f][p], dynEvents[p][f]) ELSE dynSubs[f][p]
    BY DEF Advance, CancelDynamic
  <2>2. dynSubs[f][p] = dynEvents[p][f] /\ dynSubs[f][p] \in Nat
    BY <1>1 DEF Consistent, SubscriptionsMirrored, TypeOK, SubTypeOK
  <2> QED
    BY <2>1, <2>2 DEF Monus
<1>8. UNCHANGED <<awaiting, deadline, wake, life, current>> /\ time' = now /\ pc' # "body"
  BY DEF Advance, frameVars
<1>9. \A p \in Proc : p \in woken => \E t \in Pending(p) : t.at = now
  BY DEF Pending
<1>10. \A p \in Proc : p \notin woken => Pending(p)' = Pending(p)
  BY <1>8 DEF Advance, Pending
<1> HIDE DEF woken, extra, now
<1>11. ASSUME NEW p \in Coro, p \notin woken
       PROVE  SameWait(p)
  <2>0. p \in Proc
    BY ProcAssumption
  <2>1. scheduled'[p] \in BOOLEAN /\ scheduled[p] \in BOOLEAN
    BY <1>1, <2>0 DEF Advance, PushBoth, TypeOK, StackTypeOK
  <2>2. scheduled'[p] = scheduled[p]
    BY <1>2, <1>3, <1>5, <1>11, <2>0, <2>1
  <2> QED
    BY <1>2, <1>6, <1>7, <1>8, <1>10, <1>11, <2>0, <2>2 DEF SameWait
<1>12. ASSUME NEW p \in LeftAlone, p \in woken, life[p] # "gone"
       PROVE  WaitInv(p)'
  <2>0. p \in Proc
    BY SparedAre DEF LeftAlone
  <2>1. WaitInv(p) /\ awaiting[p] \in Ready \cup Waits /\ ~scheduled[p]
    BY <1>1, <1>2, <1>12, <2>0 DEF WaitsInv, ProcInv, TypeOK, ProcessTypeOK, Awaitable, Ready, Waits
  <2>2. Pending(p) # {}
    BY <1>9, <1>12, <2>0
  <2>3. awaiting[p] \in {"time", "timed"}
    BY <2>1, <2>2 DEF WaitInv, ArmedInv, Ready, Waits
  <2>4. scheduled'[p] /\ cause'[p] = "time"
    BY <1>3, <1>4, <1>12, <2>0
  <2>5. Rested(p)'
    BY <1>6, <1>7, <1>12, <2>0 DEF Rested, Subscribed
  <2>6. awaiting[p] = "timed" => deadline[p] # 0 /\ time' >= deadline[p]
    <3> SUFFICES ASSUME awaiting[p] = "timed"
                 PROVE  deadline[p] # 0 /\ time' >= deadline[p]
      OBVIOUS
    <3>1. deadline[p] # 0 /\ Pending(p) = {[at |-> deadline[p], proc |-> p, tag |-> wake[p]]}
      BY <2>1 DEF WaitInv, ArmedInv
    <3>2. deadline[p] = now /\ deadline[p] \in Nat
      BY <1>1, <1>9, <1>12, <2>0, <3>1 DEF TypeOK, ProcessTypeOK
    <3> QED
      BY <1>8, <3>1, <3>2
  <2> QED
    BY <1>8, <2>3, <2>4, <2>5, <2>6 DEF WaitInv, WokenInv, ArmedInv, Ready, Waits
<1>13. ASSUME NEW p \in Proc
       PROVE  ProcInv(p)'
  <2>1. ProcInv(p)
    BY DEF WaitsInv
  <2>2. CASE p \in woken
    <3>1. scheduled'[p] /\ sens'[p] = "Active"
      BY <1>3, <1>6, <2>2
    <3>2. Armed(p)' /\ Paused(p)'
      BY <3>1 DEF Armed, Paused
    <3> QED
      BY <1>8, <1>12, <2>1, <2>2, <3>1, <3>2, SparedFixed DEF ProcInv
  <2>3. CASE p \in Coro /\ p \notin woken
    BY <1>11, <2>1, <2>3, WaitKept
  <2>4. CASE p \notin Coro /\ p \notin woken
    <3>1. p \notin LeftAlone /\ p \notin Spared(Dropping) /\ p \notin Spared(Forcing)
      BY <2>4, SparedAre DEF LeftAlone
    <3>2. sens'[p] = "Waiting" => Subscribed(p)'
      BY <1>6, <1>7, <2>1, <2>4 DEF ProcInv, Subscribed
    <3> QED
      BY <3>1, <3>2, SparedFixed DEF ProcInv
  <2> QED
    BY <2>2, <2>3, <2>4
<1>14. BodyInv'
  BY <1>8 DEF BodyInv
<1> QED
  BY <1>13, <1>14 DEF WaitsInv

LEMMA WaitsStep == Consistent /\ WaitsInv /\ [Next]_vars => WaitsInv'
<1> SUFFICES ASSUME Consistent, WaitsInv, [Next]_vars
             PROVE  WaitsInv'
  OBVIOUS
<1>1. TypeOK
  BY DEF Consistent, TimeInv
<1>2. CASE Release
  <2>1. Head(completed) \in Spawned \cup Once
    BY <1>1, <1>2, TailElements
    DEF Release, TypeOK, ProcessTypeOK, Consistent, LifeInv, CompletedInv
  <2> QED
    BY <1>1, <1>2, <2>1, WaitsDestroyed DEF Release, frameVars, Consistent
<1>3. ASSUME LeaveUntil, until # None
      PROVE  WaitsInv'
  <2>1. until.proc \in Spawned \cup Once
    BY <1>1, <1>3 DEF TypeOK, LoopTypeOK, Until
  <2> QED
    BY <1>1, <1>3, <2>1, WaitsDestroyed DEF LeaveUntil, frameVars, Consistent
<1>4. CASE Enter \/ EndEvaluation \/ EndRound \/ EvalReturn
  <2>1. /\ UNCHANGED <<awaiting, deadline, sens, wake, scheduled, cause, time, dynSubs, timeQ, life, current>>
        /\ pc' # "body"
    BY <1>1, <1>4 DEF Enter, EndEvaluation, EndRound, EvalReturn, stackVars, subVars, frameVars,
                      TypeOK, LoopTypeOK
  <2> QED
    BY <2>1, WaitsUnchanged
<1>5. CASE RunReturn \/ UntilTest \/ Unwind
  <2>1. \/ LeaveUntil /\ until # None
        \/ /\ UNCHANGED <<awaiting, deadline, sens, wake, scheduled, cause, time, dynSubs, timeQ, life, current>>
           /\ pc' # "body"
    BY <1>5 DEF RunReturn, UntilTest, UntilRun, Unwind, stackVars, subVars, frameVars,
                Consistent, TimeInv, ControlInv
  <2> QED
    BY <1>3, <2>1, WaitsUnchanged
<1>6. CASE KernelStep
  BY <1>2, <1>4, <1>5, <1>6, WaitsResume, WaitsTrigger, WaitsAdvance DEF KernelStep
<1>7. CASE BenchCall
  <2>1. ASSUME NEW p \in Once, NEW timeout \in Delays \cup {0}, RunUntil(p, timeout)
        PROVE  WaitsInv'
    BY <1>1, <2>1, WaitsCreated DEF RunUntil, subVars, frameVars, Consistent
  <2>2. ASSUME NEW inc \in RunTimes, Run(inc)
        PROVE  WaitsInv'
    BY <2>2, WaitsUnchanged DEF Run, stackVars, subVars, frameVars
  <2> QED
    BY <1>7, <2>1, <2>2 DEF BenchCall
<1>8. CASE Rest \/ UNCHANGED vars
  BY <1>8, WaitsUnchanged DEF Rest, vars, stackVars, subVars, frameVars
<1> QED
  BY <1>6, <1>7, <1>8, WaitsDesignCall, WaitsProcessStep DEF Next

LEMMA WaitsCorrect == Spec => [](Consistent /\ WaitsInv)
<1>1. Consistent /\ WaitsInv /\ [Next]_vars => WaitsInv'
  BY WaitsStep
<1>2. TimeInv /\ FlagsMatchStack /\ SubscriptionsMirrored /\ LifeInv <=> Consistent
  BY DEF Consistent
<1>3. Spec => []LifeInv
  BY LifeInit, LifeStep, TimeCorrect, FlagsCorrect, MirroredCorrect, PTL DEF Spec
<1>4. Spec => []Consistent
  BY <1>2, <1>3, TimeCorrect, FlagsCorrect, MirroredCorrect, PTL
<1> QED
  BY <1>1, <1>4, WaitsInit, PTL DEF Spec

\* Nobody intervenes in this way, or those they intervene with do not wait.
LEMMA AllSpared ==
  ASSUME NEW interventions, Calls \cap interventions = {} \/ Coro \cap Registered = {}
  PROVE  Spared(interventions) = Coro
BY DEF Spared

(***************************************************************************)
(* A wait can always end: what it waits for can still resume it, unless    *)
(* initialize(false) or disable() takes it off the stack that was about to *)
(* be resumed.  initialize(true) does not matter: what is left of the wait *)
(* that it ends does no harm to the next one.                              *)
(***************************************************************************)
THEOREM WaitsAreArmed ==
  ASSUME Calls \cap Dropping = {} \/ Coro \cap Registered = {}
  PROVE  Spec => []WaitIsArmed
<1>1. Consistent /\ WaitsInv => WaitIsArmed
  <2> SUFFICES ASSUME Consistent, WaitsInv, NEW p \in Coro, ~Queued(p), life[p] = "live"
               PROVE  /\ awaiting[p] = "event" => Subscribed(p)
                      /\ awaiting[p] = "timed" =>
                           /\ Subscribed(p)
                           /\ [at |-> deadline[p], proc |-> p, tag |-> wake[p]] \in timeQ
                      /\ awaiting[p] = "time" => (dynSubs[NextDelta][p] > 0 \/ HasTimeEvent(p))
    BY DEF WaitIsArmed, Suspended
  <2>1. Armed(p) /\ ~scheduled[p]
    BY AllSpared, ProcAssumption DEF WaitsInv, ProcInv, Consistent, FlagsMatchStack
  <2>2. Pending(p) # {} => HasTimeEvent(p)
    BY DEF Pending, HasTimeEvent
  <2>3. \A t \in Pending(p) : t \in timeQ
    BY DEF Pending
  <2> QED
    BY <2>1, <2>2, <2>3 DEF Armed
<1> QED
  BY <1>1, WaitsCorrect, PTL

(***************************************************************************)
(* A wait ends for one reason, which is what the coroutine waits for.      *)
(***************************************************************************)
THEOREM WaitsEndForTheirReason ==
  ASSUME Calls \cap Interventions = {} \/ Coro \cap Registered = {}
  PROVE  Spec => []ResumedForItsReason
<1>1. Consistent /\ WaitsInv => ResumedForItsReason
  <2> SUFFICES ASSUME Consistent, WaitsInv, NEW p \in Coro, Queued(p), life[p] = "live"
               PROVE  /\ awaiting[p] = "static" => cause[p] = "static"
                      /\ awaiting[p] = "event" => cause[p] = "event"
                      /\ awaiting[p] = "time" => cause[p] \in {"time", "event"}
                      /\ awaiting[p] = "timed" => cause[p] \in {"time", "event"}
                      /\ awaiting[p] \in {"event", "time", "timed"} => ~Subscribed(p)
    BY DEF ResumedForItsReason, Suspended
  <2>1. WokenInv(p) /\ scheduled[p]
    BY AllSpared, ProcAssumption DEF LeftAlone, WaitsInv, ProcInv, WaitInv, Consistent, FlagsMatchStack
  <2> QED
    BY <2>1 DEF WokenInv, Rested, Waits
<1> QED
  BY <1>1, WaitsCorrect, PTL

(***************************************************************************)
(* wait(event, timeout) reports a timeout if and only if it was one, also  *)
(* when the event occurs at the deadline.                                  *)
(***************************************************************************)
THEOREM VerdictsAreRight ==
  ASSUME Calls \cap Interventions = {} \/ Coro \cap Registered = {}
  PROVE  Spec => []TimeoutVerdict
<1>1. Consistent /\ WaitsInv => TimeoutVerdict
  <2> SUFFICES ASSUME Consistent, WaitsInv, NEW p \in Coro, Queued(p), life[p] = "live",
                      awaiting[p] = "timed"
               PROVE  TimedOut(p) <=> cause[p] = "time"
    BY DEF TimeoutVerdict, Suspended
  <2>1. WokenInv(p) /\ scheduled[p]
    BY AllSpared, ProcAssumption DEF LeftAlone, WaitsInv, ProcInv, WaitInv, Consistent, FlagsMatchStack
  <2> QED
    BY <2>1 DEF WokenInv, TimedOut
<1> QED
  BY <1>1, WaitsCorrect, PTL

(***************************************************************************)
(* The static sensitivity of a process is only paused while something is   *)
(* pending that ends the pause.  This holds for every process, before and  *)
(* after its first return, and also when it is disabled and enabled or     *)
(* taken off the stack.  The hypothesis: initialize(true) does not end the *)
(* wait of a coroutine before its time.                                    *)
(***************************************************************************)
THEOREM PausesEnd ==
  ASSUME Calls \cap Forcing = {} \/ Coro \cap Registered = {}
  PROVE  Spec => []PauseEnds
<1>1. Consistent /\ WaitsInv => PauseEnds
  <2> SUFFICES ASSUME Consistent, WaitsInv, NEW p \in Proc, life[p] = "live", sens[p] = "Waiting"
               PROVE  Subscribed(p) \/ HasTimeEvent(p)
    BY DEF PauseEnds
  <2>1. CASE p \notin Coro
    BY <2>1 DEF WaitsInv, ProcInv
  <2>2. CASE p \in Coro
    <3>1. Paused(p)
      BY <2>2, AllSpared DEF WaitsInv, ProcInv
    <3>2. Pending(p) # {} => HasTimeEvent(p)
      BY DEF Pending, HasTimeEvent
    <3> QED
      BY <3>1, <3>2 DEF Paused
  <2> QED
    BY <2>1, <2>2
<1> QED
  BY <1>1, WaitsCorrect, PTL
-----------------------------------------------------------------------------
(***************************************************************************)
(* Disabled processes.  A step may resume one or drop what it has, but     *)
(* gives it nothing that would schedule it for an event.                   *)
(***************************************************************************)
Deaf(p) ==
  /\ p \in Registered
  /\ ~Subscribed(p)
  /\ scheduled[p] => cause[p] = "initialize" \/ (cause[p] = "time" /\ p \notin Coro)
  /\ p \in Coro => \A t \in timeQ : t.proc # p

DeafInv == \A p \in Proc : sens[p] = "Disabled" => Deaf(p)

\* A step gives p nothing that it has to hear while it is disabled.
Unheard(p) ==
  sens'[p] = "Disabled" =>
    /\ sens[p] = "Disabled"
    /\ ~Subscribed(p) => ~Subscribed(p)'
    /\ scheduled'[p] => \/ scheduled[p] /\ cause'[p] = cause[p]
                        \/ cause'[p] = "initialize"
                        \/ cause'[p] = "time" /\ p \notin Coro
    /\ p \in Coro => \A t \in timeQ' : t \in timeQ \/ t.proc # p

LEMMA DeafKept ==
  ASSUME DeafInv, \A p \in Proc : Unheard(p)
  PROVE  DeafInv'
<1> SUFFICES ASSUME NEW p \in Proc, sens'[p] = "Disabled"
             PROVE  Deaf(p)'
  BY DEF DeafInv
<1>1. Deaf(p) /\ sens[p] = "Disabled"
  BY DEF DeafInv, Unheard
<1>2. p \in Registered'
  BY <1>1 DEF Deaf, Registered
<1> QED
  BY <1>1, <1>2 DEF Deaf, Unheard

\* The steps that change neither subscriptions, time events nor the evaluation stack.
LEMMA DeafUnchanged ==
  ASSUME UNCHANGED <<dynSubs, timeQ, scheduled, cause>>, \A p \in Proc : sens'[p] \in {sens[p], "Active"}
  PROVE  \A p \in Proc : Unheard(p)
BY DEF Unheard, Subscribed

LEMMA DeafRemoved ==
  ASSUME TypeOK, SubscriptionsMirrored, NEW p \in Proc, RemoveProcess(p), sens' = sens
  PROVE  \A q \in Proc : Unheard(q)
<1>1. \A q \in Proc : scheduled'[q] => scheduled[q] /\ cause'[q] = cause[q]
  BY DEF RemoveProcess, Erase, stackVars, TypeOK, StackTypeOK
<1>2. \A q \in Proc : ~Subscribed(q) => ~Subscribed(q)'
  BY UnscheduleElements DEF RemoveProcess, Subscribed
<1>3. timeQ' \subseteq timeQ
  BY DEF RemoveProcess, WithoutTimeEvents
<1> QED
  BY <1>1, <1>2, <1>3 DEF Unheard

\* What disable() leaves: nothing.
LEMMA DisableLeaves ==
  ASSUME TypeOK, FlagsMatchStack, SubscriptionsMirrored, TagInv, NEW p \in Registered, Disable(p)
  PROVE  ~Subscribed(p)' /\ ~scheduled'[p] /\ \A t \in timeQ' : t.proc # p
<1>0. p \in Proc
  BY DEF Registered
<1>1. \A e \in AllEvent : dynSubs'[e][p] = 0
  <2>1. \A e \in AllEvent : dynSubs'[e][p] = Monus(dynSubs[e][p], dynEvents[p][e])
    BY <1>0 DEF Disable, CancelDynamic
  <2>2. \A e \in AllEvent : dynSubs[e][p] = dynEvents[p][e] /\ dynSubs[e][p] \in Nat
    BY <1>0 DEF SubscriptionsMirrored, TypeOK, SubTypeOK
  <2> QED
    BY <2>1, <2>2 DEF Monus
<1>2. ~scheduled'[p]
  BY <1>0 DEF Disable, Erase, stackVars, FlagsMatchStack, Queued, TypeOK, StackTypeOK
<1>3. \A t \in timeQ' : t.proc # p
  BY DEF Disable, WithoutTimeEvents, TagInv
<1> QED
  BY <1>1, <1>2, <1>3 DEF Subscribed

\* Only a process that has just been created, which nobody can disable, is started.
LEMMA DeafPushed ==
  ASSUME TypeOK, DeafInv, NEW p \in Proc,
         Push(p, "initialize") \/ (Push(p, "start") /\ p \notin Registered),
         UNCHANGED <<dynSubs, timeQ, sens>>
  PROVE  DeafInv'
<1>1. \A q \in Proc \ {p} : scheduled'[q] = scheduled[q] /\ cause'[q] = cause[q]
  BY DEF Push, TypeOK, StackTypeOK
<1>2. Push(p, "initialize") => cause'[p] = "initialize" \/ (scheduled[p] /\ cause'[p] = cause[p])
  BY DEF Push, TypeOK, StackTypeOK
<1>3. p \notin Registered => sens[p] # "Disabled"
  BY DEF DeafInv, Deaf
<1>4. \A q \in Proc : Subscribed(q)' <=> Subscribed(q)
  BY DEF Subscribed
<1>5. \A q \in Proc : Unheard(q)
  BY <1>1, <1>2, <1>3, <1>4 DEF Unheard
<1> QED
  BY <1>5, DeafKept

LEMMA DeafDesignCall ==
  ASSUME Consistent, DeafInv, DesignCall
  PROVE  DeafInv'
<1>1. TypeOK /\ FlagsMatchStack /\ SubscriptionsMirrored /\ TagInv
  BY DEF Consistent, TimeInv, LifeInv
<1>2. ASSUME NEW p \in Proc, Push(p, "initialize") \/ (Push(p, "start") /\ p \notin Registered),
             UNCHANGED <<dynSubs, timeQ, sens>>
      PROVE  DeafInv'
  BY <1>1, <1>2, DeafPushed
<1>3. ASSUME NEW p \in Registered, InitializeTrue(p)
      PROVE  DeafInv'
  BY <1>2, <1>3 DEF InitializeTrue, subVars, Registered
<1>4. ASSUME NEW p \in Spawned, Spawn(p)
      PROVE  DeafInv'
  BY <1>2, <1>4, ProcAssumption DEF Spawn, subVars, Registered
<1>5. ASSUME NEW p \in Registered, InitializeFalse(p)
      PROVE  DeafInv'
  <2>1. UNCHANGED <<dynSubs, timeQ, sens>> /\ p \in Proc
    BY <1>5 DEF InitializeFalse, subVars, Registered
  <2>2. \A q \in Proc : scheduled'[q] => scheduled[q] /\ cause'[q] = cause[q]
    BY <1>1, <1>5, <2>1 DEF InitializeFalse, Erase, stackVars, TypeOK, StackTypeOK
  <2>3. \A q \in Proc : Unheard(q)
    BY <2>1, <2>2 DEF Unheard, Subscribed
  <2> QED
    BY <2>3, DeafKept
<1>6. ASSUME NEW p \in Registered, Disable(p)
      PROVE  DeafInv'
  <2>1. p \in Proc
    BY DEF Registered
  <2>2. Deaf(p)'
    BY <1>1, <1>6, DisableLeaves DEF Deaf, Registered
  <2>3. /\ \A q \in Proc \ {p} : sens'[q] = sens[q]
        /\ \A q \in Proc \ {p}, e \in AllEvent : dynSubs'[e][q] = dynSubs[e][q]
        /\ timeQ' \subseteq timeQ
    BY <1>1, <1>6 DEF Disable, CancelDynamic, WithoutTimeEvents, TypeOK, ProcessTypeOK
  <2>4. \A q \in Proc : scheduled'[q] => scheduled[q] /\ cause'[q] = cause[q]
    BY <1>1, <1>6, <2>1 DEF Disable, Erase, stackVars, TypeOK, StackTypeOK
  <2>5. ASSUME NEW q \in Proc, q # p, sens'[q] = "Disabled"
        PROVE  Deaf(q)'
    <3>1. Deaf(q) /\ q \in Registered'
      BY <2>3, <2>5 DEF DeafInv, Deaf, Registered
    <3>2. ~Subscribed(q)'
      BY <2>3, <2>5, <3>1 DEF Deaf, Subscribed
    <3> QED
      BY <2>3, <2>4, <3>1, <3>2 DEF Deaf
  <2> QED
    BY <2>2, <2>5 DEF DeafInv
<1>7. ASSUME \/ \E e \in Event : Notify(e)
             \/ \E s \in Signal : Write(s)
             \/ \E p \in Registered : Enable(p) \/ \E e \in Event \cup Signal : Always(p, e)
      PROVE  DeafInv'
  <2>1. UNCHANGED <<dynSubs, timeQ, scheduled, cause>>
    BY <1>7 DEF Notify, Write, Enable, Always, stackVars, subVars
  <2>2. \A p \in Proc : sens'[p] \in {sens[p], "Active"}
    BY <1>1, <1>7 DEF Notify, Write, Enable, Always, TypeOK, ProcessTypeOK
  <2> QED
    BY <2>1, <2>2, DeafUnchanged, DeafKept
<1> QED
  BY <1>3, <1>4, <1>5, <1>6, <1>7 DEF DesignCall

LEMMA DeafProcessStep ==
  ASSUME Consistent, DeafInv, ProcessStep
  PROVE  DeafInv'
<1>1. TypeOK /\ SubscriptionsMirrored
  BY DEF Consistent, TimeInv
<1>2. ASSUME NEW p \in Proc, UNCHANGED <<scheduled, cause>>,
             \A q \in Proc \ {p} : sens'[q] = sens[q] /\ (Subscribed(q)' <=> Subscribed(q)),
             \A t \in timeQ' : t \in timeQ \/ t.proc = p,
             sens'[p] = "Disabled" => /\ sens[p] = "Disabled"
                                      /\ ~Subscribed(p) => ~Subscribed(p)'
                                      /\ p \in Coro => timeQ' = timeQ
      PROVE  DeafInv'
  <2>1. \A q \in Proc : Unheard(q)
    BY <1>2 DEF Unheard
  <2> QED
    BY <2>1, DeafKept
<1>3. ASSUME NEW p \in Proc, NEW w \in [AllEvent -> Nat], AddDynamic(p, w)
      PROVE  /\ sens'[p] = "Waiting"
             /\ \A q \in Proc \ {p} : sens'[q] = sens[q] /\ (Subscribed(q)' <=> Subscribed(q))
  <2>1. \A q \in Proc \ {p}, e \in AllEvent : dynSubs'[e][q] = dynSubs[e][q]
    BY <1>1, <1>3 DEF AddDynamic, TypeOK, SubTypeOK
  <2>2. sens'[p] = "Waiting" /\ \A q \in Proc \ {p} : sens'[q] = sens[q]
    BY <1>1, <1>3 DEF AddDynamic, TypeOK, ProcessTypeOK
  <2> QED
    BY <2>1, <2>2 DEF Subscribed
<1>4. [NoEvents EXCEPT ![NextDelta] = 1] \in [AllEvent -> Nat]
  BY DEF NoEvents, AllEvent
<1>5. ASSUME NEW p \in Proc, AddNextDelta(p)
      PROVE  /\ sens'[p] = "Waiting"
             /\ \A q \in Proc \ {p} : sens'[q] = sens[q] /\ (Subscribed(q)' <=> Subscribed(q))
  <2> DEFINE once == [NoEvents EXCEPT ![NextDelta] = 1]
  <2>1. AddDynamic(p, once) /\ once \in [AllEvent -> Nat]
    BY <1>4, <1>5 DEF AddNextDelta
  <2> HIDE DEF once
  <2> QED
    BY <1>3, <2>1
<1>6. ASSUME NEW p \in Proc, NEW w \in WaitLists,
             \/ NextTriggerEvents(p, w)
             \/ WaitEvents(p, w)
             \/ \E d \in Delays \ {0} : WaitEventsTimeout(p, w, d)
      PROVE  DeafInv'
  <2>1. AddDynamic(p, w) /\ w \in [AllEvent -> Nat]
    BY <1>6, EventAssumption DEF NextTriggerEvents, WaitEvents, WaitEventsTimeout
  <2>2. CASE NextTriggerEvents(p, w) \/ WaitEvents(p, w)
    <3>1. UNCHANGED <<scheduled, cause, timeQ>>
      BY <2>2 DEF NextTriggerEvents, WaitEvents, Suspend, stackVars
    <3> QED
      BY <1>2, <1>3, <2>1, <3>1
  <2>3. ASSUME NEW d \in Delays \ {0}, WaitEventsTimeout(p, w, d)
        PROVE  DeafInv'
    <3>1. Suspend(p, "timed") /\ AddTimeWait(p, d)
      BY <2>3 DEF WaitEventsTimeout
    <3>2. UNCHANGED <<scheduled, cause>> /\ \A t \in timeQ' : t \in timeQ \/ t.proc = p
      BY <3>1 DEF AddTimeWait, Suspend, stackVars
    <3> QED
      BY <1>2, <1>3, <2>1, <3>2
  <2> QED
    BY <1>6, <2>2, <2>3
<1>7. ASSUME NEW p \in Proc, NEW d \in Delays, NextTriggerTime(p, d)
      PROVE  DeafInv'
  <2>1. UNCHANGED <<scheduled, cause>> /\ p \notin Coro /\ \A t \in timeQ' : t \in timeQ \/ t.proc = p
    BY <1>7 DEF NextTriggerTime, Runs, stackVars
  <2>2. CASE AddNextDelta(p)
    BY <1>2, <1>5, <2>1, <2>2
  <2>3. CASE UNCHANGED <<dynSubs, sens>>
    BY <1>2, <2>1, <2>3 DEF Subscribed
  <2> QED
    BY <1>7, <2>2, <2>3 DEF NextTriggerTime
<1>8. ASSUME NEW p \in Proc, NEW d \in Delays, WaitTime(p, d)
      PROVE  DeafInv'
  <2>1. UNCHANGED <<scheduled, cause>> /\ \A t \in timeQ' : t \in timeQ \/ t.proc = p
    BY <1>8 DEF WaitTime, AddTimeWait, Suspend, stackVars
  <2>2. CASE AddNextDelta(p)
    BY <1>2, <1>5, <2>1, <2>2
  <2>3. CASE dynSubs' = dynSubs /\ sens' = [sens EXCEPT ![p] = "Waiting"]
    <3>1. sens'[p] = "Waiting" /\ \A q \in Proc \ {p} : sens'[q] = sens[q]
      BY <1>1, <2>3 DEF TypeOK, ProcessTypeOK
    <3> QED
      BY <1>2, <2>1, <2>3, <3>1 DEF Subscribed
  <2> QED
    BY <1>8, <2>2, <2>3 DEF WaitTime
<1>9. ASSUME NEW p \in Proc, CoroReturn(p) \/ CoroThrow(p)
      PROVE  DeafInv'
  <2>1. UNCHANGED <<scheduled, cause, timeQ, sens>> /\ Unschedule(p)
    BY <1>9 DEF CoroReturn, CoroThrow, Complete, stackVars
  <2>2. \A q \in Proc : ~Subscribed(q) => ~Subscribed(q)'
    BY <1>1, <2>1, UnscheduleElements DEF Subscribed
  <2>3. \A q \in Proc : Unheard(q)
    BY <2>1, <2>2 DEF Unheard
  <2> QED
    BY <2>3, DeafKept
<1>10. ASSUME NEW p \in Proc, MethodReturn(p) \/ MethodThrow(p) \/ WaitStatic(p)
       PROVE  DeafInv'
  <2>1. UNCHANGED <<dynSubs, timeQ, scheduled, cause, sens>>
    BY <1>10 DEF MethodReturn, MethodThrow, WaitStatic, Suspend, stackVars, subVars
  <2> QED
    BY <2>1, DeafUnchanged, DeafKept
<1> QED
  BY <1>6, <1>7, <1>8, <1>9, <1>10 DEF ProcessStep

LEMMA DeafResume ==
  ASSUME Consistent, DeafInv, NEW p \in Proc, Resume(p)
  PROVE  DeafInv'
<1>1. \A q \in Proc : scheduled'[q] => scheduled[q] /\ cause'[q] = cause[q]
  BY DEF Resume, Consistent, TimeInv, TypeOK, StackTypeOK
<1>2. UNCHANGED <<dynSubs, timeQ, sens>>
  BY DEF Resume, subVars
<1>3. \A q \in Proc : Unheard(q)
  BY <1>1, <1>2 DEF Unheard, Subscribed
<1> QED
  BY <1>3, DeafKept

\* An event schedules the processes whose sensitivity is active, and those that it ends
\* the pause of.
LEMMA DeafTrigger ==
  ASSUME Consistent, DeafInv, NEW e \in AllEvent, Trigger(e)
  PROVE  DeafInv'
<1>1. TypeOK
  BY DEF Consistent, TimeInv
<1> DEFINE wakes   == StaticWoken(e)
           waiters == {p \in Proc : dynSubs[e][p] > 0}
<1>2. \A p \in Proc : scheduled'[p] <=> scheduled[p] \/ p \in wakes \/ p \in waiters
  BY DEF Trigger, PushBoth
<1>3. \A p \in Proc : p \notin wakes /\ p \notin waiters => cause'[p] = cause[p]
  BY DEF Trigger, PushBoth
<1>4. \A p \in Proc : sens'[p] = IF p \in waiters THEN "Active" ELSE sens[p]
  BY DEF Trigger, Restore
<1>5. \A p \in Proc, f \in AllEvent : p \notin waiters => dynSubs'[f][p] = dynSubs[f][p]
  BY DEF Trigger
<1>6. \A p \in Proc : p \in wakes => sens[p] = "Active"
  BY DEF StaticWoken
<1>7. timeQ' = timeQ
  BY DEF Trigger
<1> HIDE DEF wakes, waiters
<1>8. ASSUME NEW p \in Proc, sens'[p] = "Disabled"
      PROVE  /\ sens[p] = "Disabled"
             /\ ~Subscribed(p) => ~Subscribed(p)'
             /\ scheduled'[p] => scheduled[p] /\ cause'[p] = cause[p]
  <2>1. sens[p] = "Disabled" /\ p \notin waiters /\ p \notin wakes
    BY <1>4, <1>6, <1>8
  <2> QED
    BY <1>2, <1>3, <1>5, <2>1 DEF Subscribed
<1>9. \A p \in Proc : Unheard(p)
  BY <1>7, <1>8 DEF Unheard
<1> QED
  BY <1>9, DeafKept

\* A time event that is due ends the pause, or is an extra wakeup of a method process.
LEMMA DeafAdvance == Consistent /\ DeafInv /\ Advance => DeafInv'
<1> SUFFICES ASSUME Consistent, DeafInv, Advance
             PROVE  DeafInv'
  OBVIOUS
<1> DEFINE due   == {t \in timeQ : t.at = time + NextStep}
           extra == {t.proc : t \in {u \in due : u.tag = Sticky}}
           woken == {t.proc : t \in {u \in due : u.tag = wake[u.proc]}}
<1>1. \A p \in Proc : scheduled'[p] <=> scheduled[p] \/ p \in extra \/ p \in woken
  BY DEF Advance, PushBoth
<1>2. \A p \in Proc : cause'[p] = IF (p \in extra \/ p \in woken) /\ ~scheduled[p]
                                  THEN "time" ELSE cause[p]
  BY DEF Advance, PushBoth
<1>3. \A p \in Coro : p \notin extra
  BY DEF Consistent, LifeInv, TagInv
<1>4. \A p \in Proc : sens'[p] = IF p \in woken THEN "Active" ELSE sens[p]
  BY DEF Advance, Restore
<1>5. \A p \in Proc, f \in AllEvent : p \notin woken => dynSubs'[f][p] = dynSubs[f][p]
  BY DEF Advance, CancelDynamic
<1>6. timeQ' \subseteq timeQ
  BY DEF Advance
<1> HIDE DEF extra, woken
<1>7. ASSUME NEW p \in Proc, sens'[p] = "Disabled"
      PROVE  /\ sens[p] = "Disabled"
             /\ ~Subscribed(p) => ~Subscribed(p)'
             /\ scheduled'[p] => \/ scheduled[p] /\ cause'[p] = cause[p]
                                 \/ cause'[p] = "time" /\ p \notin Coro
  <2>1. sens[p] = "Disabled" /\ p \notin woken
    BY <1>4, <1>7
  <2> QED
    BY <1>1, <1>2, <1>3, <1>5, <2>1 DEF Subscribed
<1>8. \A p \in Proc : Unheard(p)
  BY <1>6, <1>7 DEF Unheard
<1> QED
  BY <1>8, DeafKept

LEMMA DeafStep == Consistent /\ DeafInv /\ [Next]_vars => DeafInv'
<1> SUFFICES ASSUME Consistent, DeafInv, [Next]_vars
             PROVE  DeafInv'
  OBVIOUS
<1>1. TypeOK /\ SubscriptionsMirrored
  BY DEF Consistent, TimeInv
<1>2. ASSUME NEW p \in Proc, RemoveProcess(p), sens' = sens
      PROVE  DeafInv'
  BY <1>1, <1>2, DeafRemoved, DeafKept
<1>3. ASSUME UNCHANGED <<dynSubs, timeQ, scheduled, cause, sens>>
      PROVE  DeafInv'
  BY <1>3, DeafUnchanged, DeafKept
<1>4. CASE Release
  <2>1. Head(completed) \in Proc
    BY <1>1, <1>4, TailElements, ProcAssumption
    DEF Release, TypeOK, ProcessTypeOK, Consistent, LifeInv, CompletedInv
  <2> QED
    BY <1>2, <1>4, <2>1 DEF Release
<1>5. ASSUME LeaveUntil, until # None
      PROVE  DeafInv'
  <2>1. until.proc \in Proc
    BY <1>1, <1>5, ProcAssumption DEF TypeOK, LoopTypeOK, Until
  <2> QED
    BY <1>2, <1>5, <2>1 DEF LeaveUntil
<1>6. CASE Enter \/ EndEvaluation \/ EndRound \/ EvalReturn
  BY <1>3, <1>6 DEF Enter, EndEvaluation, EndRound, EvalReturn, stackVars, subVars
<1>7. CASE RunReturn \/ UntilTest \/ Unwind
  <2>1. \/ LeaveUntil /\ until # None
        \/ UNCHANGED <<dynSubs, timeQ, scheduled, cause, sens>>
    BY <1>7 DEF RunReturn, UntilTest, UntilRun, Unwind, stackVars, subVars,
                Consistent, TimeInv, ControlInv
  <2> QED
    BY <1>3, <1>5, <2>1
<1>8. CASE KernelStep
  BY <1>4, <1>6, <1>7, <1>8, DeafResume, DeafTrigger, DeafAdvance DEF KernelStep
<1>9. CASE BenchCall
  <2>1. ASSUME NEW p \in Once, NEW timeout \in Delays \cup {0}, RunUntil(p, timeout)
        PROVE  DeafInv'
    BY <1>1, <2>1, DeafPushed, ProcAssumption DEF RunUntil, subVars, Registered
  <2>2. ASSUME NEW inc \in RunTimes, Run(inc)
        PROVE  DeafInv'
    BY <1>3, <2>2 DEF Run, stackVars, subVars
  <2> QED
    BY <1>9, <2>1, <2>2 DEF BenchCall
<1>10. CASE Rest \/ UNCHANGED vars
  BY <1>3, <1>10 DEF Rest, vars, stackVars, subVars
<1> QED
  BY <1>8, <1>9, <1>10, DeafDesignCall, DeafProcessStep DEF Next

\* Only disable() disables.
LEMMA DisablingSteps ==
  ASSUME Consistent, [Next]_vars, NEW p \in Proc, sens[p] # "Disabled", sens'[p] = "Disabled"
  PROVE  p \in Registered /\ Disable(p)
<1>1. TypeOK
  BY DEF Consistent, TimeInv
<1>2. CASE DesignCall
  BY <1>1, <1>2 DEF DesignCall, Notify, Write, InitializeTrue, InitializeFalse, Disable, Enable,
                    Always, Spawn, TypeOK, ProcessTypeOK
<1>3. CASE ProcessStep
  <2>1. ASSUME NEW q \in Proc, NEW w, AddDynamic(q, w)
        PROVE  FALSE
    BY <1>1, <2>1 DEF AddDynamic, TypeOK, ProcessTypeOK
  <2>2. ASSUME NEW q \in Proc, NEW w \in WaitLists, NEW d \in Delays, WaitEventsTimeout(q, w, d)
        PROVE  FALSE
    BY <2>1, <2>2 DEF WaitEventsTimeout
  <2>3. ASSUME NEW q \in Proc, NEW w \in WaitLists, NextTriggerEvents(q, w) \/ WaitEvents(q, w)
        PROVE  FALSE
    BY <2>1, <2>3 DEF NextTriggerEvents, WaitEvents
  <2>4. ASSUME NEW q \in Proc, NEW d \in Delays, NextTriggerTime(q, d)
        PROVE  FALSE
    BY <2>1, <2>4 DEF NextTriggerTime, AddNextDelta
  <2>5. ASSUME NEW q \in Proc, NEW d \in Delays, WaitTime(q, d)
        PROVE  FALSE
    BY <1>1, <2>1, <2>5 DEF WaitTime, AddNextDelta, TypeOK, ProcessTypeOK
  <2>6. ASSUME NEW q \in Proc,
               WaitStatic(q) \/ MethodReturn(q) \/ MethodThrow(q) \/ CoroReturn(q) \/ CoroThrow(q)
        PROVE  FALSE
    BY <2>6 DEF WaitStatic, MethodReturn, MethodThrow, CoroReturn, CoroThrow, subVars
  <2> QED
    BY <1>3, <2>2, <2>3, <2>4, <2>5, <2>6 DEF ProcessStep
<1>4. CASE KernelStep
  BY <1>4 DEF KernelStep, Enter, Resume, EndEvaluation, Trigger, EndRound, Release, EvalReturn,
              Advance, RunReturn, UntilTest, UntilRun, Unwind, LeaveUntil, Restore
<1>5. CASE BenchCall \/ Rest \/ UNCHANGED vars
  BY <1>5 DEF BenchCall, Run, RunUntil, Rest, vars
<1> QED
  BY <1>2, <1>3, <1>4, <1>5 DEF Next

(***************************************************************************)
(* disable() leaves a process with nothing pending, and no event schedules *)
(* it from then on: it is deaf to its sensitivity list, and has no         *)
(* subscription left.  This holds for coroutines and for method processes, *)
(* whoever disables them and whatever else is called.                      *)
(***************************************************************************)
THEOREM DisabledStaysDeaf == Spec => DisabledIsDeaf
<1> DEFINE Silent == \A p \in Proc : sens[p] = "Disabled" =>
                       /\ ~Subscribed(p)
                       /\ Queued(p) => cause[p] = "initialize" \/ (cause[p] = "time" /\ p \notin Coro)
                       /\ p \in Coro => \A t \in timeQ : t.proc # p
           Leaves == \A p \in Proc : sens[p] # "Disabled" /\ sens'[p] = "Disabled" =>
                       ~Queued(p)' /\ \A t \in timeQ' : t.proc # p
<1>1. Init => DeafInv
  BY DEF Init, DeafInv
<1>2. Spec => [](Consistent /\ DeafInv)
  <2>1. Spec => []Consistent
    BY WaitsCorrect, PTL
  <2> QED
    BY <1>1, <2>1, DeafStep, PTL DEF Spec
<1>3. Consistent /\ DeafInv => Silent
  BY DEF Consistent, FlagsMatchStack, DeafInv, Deaf
<1>4. Consistent /\ Consistent' /\ [Next]_vars => [Leaves]_vars
  <2> SUFFICES ASSUME Consistent, Consistent', [Next]_vars, NEW p \in Proc,
                      sens[p] # "Disabled", sens'[p] = "Disabled"
               PROVE  ~Queued(p)' /\ \A t \in timeQ' : t.proc # p
    OBVIOUS
  <2>1. p \in Registered /\ Disable(p)
    BY DisablingSteps
  <2>2. ~scheduled'[p] /\ \A t \in timeQ' : t.proc # p
    BY <2>1, DisableLeaves DEF Consistent, TimeInv, LifeInv
  <2> QED
    BY <2>2 DEF Consistent, FlagsMatchStack
<1> QED
  BY <1>2, <1>3, <1>4, PTL DEF Spec, DisabledIsDeaf
=============================================================================
