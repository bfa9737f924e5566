---------------------------- MODULE SignalsProofs ----------------------------
(***************************************************************************)
(* The update phase commits every write and appears as one step: proved    *)
(* for every set of signals, every selection and every set of channels.    *)
(***************************************************************************)
EXTENDS Signals, SequencesExt, FiniteSetTheorems, SequenceTheorems, TLAPS

-----------------------------------------------------------------------------
(***************************************************************************)
(* Sequences without repetitions.                                          *)
(***************************************************************************)

\* No element occurs twice.
Distinct(s) == \A i, j \in DOMAIN s : s[i] = s[j] => i = j

(***************************************************************************)
(* An order of a finite set is a sequence that has each of its elements    *)
(* once.                                                                   *)
(***************************************************************************)
LEMMA SetToSeqsElements ==
  ASSUME NEW S, IsFiniteSet(S), NEW s \in SetToSeqs(S)
  PROVE  /\ s \in Seq(S)
         /\ Distinct(s)
         /\ Range(s) = S
<1> DEFINE D == 1..Cardinality(S)
<1>1. Cardinality(S) \in Nat
  BY FS_CardinalityType
<1>2. s \in [D -> S] /\ \A i, j \in D : i # j => s[i] # s[j]
  BY DEF SetToSeqs
<1>3. s \in Seq(S) /\ Len(s) = Cardinality(S) /\ DOMAIN s = D
  BY <1>1, <1>2, SeqDef
<1>4. Distinct(s)
  BY <1>2, <1>3 DEF Distinct
<1>5. s \in Injection(D, S)
  BY <1>2 DEF Injection, IsInjective
<1>6. IsFiniteSet(D) /\ Cardinality(D) = Cardinality(S)
  BY <1>1, FS_Interval
<1>7. s \in Surjection(D, S)
  BY <1>5, <1>6, FS_Injection
<1>8. Range(s) = S
  BY <1>2, <1>7 DEF Surjection, Range
<1> QED
  BY <1>3, <1>4, <1>8

\* Two sequences with nothing in common, one after the other.
LEMMA ConcatElements ==
  ASSUME NEW S, NEW s \in Seq(S), NEW t \in Seq(S), Distinct(s), Distinct(t),
         Range(s) \cap Range(t) = {}
  PROVE  /\ Distinct(s \o t)
         /\ Range(s \o t) = Range(s) \cup Range(t)
<1>0. Range(s \o t) = Range(s) \cup Range(t)
  BY RangeConcatenation
<1>1. /\ Len(s) \in Nat /\ DOMAIN s = 1..Len(s)
      /\ Len(t) \in Nat /\ DOMAIN t = 1..Len(t)
      /\ s \o t \in Seq(S)
      /\ DOMAIN (s \o t) = 1..(Len(s) + Len(t))
  BY ConcatProperties, LenProperties
<1>2. \A i \in 1..(Len(s) + Len(t)) :
        (s \o t)[i] = IF i <= Len(s) THEN s[i] ELSE t[i - Len(s)]
  BY ConcatProperties
<1>3. SUFFICES Distinct(s \o t)
  BY <1>0
<1> SUFFICES ASSUME NEW i \in 1..(Len(s) + Len(t)), NEW j \in 1..(Len(s) + Len(t)),
                      (s \o t)[i] = (s \o t)[j]
               PROVE  i = j
  BY <1>1 DEF Distinct
<1>4. CASE i <= Len(s) /\ j <= Len(s)
  BY <1>1, <1>2, <1>3, <1>4 DEF Distinct
<1>5. CASE i > Len(s) /\ j > Len(s)
  <2>1. t[i - Len(s)] = t[j - Len(s)] /\ i - Len(s) \in DOMAIN t /\ j - Len(s) \in DOMAIN t
    BY <1>1, <1>2, <1>3, <1>5
  <2>2. i - Len(s) = j - Len(s)
    BY <2>1 DEF Distinct
  <2> QED
    BY <1>1, <2>2
<1>6. CASE i <= Len(s) /\ j > Len(s)
  <2>1. s[i] = t[j - Len(s)] /\ i \in DOMAIN s /\ j - Len(s) \in DOMAIN t
    BY <1>1, <1>2, <1>3, <1>6
  <2> QED
    BY <2>1 DEF Range
<1>7. CASE i > Len(s) /\ j <= Len(s)
  <2>1. s[j] = t[i - Len(s)] /\ j \in DOMAIN s /\ i - Len(s) \in DOMAIN t
    BY <1>1, <1>2, <1>3, <1>7
  <2> QED
    BY <2>1 DEF Range
<1> QED
  BY <1>1, <1>4, <1>5, <1>6, <1>7

-----------------------------------------------------------------------------
\* A derived signal that differs from its selection is about to be recomputed.
StaleScheduled == \A s \in Derived : q[s] # View(s, q) => s \in Range(postStack)

\* So is a channel that something was put into.
PutScheduled == \A c \in Channel : mail[c] # slot[c] => c \in Range(postStack)

\* The derived signals are on the stack in the update phase only, above the channels.
DerivedOnTop ==
  /\ phase # "update" => Range(postStack) \subseteq Channel
  /\ \A i, j \in DOMAIN postStack : i < j /\ postStack[j] \in Channel => postStack[i] \in Channel

\* What is yet to be committed shows the value from before the update phase.
Uncommitted ==
  phase = "update" =>
    /\ \A s \in updateStack : q[s] = before.values[s]
    /\ \A s \in Derived : updateStack # {} \/ s \in Range(postStack) => q[s] = before.values[s]

\* The events of all signals that change from the values w to the values u.
Changes(w, u) == UNION {Events(a, w[a], u[a]) : a \in Signal}

\* The events raised so far are those of the signals and channels committed so far.
EventsSoFar ==
  phase = "update" =>
    /\ before.asked \subseteq Channel
    /\ Range(postStack) \cap Channel \subseteq before.asked
    /\ eventStack = before.events
                      \cup {<<c, "written">> : c \in before.asked \ Range(postStack)}
                      \cup Changes(before.values, q)

SigInv ==
  /\ TypeOK
  /\ PendingScheduled
  /\ StaleScheduled
  /\ PutScheduled
  /\ DerivedOnTop
  /\ Uncommitted
  /\ EventsSoFar
-----------------------------------------------------------------------------
(***************************************************************************)
(* Views and events.                                                       *)
(***************************************************************************)
LEMMA PartsAreSources == \A s \in Derived : Parts(s) \subseteq Source
<1> TAKE s \in Derived
<1>1. ASSUME NEW i \in DOMAIN Select[s]
      PROVE  Select[s][i][1] \in Source
  <2>1. Select[s] \in Seq(Source \X Bit)
    BY SelectAssumption
  <2>2. Select[s][i] \in Source \X Bit
    BY <2>1, ElementOfSeq
  <2> QED
    BY <2>2
<1> QED
  BY <1>1 DEF Parts

\* A view depends only on the values of its parts.
LEMMA ViewOfParts ==
  ASSUME NEW s \in Derived, NEW u, NEW v, \A a \in Parts(s) : u[a] = v[a]
  PROVE  View(s, u) = View(s, v)
<1>1. \A i \in DOMAIN Select[s] : u[Select[s][i][1]] = v[Select[s][i][1]]
  BY DEF Parts
<1> QED
  BY <1>1 DEF View

LEMMA ViewType == \A s \in Derived : \A v : View(s, v) \in Value(s)
  BY SelectAssumption DEF View, Value

LEMMA OverlayType ==
  ASSUME NEW s \in Derived, NEW x, NEW v
  PROVE  /\ DOMAIN Overlay(s, x, v) = Source
         /\ \A a \in Source : Overlay(s, x, v)[a] \in SUBSET Bit
  BY DEF Overlay

\* Only the parts of a view change when it is written to.
LEMMA OverlayElsewhere ==
  ASSUME NEW s \in Derived, NEW x, NEW v, NEW a \in Source, a \notin Parts(s), v[a] \in SUBSET Bit
  PROVE  Overlay(s, x, v)[a] = v[a]
<1>1. \A b \in Bit : {i \in DOMAIN Select[s] : Select[s][i] = <<a, b>>} = {}
  BY DEF Parts
<1> QED
  BY <1>1 DEF Overlay

LEMMA NoEventsOfSame == \A s, x : Events(s, x, x) = {}
  BY DEF Events

LEMMA EventsType ==
  ASSUME NEW s \in Signal, NEW x, NEW y
  PROVE  Events(s, x, y) \subseteq (Signal \cup Channel) \X {"change", "pos", "neg", "written"}
  BY DEF Events
-----------------------------------------------------------------------------
(***************************************************************************)
(* The stack of derived signals and channels.                              *)
(***************************************************************************)
StackOK == postStack \in Seq(Derived \cup Channel) /\ Distinct(postStack)

LEMMA PushPostStack ==
  ASSUME StackOK, NEW us \in SUBSET (Derived \cup Channel), PushPost(us)
  PROVE  /\ StackOK'
         /\ Range(postStack') = Range(postStack) \cup us
         /\ \A i \in DOMAIN postStack' :
              IF i \in DOMAIN postStack THEN postStack'[i] = postStack[i]
              ELSE postStack'[i] \in us
<1> DEFINE T == Derived \cup Channel
           new == us \ Range(postStack)
<1>1. IsFiniteSet(new)
  BY ChannelAssumption, FS_Union, FS_Subset
<1>2. PICK added \in SetToSeqs(new) : postStack' = postStack \o added
  BY DEF PushPost
<1>3. added \in Seq(new) /\ Distinct(added) /\ Range(added) = new
  BY <1>1, SetToSeqsElements
<1>4. added \in Seq(T) /\ postStack \in Seq(T)
  BY <1>3, SeqMonotonic DEF StackOK
<1> HIDE DEF T, new
<1>5. Range(postStack) \cap Range(added) = {}
  BY <1>3 DEF new
<1>6. Distinct(postStack \o added) /\ Range(postStack \o added) = Range(postStack) \cup new
  BY <1>3, <1>4, <1>5, ConcatElements DEF StackOK
<1>7. /\ postStack \o added \in Seq(T)
      /\ DOMAIN (postStack \o added) = 1..(Len(postStack) + Len(added))
      /\ \A i \in 1..(Len(postStack) + Len(added)) :
           (postStack \o added)[i] = IF i <= Len(postStack) THEN postStack[i]
                                     ELSE added[i - Len(postStack)]
      /\ Len(postStack) \in Nat /\ DOMAIN postStack = 1..Len(postStack)
      /\ Len(added) \in Nat /\ DOMAIN added = 1..Len(added)
  BY <1>4, ConcatProperties, LenProperties
<1>8. ASSUME NEW i \in DOMAIN postStack', i \notin DOMAIN postStack
      PROVE  postStack'[i] \in us
  <2>1. i - Len(postStack) \in DOMAIN added /\ postStack'[i] = added[i - Len(postStack)]
    BY <1>2, <1>7, <1>8
  <2>2. added[i - Len(postStack)] \in Range(added)
    BY <2>1 DEF Range
  <2> QED
    BY <1>3, <2>1, <2>2 DEF new
<1>9. \A i \in DOMAIN postStack' : i \in DOMAIN postStack => postStack'[i] = postStack[i]
  BY <1>2, <1>7
<1> QED
  BY <1>2, <1>6, <1>7, <1>8, <1>9 DEF StackOK, T, new

LEMMA PoppedStack ==
  ASSUME StackOK, postStack # <<>>, NEW u, Popped(u)
  PROVE  /\ StackOK'
         /\ u \in Range(postStack)
         /\ Range(postStack') = Range(postStack) \ {u}
         /\ \A i \in DOMAIN postStack' : i \in DOMAIN postStack /\ postStack'[i] = postStack[i]
         /\ \A i \in DOMAIN postStack : postStack[i] # u => i \in DOMAIN postStack'
         /\ Len(postStack) \in DOMAIN postStack /\ u = postStack[Len(postStack)]
<1> DEFINE n == Len(postStack)
           r == SubSeq(postStack, 1, n - 1)
<1>1. n \in Nat /\ n >= 1 /\ DOMAIN postStack = 1..n
  BY EmptySeq, LenProperties DEF StackOK
<1>2. /\ r \in Seq(Derived \cup Channel)
      /\ Len(r) = n - 1
      /\ \A i \in 1..(n - 1) : r[i] = postStack[i]
  BY <1>1, SubSeqProperties DEF StackOK
<1>3. DOMAIN r = 1..(n - 1)
  BY <1>1, <1>2, LenProperties
<1>4. u = postStack[n] /\ postStack' = r
  BY DEF Popped
<1>5. \A i \in 1..(n - 1) : postStack[i] # u
  BY <1>1, <1>4 DEF StackOK, Distinct
<1> HIDE DEF n, r
<1>6. Distinct(r)
  BY <1>1, <1>2, <1>3 DEF StackOK, Distinct
<1>7. Range(r) = Range(postStack) \ {u}
  BY <1>1, <1>2, <1>3, <1>4, <1>5 DEF Range
<1>8. \A i \in DOMAIN postStack : postStack[i] # u => i \in 1..(n - 1)
  BY <1>1, <1>4
<1>9. StackOK'
  BY <1>2, <1>4, <1>6 DEF StackOK
<1>10. n \in DOMAIN postStack /\ u \in Range(postStack)
  BY <1>1, <1>4 DEF Range
<1>11. \A i \in DOMAIN postStack' : i \in DOMAIN postStack /\ postStack'[i] = postStack[i]
  BY <1>1, <1>2, <1>3, <1>4
<1> QED
  BY <1>3, <1>4, <1>7, <1>8, <1>9, <1>10, <1>11 DEF n
-----------------------------------------------------------------------------
(***************************************************************************)
(* Facts about the states that SigInv describes.                           *)
(***************************************************************************)
LEMMA InvStackOK == TypeOK => StackOK
BY DEF TypeOK, StackOK, Distinct

LEMMA StackKept == StackOK /\ UNCHANGED postStack => StackOK'
BY DEF StackOK, Distinct

LEMMA ViewIsNat == \A s \in Derived : \A v : View(s, v) \in SUBSET Nat
<1> TAKE s \in Derived
<1>1. Select[s] \in Seq(Source \X Bit)
  BY SelectAssumption
<1>2. DOMAIN Select[s] = 1..Len(Select[s])
  BY <1>1, LenProperties
<1> QED
  BY <1>2 DEF View

LEMMA BitIsNat == Bit \subseteq Nat
BY SelectAssumption DEF Bit

\* Views depend on the sources only.
LEMMA SameViews ==
  ASSUME NEW u, NEW v, \A a \in Source : u[a] = v[a]
  PROVE  \A s \in Derived : View(s, u) = View(s, v)
<1> TAKE s \in Derived
<1> QED
  BY PartsAreSources, ViewOfParts

\* When one value changes, so do the events of one signal.
LEMMA EventsOfOne ==
  ASSUME NEW w, NEW u, NEW v, NEW s \in Signal, u[s] = w[s],
         \A a \in Signal : a # s => v[a] = u[a]
  PROVE  Changes(w, v) = Changes(w, u) \cup Events(s, u[s], v[s])
<1>1. Events(s, w[s], u[s]) = {}
  BY NoEventsOfSame
<1> DEFINE L(a) == Events(a, w[a], u[a])
           M(a) == Events(a, w[a], v[a])
<1>2. L(s) = {} /\ M(s) = Events(s, u[s], v[s])
  BY <1>1
<1>3. \A a \in Signal : a # s => M(a) = L(a)
  OBVIOUS
<1> HIDE DEF L, M
<1>4. UNION {M(a) : a \in Signal} = (UNION {L(a) : a \in Signal}) \cup M(s)
  BY <1>2, <1>3
<1> QED
  BY <1>2, <1>4 DEF L, M, Changes

\* Outside the update phase, every derived signal is up to date.
LEMMA ConsistentOutside == SigInv => DerivedConsistent
<1>1. \A s \in Derived : s \notin Channel
  BY ChannelAssumption DEF Signal
<1> QED
  BY <1>1 DEF SigInv, DerivedConsistent, DerivedOnTop, StaleScheduled

\* Only the update phase has facts about the history variable.
LEMMA NoHistoryOutside == phase # "update" => Uncommitted /\ EventsSoFar
BY DEF Uncommitted, EventsSoFar
-----------------------------------------------------------------------------
(***************************************************************************)
(* The invariant holds at the start and is preserved by each action.       *)
(***************************************************************************)
LEMMA SigInit == Init => SigInv
<1> SUFFICES ASSUME Init PROVE SigInv
  OBVIOUS
<1> USE DEF Init
<1>1. \A s \in Derived : View(s, q) = {}
  <2> TAKE s \in Derived
  <2>1. \A i \in DOMAIN Select[s] : Select[s][i][1] \in Source
    BY PartsAreSources DEF Parts
  <2> QED
    BY <2>1 DEF View, Signal
<1>2. TypeOK
  <2>1. postStack \in Seq(Derived \cup Channel) /\ DOMAIN postStack = {}
    BY EmptySeq, LenProperties
  <2>2. \A s \in Signal : {} \in Value(s)
    BY DEF Value
  <2>3. {d, q} \subseteq [Signal -> SUBSET Nat]
    OBVIOUS
  <2>4. writes \in 0..MaxWrites
    BY ChannelAssumption
  <2> QED
    BY <2>1, <2>2, <2>3, <2>4 DEF TypeOK
<1>3. StaleScheduled
  BY <1>1 DEF StaleScheduled, Signal
<1>4. PendingScheduled /\ PutScheduled
  BY DEF PendingScheduled, PutScheduled, Signal
<1>5. DerivedOnTop
  <2>1. DOMAIN postStack = {}
    BY EmptySeq, LenProperties
  <2> QED
    BY <2>1 DEF DerivedOnTop, Range
<1> QED
  BY <1>2, <1>3, <1>4, <1>5, NoHistoryOutside DEF SigInv

LEMMA WriteInv ==
  ASSUME SigInv, NEW s \in Source, NEW x \in Value(s), Write(s, x)
  PROVE  SigInv'
<1> USE DEF Write
<1>1. TypeOK'
  <2>1. x \in SUBSET Nat
    BY BitIsNat DEF Value
  <2>2. d' \in [Signal -> SUBSET Nat]
    BY <2>1 DEF SigInv, TypeOK
  <2>3. \A a \in Signal : d'[a] \in Value(a)
    BY DEF SigInv, TypeOK
  <2>4. writes' \in 0..MaxWrites
    BY ChannelAssumption DEF SigInv, TypeOK, MayWrite
  <2> QED
    BY <2>2, <2>3, <2>4 DEF SigInv, TypeOK
<1>2. PendingScheduled'
  BY DEF SigInv, PendingScheduled, TypeOK, Signal
<1>3. phase' = phase /\ phase # "update"
  BY DEF MayWrite
<1>4. StaleScheduled' /\ PutScheduled' /\ DerivedOnTop'
  BY <1>3 DEF SigInv, StaleScheduled, PutScheduled, DerivedOnTop
<1> QED
  BY <1>1, <1>2, <1>3, <1>4 DEF SigInv, Uncommitted, EventsSoFar

LEMMA WriteThroughInv ==
  ASSUME SigInv, NEW s \in Derived, NEW x \in Value(s), WriteThrough(s, x)
  PROVE  SigInv'
<1> DEFINE new == Overlay(s, x, d)
<1>1. \A a \in Source : new[a] \in SUBSET Bit
  BY OverlayType
<1>2. d' = [a \in Signal |-> IF a \in Source THEN new[a] ELSE d[a]]
  BY DEF WriteThrough
<1>3. \A a \in Source : a \notin Parts(s) => new[a] = d[a]
  <2>1. \A a \in Source : d[a] \in SUBSET Bit
    BY DEF SigInv, TypeOK, Value, Signal
  <2> QED
    BY <2>1, OverlayElsewhere
<1>4. /\ updateStack \subseteq updateStack'
      /\ updateStack' \subseteq updateStack \cup Parts(s)
      /\ \A a \in Parts(s) : new[a] # q[a] => a \in updateStack'
  BY DEF WriteThrough
<1>5. /\ UNCHANGED <<phase, initialized, q, postStack, slot, mail, eventStack, before>>
      /\ writes' = writes - 1 /\ writes > 0
      /\ phase # "update"
  BY DEF WriteThrough, MayWrite
<1> HIDE DEF new
<1>6. TypeOK'
  <2>1. d' \in [Signal -> SUBSET Nat]
    BY <1>1, <1>2, BitIsNat DEF SigInv, TypeOK
  <2>2. \A a \in Signal : d'[a] \in Value(a)
    BY <1>1, <1>2 DEF SigInv, TypeOK, Value
  <2>3. writes' \in 0..MaxWrites
    BY <1>5, ChannelAssumption DEF SigInv, TypeOK
  <2>4. updateStack' \subseteq Source
    BY <1>4, PartsAreSources DEF SigInv, TypeOK
  <2> QED
    BY <1>5, <2>1, <2>2, <2>3, <2>4 DEF SigInv, TypeOK
<1>7. PendingScheduled'
  BY <1>2, <1>3, <1>4, <1>5 DEF SigInv, PendingScheduled, Signal
<1>8. StaleScheduled' /\ PutScheduled' /\ DerivedOnTop'
  BY <1>5 DEF SigInv, StaleScheduled, PutScheduled, DerivedOnTop
<1> QED
  BY <1>5, <1>6, <1>7, <1>8 DEF SigInv, Uncommitted, EventsSoFar

LEMMA InitializeInv ==
  ASSUME SigInv, NEW s \in Source, NEW x \in Value(s), Initialize(s, x)
  PROVE  /\ SigInv'
         /\ q' = Views([a \in Source |-> IF a = s THEN x ELSE q[a]])
         /\ [a \in Source |-> d'[a]] = [[a \in Source |-> d[a]] EXCEPT ![s] = x]
<1> DEFINE new == [q EXCEPT ![s] = x]
<1>1. /\ q \in [Signal -> SUBSET Nat] /\ d \in [Signal -> SUBSET Nat]
      /\ \A a \in Signal : d[a] \in Value(a) /\ q[a] \in Value(a)
      /\ s \in Signal /\ x \in SUBSET Nat
  BY BitIsNat DEF SigInv, TypeOK, Signal, Value
<1>2. /\ new \in [Signal -> SUBSET Nat]
      /\ new[s] = x
      /\ \A a \in Signal : a # s => new[a] = q[a]
  BY <1>1
<1>3. /\ q' = [a \in Signal |-> IF a \in Dependents(s) THEN View(a, new) ELSE new[a]]
      /\ d' = [a \in Signal |-> IF a = s \/ a \in Dependents(s) THEN q'[a] ELSE d[a]]
  BY DEF Initialize, Refresh
<1>4. /\ UNCHANGED <<phase, initialized, updateStack, postStack, slot, mail, eventStack, before>>
      /\ writes' = writes - 1 /\ writes > 0
      /\ phase = "idle"
  BY DEF Initialize
<1> HIDE DEF new
<1>5. \A a \in Source : a \in Signal /\ a \notin Derived /\ a \notin Dependents(s)
  BY SelectAssumption DEF Signal, Dependents
<1>6. \A a \in Source : q'[a] = new[a]
  BY <1>3, <1>5
<1>7. \A a \in Derived : q'[a] = View(a, new)
  <2> TAKE a \in Derived
  <2>1. CASE a \in Dependents(s)
    BY <1>3, <2>1 DEF Signal
  <2>2. CASE a \notin Dependents(s)
    <3>1. s \notin Parts(a)
      BY <2>2 DEF Dependents
    <3>2. \A r \in Parts(a) : new[r] = q[r]
      BY <1>2, <3>1, PartsAreSources DEF Signal
    <3>3. View(a, new) = View(a, q)
      BY <3>2, ViewOfParts
    <3>4. q[a] = View(a, q)
      BY <1>4, ConsistentOutside DEF DerivedConsistent
    <3>5. a # s /\ a \in Signal
      BY SelectAssumption DEF Signal
    <3> QED
      BY <1>2, <1>3, <2>2, <3>3, <3>4, <3>5
  <2> QED
    BY <2>1, <2>2
<1>8. \A a \in Derived : q'[a] = View(a, q')
  BY <1>6, <1>7, SameViews
<1>9. /\ q' \in [Signal -> SUBSET Nat]
      /\ \A a \in Signal : q'[a] \in Value(a)
  <2>1. \A a \in Source : q'[a] \in SUBSET Nat /\ q'[a] \in Value(a)
    BY <1>1, <1>2, <1>5, <1>6 DEF Value
  <2>2. \A a \in Derived : q'[a] \in SUBSET Nat /\ q'[a] \in Value(a)
    BY <1>7, ViewType, ViewIsNat
  <2> QED
    BY <1>3, <2>1, <2>2 DEF Signal
<1>10. /\ d' \in [Signal -> SUBSET Nat]
       /\ \A a \in Signal : d'[a] \in Value(a)
  BY <1>1, <1>3, <1>9
<1>11. TypeOK'
  <2>1. writes' \in 0..MaxWrites
    BY <1>4, ChannelAssumption DEF SigInv, TypeOK
  <2> QED
    BY <1>4, <1>9, <1>10, <2>1 DEF SigInv, TypeOK
<1>12. \A a \in Source : /\ a = s => q'[a] = x /\ d'[a] = x
                         /\ a # s => q'[a] = q[a] /\ d'[a] = d[a]
  BY <1>2, <1>3, <1>5, <1>6
<1>13. PendingScheduled'
  BY <1>4, <1>12 DEF SigInv, PendingScheduled
<1>14. StaleScheduled'
  BY <1>8 DEF StaleScheduled
<1>15. PutScheduled' /\ DerivedOnTop'
  BY <1>4 DEF SigInv, PutScheduled, DerivedOnTop
<1>16. SigInv'
  BY <1>4, <1>11, <1>13, <1>14, <1>15 DEF SigInv, Uncommitted, EventsSoFar
<1>17. q' = Views([a \in Source |-> IF a = s THEN x ELSE q[a]])
  <2> DEFINE f == [a \in Source |-> IF a = s THEN x ELSE q[a]]
  <2>1. \A a \in Source : f[a] = q'[a]
    BY <1>12
  <2>2. \A a \in Derived : View(a, f) = q'[a]
    BY <1>8, <2>1, SameViews
  <2>3. \A a \in Signal : q'[a] = IF a \in Source THEN f[a] ELSE View(a, f)
    BY <2>1, <2>2 DEF Signal
  <2> HIDE DEF f
  <2>4. q' = [a \in Signal |-> IF a \in Source THEN f[a] ELSE View(a, f)]
    BY <1>9, <2>3
  <2> QED
    BY <2>4 DEF Views, f
<1>18. [a \in Source |-> d'[a]] = [[a \in Source |-> d[a]] EXCEPT ![s] = x]
  BY <1>12
<1> QED
  BY <1>16, <1>17, <1>18

LEMMA PutInv ==
  ASSUME SigInv, NEW c \in Channel, NEW v \in Item, Put(c, v)
  PROVE  /\ SigInv'
         /\ Range(postStack') = Range(postStack) \cup {c}
<1>1. /\ slot' = [slot EXCEPT ![c] = v]
      /\ PushPost({c})
      /\ writes' = writes - 1 /\ writes > 0
      /\ UNCHANGED <<phase, initialized, d, q, updateStack, mail, eventStack, before>>
      /\ phase # "update"
  BY DEF Put, MayWrite
<1>2. StackOK' /\ Range(postStack') = Range(postStack) \cup {c}
  BY <1>1, InvStackOK, PushPostStack DEF SigInv
<1>3. TypeOK'
  <2>1. slot' \in [Channel -> Item] /\ writes' \in 0..MaxWrites
    BY <1>1, ChannelAssumption DEF SigInv, TypeOK
  <2>2. /\ postStack' \in Seq(Derived \cup Channel)
        /\ \A i, j \in DOMAIN postStack' : postStack'[i] = postStack'[j] => i = j
    BY <1>2 DEF StackOK, Distinct
  <2> QED
    BY <1>1, <2>1, <2>2 DEF SigInv, TypeOK
<1>4. PendingScheduled'
  BY <1>1 DEF SigInv, PendingScheduled
<1>5. StaleScheduled'
  BY <1>1, <1>2 DEF SigInv, StaleScheduled
<1>6. PutScheduled'
  BY <1>1, <1>2 DEF SigInv, TypeOK, PutScheduled
<1>7. DerivedOnTop'
  <2>1. Range(postStack') \subseteq Channel
    BY <1>1, <1>2 DEF SigInv, DerivedOnTop
  <2> QED
    BY <2>1 DEF DerivedOnTop, Range
<1> QED
  BY <1>1, <1>2, <1>3, <1>4, <1>5, <1>6, <1>7 DEF SigInv, Uncommitted, EventsSoFar

LEMMA StartInv ==
  ASSUME SigInv, FirstRun \/ StartUpdate
  PROVE  SigInv'
<1>1. /\ UNCHANGED <<initialized, d, q, updateStack, postStack, slot, mail, eventStack, writes>>
      /\ phase # "update" /\ phase' = "update"
      /\ before' = Visible
  BY DEF FirstRun, StartUpdate, signalVars
<1>2. TypeOK'
  BY <1>1 DEF SigInv, TypeOK
<1>3. PendingScheduled' /\ StaleScheduled' /\ PutScheduled' /\ DerivedOnTop'
  BY <1>1 DEF SigInv, PendingScheduled, StaleScheduled, PutScheduled, DerivedOnTop
<1>4. before' = [values |-> q, mail |-> mail, events |-> eventStack,
                 asked |-> Range(postStack) \cap Channel]
  BY <1>1 DEF Visible
<1>5. Uncommitted'
  BY <1>1, <1>4 DEF Uncommitted
<1>6. EventsSoFar'
  <2>1. Changes(q, q) = {}
    BY NoEventsOfSame DEF Changes
  <2>2. before'.asked \ Range(postStack) = {}
    BY <1>4
  <2> QED
    BY <1>1, <1>4, <2>1, <2>2 DEF EventsSoFar
<1> QED
  BY <1>2, <1>3, <1>5, <1>6 DEF SigInv

\* Actions that end a phase other than by an update.
LEMMA LeaveInv ==
  ASSUME SigInv, StartRound \/ Throw \/ EndUpdate \/ Trigger
  PROVE  SigInv'
<1>1. /\ UNCHANGED <<d, q, updateStack, postStack, slot, mail, writes>>
      /\ phase' \in {"idle", "evaluate", "trigger"}
      /\ initialized' \in {TRUE, initialized}
      /\ eventStack' \in {{}, eventStack}
      /\ phase = "update" => postStack = <<>>
  BY DEF StartRound, Throw, EndUpdate, Trigger, signalVars
<1>2. TypeOK'
  BY <1>1 DEF SigInv, TypeOK
<1>3. PendingScheduled' /\ StaleScheduled' /\ PutScheduled'
  BY <1>1 DEF SigInv, PendingScheduled, StaleScheduled, PutScheduled
<1>4. DerivedOnTop'
  <2>1. postStack = <<>> => Range(postStack) = {}
    BY EmptySeq, LenProperties DEF Range
  <2> QED
    BY <1>1, <2>1 DEF SigInv, DerivedOnTop
<1>5. Uncommitted' /\ EventsSoFar'
  BY <1>1 DEF Uncommitted, EventsSoFar
<1> QED
  BY <1>2, <1>3, <1>4, <1>5 DEF SigInv

LEMMA UpdateSignalInv ==
  ASSUME SigInv, NEW s \in Source, UpdateSignal(s)
  PROVE  /\ SigInv'
         /\ Range(postStack) \subseteq Range(postStack')
<1>1. /\ phase = "update" /\ s \in updateStack
      /\ updateStack' = updateStack \ {s}
      /\ q' = [q EXCEPT ![s] = d[s]]
      /\ eventStack' = eventStack \cup Events(s, q[s], d[s])
      /\ UNCHANGED <<phase, initialized, d, slot, mail, writes, before>>
  BY DEF UpdateSignal
<1>2. /\ q \in [Signal -> SUBSET Nat] /\ d \in [Signal -> SUBSET Nat]
      /\ \A a \in Signal : d[a] \in Value(a) /\ q[a] \in Value(a)
      /\ s \in Signal /\ s \notin Derived
  BY SelectAssumption DEF SigInv, TypeOK, Signal
<1>3. /\ q' \in [Signal -> SUBSET Nat]
      /\ q'[s] = d[s]
      /\ \A a \in Signal : a # s => q'[a] = q[a]
  BY <1>1, <1>2
<1> DEFINE us == IF d[s] = q[s] THEN {} ELSE Dependents(s)
<1>4. /\ StackOK'
      /\ Range(postStack') = Range(postStack) \cup us
      /\ \A i \in DOMAIN postStack' : IF i \in DOMAIN postStack THEN postStack'[i] = postStack[i]
                                      ELSE postStack'[i] \in us
  <2>0. StackOK
    BY InvStackOK DEF SigInv
  <2>1. CASE d[s] = q[s]
    <3>1. postStack' = postStack /\ us = {}
      BY <2>1 DEF UpdateSignal
    <3> QED
      BY <2>0, <3>1, StackKept
  <2>2. CASE d[s] # q[s]
    <3>1. PushPost(Dependents(s)) /\ us = Dependents(s)
      BY <2>2 DEF UpdateSignal
    <3>2. Dependents(s) \in SUBSET (Derived \cup Channel)
      BY DEF Dependents
    <3> QED
      BY <2>0, <3>1, <3>2, PushPostStack
  <2> QED
    BY <2>1, <2>2
<1>5. us \subseteq Derived /\ us \cap Channel = {}
  BY ChannelAssumption DEF Dependents, Signal
<1>6. TypeOK'
  <2>1. eventStack' \subseteq (Signal \cup Channel) \X {"change", "pos", "neg", "written"}
    BY <1>1, <1>2, EventsType DEF SigInv, TypeOK
  <2>2. /\ postStack' \in Seq(Derived \cup Channel)
        /\ \A i, j \in DOMAIN postStack' : postStack'[i] = postStack'[j] => i = j
    BY <1>4 DEF StackOK, Distinct
  <2>3. \A a \in Signal : q'[a] \in Value(a)
    <3>1. Value(s) = SUBSET Bit /\ d[s] \in Value(s)
      BY <1>2 DEF Value
    <3> QED
      BY <1>2, <1>3, <3>1
  <2> QED
    BY <1>1, <1>3, <2>1, <2>2, <2>3 DEF SigInv, TypeOK
<1>7. PendingScheduled'
  BY <1>1, <1>3 DEF SigInv, PendingScheduled, Signal
<1>8. StaleScheduled'
  <2> SUFFICES ASSUME NEW t \in Derived, q'[t] # View(t, q')
               PROVE  t \in Range(postStack')
    BY DEF StaleScheduled
  <2>1. q'[t] = q[t]
    BY <1>2, <1>3 DEF Signal
  <2>2. CASE View(t, q') = View(t, q)
    BY <1>4, <2>1, <2>2 DEF SigInv, StaleScheduled
  <2>3. CASE View(t, q') # View(t, q)
    <3>1. PICK a \in Parts(t) : q'[a] # q[a]
      BY <2>3, ViewOfParts
    <3>2. a = s /\ d[s] # q[s]
      BY <1>3, <3>1, PartsAreSources DEF Signal
    <3>3. t \in us
      BY <3>1, <3>2 DEF Dependents
    <3> QED
      BY <1>4, <3>3
  <2> QED
    BY <2>2, <2>3
<1> HIDE DEF us
<1>9. PutScheduled'
  BY <1>1, <1>4 DEF SigInv, PutScheduled
<1>10. DerivedOnTop'
  <2> SUFFICES ASSUME NEW i \in DOMAIN postStack', NEW j \in DOMAIN postStack', i < j,
                      postStack'[j] \in Channel
               PROVE  postStack'[i] \in Channel
    BY <1>1 DEF DerivedOnTop
  <2>1. j \in DOMAIN postStack
    BY <1>4, <1>5
  <2>2. i \in DOMAIN postStack
    BY <2>1, InvStackOK, <1>4, LenProperties DEF SigInv, StackOK
  <2> QED
    BY <1>4, <2>1, <2>2 DEF SigInv, DerivedOnTop
<1>11. Uncommitted'
  <2>1. \A a \in updateStack' : a \in Signal /\ a # s
    BY <1>1 DEF SigInv, TypeOK, Signal
  <2>2. \A a \in Derived : q'[a] = q[a] /\ q[a] = before.values[a]
    BY <1>1, <1>2, <1>3 DEF SigInv, Uncommitted, Signal
  <2> QED
    BY <1>1, <1>3, <2>1, <2>2 DEF SigInv, Uncommitted
<1>12. EventsSoFar'
  <2>1. q[s] = before.values[s]
    BY <1>1 DEF SigInv, Uncommitted
  <2>2. Changes(before.values, q') = Changes(before.values, q) \cup Events(s, q[s], d[s])
    <3>1. s \in Signal /\ \A a \in Signal : a # s => q'[a] = q[a]
      BY <1>2, <1>3
    <3>2. \A w : q[s] = w[s] =>
            Changes(w, q') = Changes(w, q) \cup Events(s, q[s], q'[s])
      BY <3>1, EventsOfOne
    <3> QED
      BY <1>3, <2>1, <3>2
  <2>3. \A c \in Channel : c \in Range(postStack') <=> c \in Range(postStack)
    BY <1>4, <1>5
  <2>4. /\ before.asked \subseteq Channel
        /\ Range(postStack) \cap Channel \subseteq before.asked
        /\ eventStack = before.events \cup {<<c, "written">> : c \in before.asked \ Range(postStack)}
                                      \cup Changes(before.values, q)
    BY <1>1 DEF SigInv, EventsSoFar
  <2>5. before.asked \ Range(postStack') = before.asked \ Range(postStack)
    BY <2>3, <2>4
  <2>6. /\ Range(postStack') \cap Channel \subseteq before.asked
        /\ eventStack' = before.events \cup {<<c, "written">> : c \in before.asked \ Range(postStack')}
                                       \cup Changes(before.values, q')
    BY <1>1, <2>2, <2>3, <2>4, <2>5
  <2> QED
    BY <1>1, <2>4, <2>6 DEF EventsSoFar
<1> QED
  BY <1>4, <1>6, <1>7, <1>8, <1>9, <1>10, <1>11, <1>12 DEF SigInv

LEMMA CommitDerivedInv ==
  ASSUME SigInv, NEW s \in Derived, CommitDerived(s)
  PROVE  /\ SigInv'
         /\ Range(postStack') = Range(postStack) \ {s}
<1>1. /\ phase = "update" /\ updateStack = {} /\ postStack # <<>>
      /\ Popped(s)
      /\ d' = [d EXCEPT ![s] = View(s, q)]
      /\ q' = [q EXCEPT ![s] = View(s, q)]
      /\ eventStack' = eventStack \cup Events(s, q[s], View(s, q))
      /\ UNCHANGED <<phase, initialized, updateStack, slot, mail, writes, before>>
  BY DEF CommitDerived
<1>2. /\ q \in [Signal -> SUBSET Nat] /\ d \in [Signal -> SUBSET Nat]
      /\ \A a \in Signal : d[a] \in Value(a) /\ q[a] \in Value(a)
      /\ s \in Signal /\ s \notin Source /\ s \notin Channel
  BY SelectAssumption, ChannelAssumption DEF SigInv, TypeOK, Signal
<1>3. View(s, q) \in SUBSET Nat /\ View(s, q) \in Value(s)
  BY ViewType, ViewIsNat
<1>4. /\ q' \in [Signal -> SUBSET Nat] /\ d' \in [Signal -> SUBSET Nat]
      /\ q'[s] = View(s, q) /\ d'[s] = View(s, q)
      /\ \A a \in Signal : a # s => q'[a] = q[a] /\ d'[a] = d[a]
  BY <1>1, <1>2, <1>3
<1>5. \A a \in Source : q'[a] = q[a] /\ d'[a] = d[a]
  BY <1>2, <1>4 DEF Signal
<1>6. \A t \in Derived : View(t, q') = View(t, q)
  BY <1>5, SameViews
<1>7. /\ StackOK'
      /\ s \in Range(postStack)
      /\ Range(postStack') = Range(postStack) \ {s}
      /\ \A i \in DOMAIN postStack' : i \in DOMAIN postStack /\ postStack'[i] = postStack[i]
  BY <1>1, InvStackOK, PoppedStack DEF SigInv
<1>8. TypeOK'
  <2>1. eventStack' \subseteq (Signal \cup Channel) \X {"change", "pos", "neg", "written"}
    BY <1>1, <1>2, EventsType DEF SigInv, TypeOK
  <2>2. /\ postStack' \in Seq(Derived \cup Channel)
        /\ \A i, j \in DOMAIN postStack' : postStack'[i] = postStack'[j] => i = j
    BY <1>7 DEF StackOK, Distinct
  <2>3. \A a \in Signal : q'[a] \in Value(a) /\ d'[a] \in Value(a)
    BY <1>2, <1>3, <1>4
  <2> QED
    BY <1>1, <1>4, <2>1, <2>2, <2>3 DEF SigInv, TypeOK
<1>9. PendingScheduled'
  BY <1>1, <1>5 DEF SigInv, PendingScheduled
<1>10. StaleScheduled'
  BY <1>4, <1>6, <1>7 DEF SigInv, StaleScheduled, Signal
<1>11. PutScheduled'
  BY <1>1, <1>2, <1>7 DEF SigInv, PutScheduled
<1>12. DerivedOnTop'
  BY <1>1, <1>7 DEF SigInv, DerivedOnTop
<1>13. Uncommitted'
  BY <1>1, <1>4, <1>7 DEF SigInv, Uncommitted, Signal
<1>14. EventsSoFar'
  <2>1. q[s] = before.values[s]
    BY <1>1, <1>7 DEF SigInv, Uncommitted
  <2>2. Changes(before.values, q') = Changes(before.values, q) \cup Events(s, q[s], View(s, q))
    <3>1. s \in Signal /\ \A a \in Signal : a # s => q'[a] = q[a]
      BY <1>2, <1>4
    <3>2. \A w : q[s] = w[s] =>
            Changes(w, q') = Changes(w, q) \cup Events(s, q[s], q'[s])
      BY <3>1, EventsOfOne
    <3> QED
      BY <1>4, <2>1, <3>2
  <2>3. \A c \in Channel : c \in Range(postStack') <=> c \in Range(postStack)
    BY <1>2, <1>7
  <2>4. /\ before.asked \subseteq Channel
        /\ Range(postStack) \cap Channel \subseteq before.asked
        /\ eventStack = before.events \cup {<<c, "written">> : c \in before.asked \ Range(postStack)}
                                      \cup Changes(before.values, q)
    BY <1>1 DEF SigInv, EventsSoFar
  <2>5. before.asked \ Range(postStack') = before.asked \ Range(postStack)
    BY <2>3, <2>4
  <2>6. /\ Range(postStack') \cap Channel \subseteq before.asked
        /\ eventStack' = before.events \cup {<<c, "written">> : c \in before.asked \ Range(postStack')}
                                       \cup Changes(before.values, q')
    BY <1>1, <2>2, <2>3, <2>4, <2>5
  <2> QED
    BY <1>1, <2>4, <2>6 DEF EventsSoFar
<1> QED
  BY <1>7, <1>8, <1>9, <1>10, <1>11, <1>12, <1>13, <1>14 DEF SigInv

\* When a channel commits, no derived signal is left on the stack.
LEMMA CommitChannelInv ==
  ASSUME SigInv, NEW c \in Channel, CommitChannel(c)
  PROVE  /\ SigInv'
         /\ \A s \in Source : q[s] = d[s]
         /\ \A s \in Derived : q[s] = View(s, q)
<1>1. /\ phase = "update" /\ updateStack = {} /\ postStack # <<>>
      /\ Popped(c)
      /\ mail' = [mail EXCEPT ![c] = slot[c]]
      /\ eventStack' = eventStack \cup {<<c, "written">>}
      /\ UNCHANGED <<phase, initialized, d, q, updateStack, slot, writes, before>>
  BY DEF CommitChannel, signalVars
<1>2. /\ StackOK'
      /\ c \in Range(postStack)
      /\ Range(postStack') = Range(postStack) \ {c}
      /\ \A i \in DOMAIN postStack' : i \in DOMAIN postStack /\ postStack'[i] = postStack[i]
      /\ Len(postStack) \in DOMAIN postStack /\ c = postStack[Len(postStack)]
  BY <1>1, InvStackOK, PoppedStack DEF SigInv
<1>3. mail \in [Channel -> Item] /\ slot \in [Channel -> Item]
  BY DEF SigInv, TypeOK
<1>4. \A t \in Derived : t # c
  BY ChannelAssumption DEF Signal
<1>5. TypeOK'
  <2>1. /\ postStack' \in Seq(Derived \cup Channel)
        /\ \A i, j \in DOMAIN postStack' : postStack'[i] = postStack'[j] => i = j
    BY <1>2 DEF StackOK, Distinct
  <2>2. mail' \in [Channel -> Item]
    BY <1>1, <1>3
  <2> QED
    BY <1>1, <2>1, <2>2 DEF SigInv, TypeOK
<1>6. PendingScheduled' /\ StaleScheduled'
  BY <1>1, <1>2, <1>4 DEF SigInv, PendingScheduled, StaleScheduled
<1>7. PutScheduled'
  BY <1>1, <1>2, <1>3 DEF SigInv, PutScheduled
<1>8. DerivedOnTop'
  BY <1>1, <1>2 DEF SigInv, DerivedOnTop
<1>9. Uncommitted'
  BY <1>1, <1>2, <1>4 DEF SigInv, Uncommitted
<1>10. EventsSoFar'
  <2>1. /\ before.asked \subseteq Channel
        /\ Range(postStack) \cap Channel \subseteq before.asked
        /\ eventStack = before.events
                        \cup {<<k, "written">> : k \in before.asked \ Range(postStack)}
                        \cup Changes(before.values, q)
    BY <1>1 DEF SigInv, EventsSoFar
  <2>2. before.asked \ Range(postStack') = (before.asked \ Range(postStack)) \cup {c}
    BY <1>2, <2>1
  <2>3. eventStack' = before.events
                      \cup {<<k, "written">> : k \in before.asked \ Range(postStack')}
                      \cup Changes(before.values, q)
    BY <1>1, <2>1, <2>2
  <2> QED
    BY <1>1, <1>2, <2>1, <2>3 DEF EventsSoFar
<1>11. \A s \in Source : q[s] = d[s]
  BY <1>1 DEF SigInv, PendingScheduled
<1>12. Range(postStack) \subseteq Channel
  <2> SUFFICES ASSUME NEW i \in DOMAIN postStack
               PROVE  postStack[i] \in Channel
    BY DEF Range
  <2>1. DOMAIN postStack = 1..Len(postStack) /\ Len(postStack) \in Nat
    BY LenProperties DEF SigInv, TypeOK
  <2>2. CASE i = Len(postStack)
    BY <1>2, <2>2
  <2>3. CASE i # Len(postStack)
    <3>1. i < Len(postStack)
      BY <2>1, <2>3
    <3> QED
      BY <1>2, <3>1 DEF SigInv, DerivedOnTop
  <2> QED
    BY <2>2, <2>3
<1>13. \A s \in Derived : q[s] = View(s, q)
  BY <1>4, <1>12, ChannelAssumption DEF SigInv, StaleScheduled, Signal
<1> QED
  BY <1>5, <1>6, <1>7, <1>8, <1>9, <1>10, <1>11, <1>13 DEF SigInv

\* One step for each action.
LEMMA SigStep == SigInv /\ [Next]_vars => SigInv'
<1> SUFFICES ASSUME SigInv, [Next]_vars
             PROVE  SigInv'
  OBVIOUS
<1>1. CASE Call
  BY <1>1, WriteInv, InitializeInv, WriteThroughInv, PutInv DEF Call
<1>2. CASE FirstRun \/ StartUpdate
  BY <1>2, StartInv
<1>3. CASE StartRound \/ Throw \/ EndUpdate \/ Trigger
  BY <1>3, LeaveInv
<1>4. CASE Commit
  BY <1>4, UpdateSignalInv, CommitDerivedInv, CommitChannelInv DEF Commit
<1>5. CASE UNCHANGED vars
  BY <1>5 DEF vars, SigInv, TypeOK, PendingScheduled, StaleScheduled, PutScheduled, DerivedOnTop,
              Uncommitted, EventsSoFar
<1> QED
  BY <1>1, <1>2, <1>3, <1>4, <1>5 DEF Next

THEOREM SignalsCorrect == Spec => []SigInv
<1> QED
  BY SigInit, SigStep, PTL DEF Spec

(***************************************************************************)
(* Signals have values of their width, and no stack has anything twice.    *)
(***************************************************************************)
THEOREM SignalsTypeCorrect == Spec => []TypeOK
<1>1. SigInv => TypeOK
  BY DEF SigInv
<1> QED
  BY <1>1, SignalsCorrect, PTL

(***************************************************************************)
(* Outside the update phase a derived signal is its selection of the       *)
(* values of its sources.                                                  *)
(***************************************************************************)
THEOREM DerivedAreConsistent == Spec => []DerivedConsistent
<1> QED
  BY ConsistentOutside, SignalsCorrect, PTL

(***************************************************************************)
(* A source with a write to commit is on the stack of the update phase.    *)
(***************************************************************************)
THEOREM NoWriteIsLost == Spec => []PendingScheduled
<1>1. SigInv => PendingScheduled
  BY DEF SigInv
<1> QED
  BY <1>1, SignalsCorrect, PTL

(***************************************************************************)
(* When a channel commits, every signal shows its new value.               *)
(***************************************************************************)
THEOREM ChannelsSeeCommitted == Spec => ChannelSeesCommitted
<1> DEFINE A == \A c \in Channel : c \in Range(postStack) /\ c \notin Range(postStack') =>
                  /\ \A s \in Source : q[s] = d[s]
                  /\ \A s \in Derived : q[s] = View(s, q)
<1>1. SigInv /\ [Next]_vars => [A]_vars
  <2> SUFFICES ASSUME SigInv, Next, NEW c \in Channel,
                      c \in Range(postStack), c \notin Range(postStack')
               PROVE  /\ \A s \in Source : q[s] = d[s]
                      /\ \A s \in Derived : q[s] = View(s, q)
    OBVIOUS
  <2>1. postStack' # postStack
    OBVIOUS
  <2>2. ~\E k \in Channel, v \in Item : Put(k, v)
    BY PutInv
  <2>3. ~\E s \in Source : UpdateSignal(s)
    BY UpdateSignalInv
  <2>4. ~\E s \in Derived : CommitDerived(s)
    <3>1. \A s \in Derived : s # c
      BY ChannelAssumption DEF Signal
    <3> QED
      BY <3>1, CommitDerivedInv
  <2>5. PICK k \in Channel : CommitChannel(k)
    BY <2>1, <2>2, <2>3, <2>4
       DEF Next, Call, Commit, Write, WriteThrough, Initialize, FirstRun, StartRound, Throw,
           StartUpdate, EndUpdate, Trigger
  <2> QED
    BY <2>5, CommitChannelInv
<1> QED
  BY <1>1, SignalsCorrect, PTL DEF Spec, ChannelSeesCommitted
-----------------------------------------------------------------------------
(***************************************************************************)
(* The update phase implements one atomic step: EndUpdate is the step      *)
(* Update, and the steps of the phase before it are not seen.              *)
(***************************************************************************)
Pending == [s \in Source |-> d[s]]

AtomicVars == <<Pending, Shown.values, slot, Shown.mail, Shown.asked, Shown.events>>

\* The definitions that both modules take from BitViews.
LEMMA SameOperators ==
  /\ Atomic!Signal = Signal
  /\ \A s : Atomic!Value(s) = Value(s)
  /\ \A s, v : Atomic!View(s, v) = View(s, v)
  /\ \A v : Atomic!Views(v) = Views(v)
  /\ \A s, x, v : Atomic!Overlay(s, x, v) = Overlay(s, x, v)
  /\ \A s, x, y : Atomic!Events(s, x, y) = Events(s, x, y)
<1>1. Atomic!Signal = Signal /\ Atomic!Bit = Bit
  BY DEF Atomic!Signal, Signal, Atomic!Bit, Bit
<1>2. \A s : Atomic!Value(s) = Value(s)
  BY <1>1 DEF Atomic!Value, Value
<1>3. \A s, v : Atomic!View(s, v) = View(s, v)
  BY DEF Atomic!View, View
<1>4. \A v : Atomic!Views(v) = Views(v)
  BY <1>1, <1>3 DEF Atomic!Views, Views
<1>5. \A s, x, v : Atomic!Overlay(s, x, v) = Overlay(s, x, v)
  BY <1>1 DEF Atomic!Overlay, Overlay
<1>6. \A s, x, y : Atomic!Events(s, x, y) = Events(s, x, y)
  BY DEF Atomic!Events, Events
<1> QED
  BY <1>1, <1>2, <1>3, <1>4, <1>5, <1>6

LEMMA AtomicInit == Init => Atomic!Init
<1> SUFFICES ASSUME Init PROVE Atomic!Init
  OBVIOUS
<1>1. Range(postStack) = {}
  BY EmptySeq, LenProperties DEF Init, Range
<1>2. Shown = Visible
  BY DEF Init, Shown
<1>3. /\ Pending = [s \in Source |-> {}]
      /\ q = [s \in Signal |-> {}]
  BY DEF Init, Pending, Signal
<1> QED
  BY <1>1, <1>2, <1>3, SameOperators DEF Init, Atomic!Init, Visible, Pending

\* A process writes, or the test bench initializes a signal.
LEMMA AtomicCall ==
  ASSUME SigInv, Call
  PROVE  Atomic!Next
<1>1. phase \in {"idle", "evaluate"} /\ phase' = phase /\ before' = before
  BY DEF Call, Write, WriteThrough, Initialize, Put, MayWrite
<1>2. Shown = Visible /\ Shown' = Visible'
  BY <1>1 DEF Shown
<1>3. d \in [Signal -> SUBSET Nat] /\ q \in [Signal -> SUBSET Nat]
  BY DEF SigInv, TypeOK
<1>4. ASSUME NEW s \in Source, NEW x \in Value(s), Write(s, x)
      PROVE  Atomic!Next
  <2>1. Pending' = [Pending EXCEPT ![s] = x]
    BY <1>3, <1>4 DEF Write, Pending, Signal
  <2>2. UNCHANGED <<Shown, slot>>
    BY <1>2, <1>4 DEF Write, Visible
  <2>3. Atomic!Write(s, x)
    BY <2>1, <2>2 DEF Atomic!Write, Pending
  <2> QED
    BY <2>3, SameOperators DEF Atomic!Next, Signal
<1>5. ASSUME NEW s \in Derived, NEW x \in Value(s), WriteThrough(s, x)
      PROVE  Atomic!Next
  <2>1. /\ d' = [a \in Signal |-> IF a \in Source THEN Overlay(s, x, d)[a] ELSE d[a]]
        /\ UNCHANGED <<q, mail, eventStack, postStack, slot>>
    BY <1>5 DEF WriteThrough
  <2>2. Overlay(s, x, d) = Overlay(s, x, Pending)
    BY DEF Overlay, Pending
  <2>3. Pending' = Overlay(s, x, Pending)
    <3>1. DOMAIN Overlay(s, x, Pending) = Source
      BY DEF Overlay
    <3>2. Overlay(s, x, Pending) = [a \in Source |-> Overlay(s, x, Pending)[a]]
      BY DEF Overlay
    <3> QED
      BY <2>1, <2>2, <3>2 DEF Pending, Signal
  <2>4. UNCHANGED <<Shown, slot>>
    BY <1>2, <2>1 DEF Visible
  <2>5. s \notin Source
    BY SelectAssumption
  <2>6. Atomic!Write(s, x)
    BY <2>3, <2>4, <2>5, SameOperators DEF Atomic!Write, Pending
  <2> QED
    BY <2>6, SameOperators DEF Atomic!Next, Signal
<1>6. ASSUME NEW s \in Source, NEW x \in Value(s), Initialize(s, x)
      PROVE  Atomic!Next
  <2>1. /\ q' = Views([a \in Source |-> IF a = s THEN x ELSE q[a]])
        /\ Pending' = [Pending EXCEPT ![s] = x]
    BY <1>6, InitializeInv DEF Pending
  <2>2. UNCHANGED <<mail, eventStack, postStack, slot>>
    BY <1>6 DEF Initialize
  <2>3. /\ Shown.values = q /\ Shown'.values = q'
        /\ UNCHANGED <<slot, Shown.mail, Shown.asked, Shown.events>>
    BY <1>2, <2>2 DEF Visible
  <2>4. Shown'.values = Atomic!Views([a \in Source |-> IF a = s THEN x ELSE Shown.values[a]])
    BY <2>1, <2>3, SameOperators
  <2>5. Atomic!Initialize(s, x)
    BY <2>1, <2>3, <2>4 DEF Atomic!Initialize, Pending
  <2> QED
    BY <2>5, SameOperators DEF Atomic!Next
<1>7. ASSUME NEW c \in Channel, NEW v \in Item, Put(c, v)
      PROVE  Atomic!Next
  <2>1. Range(postStack') \cap Channel = (Range(postStack) \cap Channel) \cup {c}
    BY <1>7, PutInv
  <2>2. /\ slot' = [slot EXCEPT ![c] = v]
        /\ UNCHANGED <<d, q, mail, eventStack>>
    BY <1>7 DEF Put
  <2>3. /\ Shown.asked = Range(postStack) \cap Channel
        /\ Shown'.asked = Range(postStack') \cap Channel
        /\ UNCHANGED <<Pending, Shown.values, Shown.mail, Shown.events>>
    BY <1>2, <2>2 DEF Visible, Pending
  <2>4. Shown'.asked = Shown.asked \cup {c}
    BY <2>1, <2>3
  <2>5. Atomic!Put(c, v)
    BY <2>2, <2>3, <2>4 DEF Atomic!Put, Pending
  <2> QED
    BY <2>5 DEF Atomic!Next
<1> QED
  BY <1>4, <1>5, <1>6, <1>7 DEF Call

\* The end of the update phase: its events are those of the values before and after.
LEMMA AtomicUpdateStep ==
  ASSUME SigInv, EndUpdate
  PROVE  Atomic!Next
<1>1. /\ phase = "update" /\ phase' # "update"
      /\ updateStack = {} /\ postStack = <<>>
      /\ UNCHANGED <<d, q, slot, mail, eventStack, postStack>>
  BY DEF EndUpdate, signalVars
<1>2. Range(postStack) = {} /\ Range(postStack') = {}
  BY <1>1, EmptySeq, LenProperties DEF Range
<1>3. /\ Shown = before
      /\ Shown' = [values |-> q, mail |-> mail, events |-> eventStack, asked |-> {}]
  BY <1>1, <1>2 DEF Shown, Visible
<1>4. q = Views(Pending)
  <2>1. q \in [Signal -> SUBSET Nat]
    BY DEF SigInv, TypeOK
  <2>2. \A a \in Source : q[a] = Pending[a]
    BY <1>1 DEF SigInv, PendingScheduled, Pending
  <2>3. \A a \in Derived : q[a] = View(a, Pending)
    <3>1. \A a \in Derived : q[a] = View(a, q)
      BY <1>2 DEF SigInv, StaleScheduled
    <3> QED
      BY <2>2, <3>1, SameViews
  <2>4. q = [a \in Signal |-> IF a \in Source THEN Pending[a] ELSE View(a, Pending)]
    BY <2>1, <2>2, <2>3 DEF Signal
  <2> QED
    BY <2>4 DEF Views
<1>5. mail = slot
  <2>1. \A c \in Channel : mail[c] = slot[c]
    BY <1>2 DEF SigInv, PutScheduled
  <2>2. mail \in [Channel -> Item] /\ slot \in [Channel -> Item]
    BY DEF SigInv, TypeOK
  <2> QED
    BY <2>1, <2>2
<1>6. eventStack = before.events \cup {<<c, "written">> : c \in before.asked}
                                 \cup Changes(before.values, q)
  BY <1>1, <1>2 DEF SigInv, EventsSoFar
<1>7. Changes(before.values, q)
        = UNION {Atomic!Events(s, before.values[s], q[s]) : s \in Atomic!Signal}
  BY SameOperators DEF Changes
<1>8. /\ Shown'.values = Atomic!Views(Pending)
      /\ Shown'.mail = slot /\ Shown'.asked = {}
      /\ Pending' = Pending /\ slot' = slot
      /\ Shown'.values = q /\ Shown'.events = eventStack
      /\ Shown.values = before.values /\ Shown.asked = before.asked
      /\ Shown.events = before.events
  BY <1>1, <1>3, <1>4, <1>5, SameOperators DEF Pending
<1>9. Atomic!Update
  BY <1>6, <1>7, <1>8 DEF Atomic!Update, Pending
<1> QED
  BY <1>9 DEF Atomic!Next

LEMMA AtomicStep == SigInv /\ [Next]_vars => [Atomic!Next]_(Atomic!vars)
<1> SUFFICES ASSUME SigInv, [Next]_vars
             PROVE  Atomic!Next \/ UNCHANGED AtomicVars
  BY DEF Atomic!vars, AtomicVars, Pending
<1>1. CASE Call
  BY <1>1, AtomicCall
<1>2. CASE EndUpdate
  BY <1>2, AtomicUpdateStep
<1>3. CASE Trigger
  <2>1. /\ phase = "trigger" /\ phase' # "update" /\ eventStack' = {}
        /\ UNCHANGED <<d, q, postStack, slot, mail>>
    BY <1>3 DEF Trigger, signalVars
  <2>2. /\ Shown = Visible /\ Shown' = Visible'
        /\ Pending' = Pending /\ slot' = slot
    BY <2>1 DEF Shown, Pending
  <2>3. Atomic!Trigger
    BY <2>1, <2>2 DEF Atomic!Trigger, Visible, Pending
  <2> QED
    BY <2>3 DEF Atomic!Next
<1>4. CASE FirstRun \/ StartUpdate \/ StartRound \/ Throw
  <2>1. /\ UNCHANGED <<d, q, postStack, slot, mail, eventStack>>
        /\ phase # "update"
        /\ phase' = "update" => before' = Visible
    BY <1>4 DEF FirstRun, StartUpdate, StartRound, Throw, signalVars
  <2>2. Shown = Visible /\ Shown' = Visible /\ Pending' = Pending
    BY <2>1 DEF Shown, Visible, Pending
  <2> QED
    BY <2>1, <2>2 DEF AtomicVars
<1>5. CASE Commit
  <2>1. /\ phase = "update" /\ UNCHANGED <<phase, slot, before>>
        /\ UNCHANGED Pending
    <3>1. \A a \in Source : a \notin Derived /\ a \in Signal
      BY SelectAssumption DEF Signal
    <3>2. d \in [Signal -> SUBSET Nat]
      BY DEF SigInv, TypeOK
    <3>3. \A a \in Source : d'[a] = d[a]
      BY <1>5, <3>1, <3>2
         DEF Commit, UpdateSignal, CommitDerived, CommitChannel, signalVars
    <3> QED
      BY <1>5, <3>3
         DEF Commit, UpdateSignal, CommitDerived, CommitChannel, signalVars, Pending
  <2>2. UNCHANGED Shown
    BY <2>1 DEF Shown
  <2> QED
    BY <2>1, <2>2 DEF AtomicVars
<1>6. CASE UNCHANGED vars
  BY <1>6 DEF vars, AtomicVars, Pending, Shown, Visible
<1> QED
  BY <1>1, <1>2, <1>3, <1>4, <1>5, <1>6 DEF Next

(***************************************************************************)
(* The update phase is atomic for the rest of the program.                 *)
(***************************************************************************)
THEOREM UpdateIsAtomic == Spec => IsAtomic
<1> QED
  BY AtomicInit, AtomicStep, SignalsCorrect, PTL DEF Spec, IsAtomic, Atomic!Spec
=============================================================================
