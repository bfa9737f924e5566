-------------------------- MODULE ElaborationProofs --------------------------
(***************************************************************************)
(* Elaboration connects the ports and hands over their subscribers, for    *)
(* every design: any ports, bindings, sensitivity lists and any order of   *)
(* construction.                                                           *)
(***************************************************************************)
EXTENDS Elaboration, SequencesExt, FiniteSetTheorems, SequenceTheorems, TLAPS

-----------------------------------------------------------------------------
(***************************************************************************)
(* Sequences without repetitions.                                          *)
(***************************************************************************)

\* No element occurs twice.
Distinct(s) == \A i, j \in DOMAIN s : s[i] = s[j] => i = j

(***************************************************************************)
(* An order of a finite set is a sequence that has each of its elements    *)
(* once.                                                                   *)
(***************************************************************************)
LEMMA SetToSeqsElements ==
  ASSUME NEW S, IsFiniteSet(S), NEW s \in SetToSeqs(S)
  PROVE  /\ s \in Seq(S)
         /\ Distinct(s)
         /\ Range(s) = S
<1> DEFINE D == 1..Cardinality(S)
<1>1. Cardinality(S) \in Nat
  BY FS_CardinalityType
<1>2. s \in [D -> S] /\ \A i, j \in D : i # j => s[i] # s[j]
  BY DEF SetToSeqs
<1>3. s \in Seq(S) /\ Len(s) = Cardinality(S) /\ DOMAIN s = D
  BY <1>1, <1>2, SeqDef
<1>4. Distinct(s)
  BY <1>2, <1>3 DEF Distinct
<1>5. s \in Injection(D, S)
  BY <1>2 DEF Injection, IsInjective
<1>6. IsFiniteSet(D) /\ Cardinality(D) = Cardinality(S)
  BY <1>1, FS_Interval
<1>7. s \in Surjection(D, S)
  BY <1>5, <1>6, FS_Injection
<1>8. Range(s) = S
  BY <1>2, <1>7 DEF Surjection, Range
<1> QED
  BY <1>3, <1>4, <1>8

-----------------------------------------------------------------------------
(***************************************************************************)
(* The inductive invariant.                                                *)
(***************************************************************************)

\* Where elaborate() is, what it has not begun yet and what nobody changes.
ControlInv ==
  /\ Range(models) = Port
  /\ frames # <<>> =>
       phase = "elaborating" /\ next <= Len(models) /\ frames[1].port = models[next]
  /\ phase = "construct" =>
       /\ next = 1
       /\ boundSignal = direct
       /\ \A p \in Port : exposed[p] = p
  /\ phase = "elaborated" => next = Len(models) + 1

\* The frames lead out of the hierarchy, one binding at a time.
FramesInv ==
  /\ \A i, j \in DOMAIN frames : i < j => Level[frames[j].port] < Level[frames[i].port]
  /\ \A p \in Port : \A i \in DOMAIN boundPorts[p] : Level[boundPorts[p][i]] < Level[p]
  /\ \A i \in 2..Len(frames) :
       /\ frames[i - 1].searched > 0
       /\ frames[i].port = boundPorts[frames[i - 1].port][frames[i - 1].searched]

\* A set of ports that have no signal and are bound to ports of the set only.
Closed(ps) ==
  \A r \in ps : direct[r] = None /\ \A i \in DOMAIN boundPorts[r] : boundPorts[r][i] \in ps

\* What resolve() has given to a port is the signal of one of its ports, and the ports before
\* that one cannot be connected.
BindingInv ==
  /\ \A p \in Port : direct[p] # None => boundSignal[p] = direct[p]
  /\ \A ps \in SUBSET Port : Closed(ps) => \A r \in ps : boundSignal[r] = None
  /\ \A p \in Port : direct[p] = None /\ boundSignal[p] # None =>
       \E i \in DOMAIN boundPorts[p] :
         /\ boundSignal[p] = boundSignal[boundPorts[p][i]]
         /\ \A j \in 1..(i - 1) : Unconnected(boundPorts[p][j])

\* What resolve() leaves behind.
Settled(p) == boundSignal[p] # None \/ Unconnected(p)

\* What has been searched without success cannot be connected, and neither can a port that is
\* finalized without a signal.
SearchInv ==
  /\ \A k \in DOMAIN frames : \A i \in 1..(frames[k].searched - 1) :
       Unconnected(boundPorts[frames[k].port][i])
  /\ frames # <<>> /\ Top.searched > 0 => Settled(Candidate)
  /\ \A k \in 1..(next - 1) : Settled(models[k])

\* A port shows its own events, then those of its signal, from the time it is finalized.
ExposedInv ==
  /\ \A p \in Port : exposed[p] = p \/ (boundSignal[p] # None /\ exposed[p] = boundSignal[p])
  /\ \A k \in 1..(next - 1) : boundSignal[models[k]] # None =>
       exposed[models[k]] = boundSignal[models[k]]

\* What x hears is what it asked for, seen through the ports that show their signal.
HearsInv ==
  \A x \in Process :
    /\ \A e \in staticEvents[x] :
         \/ e \in asked[x]
         \/ \E p \in Port : exposed[p] # p /\ <<p, e[2]>> \in asked[x] /\ e[1] = exposed[p]
    /\ x \notin completed => \A n \in Node, edge \in Edge : <<n, edge>> \in asked[x] =>
         <<IF n \in Port THEN exposed[n] ELSE n, edge>> \in staticEvents[x]
-----------------------------------------------------------------------------
(***************************************************************************)
(* The frames and what a call of resolve() does to them.                   *)
(***************************************************************************)
LEMMA FrontOf ==
  ASSUME NEW S, NEW s \in Seq(S), s # <<>>
  PROVE  /\ Front(s) \in Seq(S)
         /\ Len(Front(s)) = Len(s) - 1
         /\ \A i \in 1..(Len(s) - 1) : Front(s)[i] = s[i]
<1>1. Len(s) \in Nat \ {0} /\ s \in [1..Len(s) -> S]
  BY EmptySeq, LenProperties
<1>2. Front(s) = SubSeq(s, 1, Len(s) - 1)
  BY DEF Front
<1>3. Front(s) = [i \in 1..(Len(s) - 1) |-> s[i]]
  BY <1>1, <1>2, SubSeqProperties
<1> QED
  BY <1>1, <1>3

\* The innermost call, and what it is replaced by.
LEMMA TopFrame ==
  ASSUME TypeOK, frames # <<>>
  PROVE  /\ Len(frames) \in Nat \ {0}
         /\ DOMAIN frames = 1..Len(frames)
         /\ Top \in Frame
         /\ Top = frames[Len(frames)]
         /\ boundPorts[Top.port] \in Seq(Port)
         /\ Top.searched \in 0..Len(boundPorts[Top.port])
<1>1. frames \in Seq(Frame)
  BY DEF TypeOK
<1>2. Len(frames) \in Nat \ {0} /\ DOMAIN frames = 1..Len(frames) /\ frames[Len(frames)] \in Frame
  BY <1>1, EmptySeq, LenProperties
<1>3. Top \in Frame /\ Top.port \in Port /\ Top.searched \in Nat
  BY <1>2 DEF Top, Frame
<1>4. boundPorts[Top.port] \in Seq(Port)
  BY <1>3 DEF TypeOK
<1>5. Len(boundPorts[Top.port]) \in Nat
  BY <1>4, LenProperties
<1>6. Top.searched <= Len(boundPorts[Top.port])
  <2>1. \A i \in DOMAIN frames : frames[i].searched <= Len(boundPorts[frames[i].port])
    BY DEF TypeOK
  <2>2. frames[Len(frames)].searched <= Len(boundPorts[frames[Len(frames)].port])
    BY <1>2, <2>1
  <2> QED
    BY <2>2 DEF Top
<1> QED
  BY <1>2, <1>3, <1>4, <1>5, <1>6 DEF Top

LEMMA FrameFields ==
  ASSUME TypeOK
  PROVE  /\ Len(frames) \in Nat
         /\ DOMAIN frames = 1..Len(frames)
         /\ \A i \in 1..Len(frames) : frames[i].port \in Port /\ frames[i].searched \in Nat
<1>1. frames \in Seq(Frame)
  BY DEF TypeOK
<1>2. Len(frames) \in Nat /\ DOMAIN frames = 1..Len(frames) /\ frames \in [1..Len(frames) -> Frame]
  BY <1>1, LenProperties
<1>3. \A i \in 1..Len(frames) : frames[i] \in Frame
  BY <1>2
<1> QED
  BY <1>2, <1>3 DEF Frame

LEMMA CandidateIsPort ==
  ASSUME TypeOK, frames # <<>>, Top.searched > 0
  PROVE  /\ Top.searched \in DOMAIN boundPorts[Top.port]
         /\ Candidate = boundPorts[Top.port][Top.searched]
         /\ Candidate \in Port
<1>1. boundPorts[Top.port] \in Seq(Port) /\ Top.searched \in 0..Len(boundPorts[Top.port])
  BY TopFrame
<1>2. Top.searched \in 1..Len(boundPorts[Top.port])
  BY <1>1, LenProperties
<1> QED
  BY <1>1, <1>2, ElementOfSeq, LenProperties DEF Candidate

LEMMA DescendFrames ==
  ASSUME TypeOK, Descend
  PROVE  LET n == Len(frames)
             child == boundPorts[Top.port][Top.searched + 1]
         IN  /\ child \in Port
             /\ Top.searched + 1 \in DOMAIN boundPorts[Top.port]
             /\ frames' \in Seq(Frame)
             /\ Len(frames') = n + 1
             /\ DOMAIN frames' = 1..(n + 1)
             /\ \A i \in 1..(n - 1) : frames'[i] = frames[i]
             /\ frames'[n] = [port |-> Top.port, searched |-> Top.searched + 1]
             /\ frames'[n + 1] = [port |-> child, searched |-> 0]
<1> DEFINE n == Len(frames)
           f == [Top EXCEPT !.searched = @ + 1]
           child == boundPorts[Top.port][Top.searched + 1]
           g == [port |-> child, searched |-> 0]
<1>1. frames # <<>> /\ Top.searched < Len(boundPorts[Top.port])
  BY DEF Descend, Searching
<1>2. /\ n \in Nat \ {0} /\ DOMAIN frames = 1..n /\ Top \in Frame
      /\ boundPorts[Top.port] \in Seq(Port)
      /\ Top.searched \in 0..Len(boundPorts[Top.port])
  BY <1>1, TopFrame
<1>3. Top.searched + 1 \in DOMAIN boundPorts[Top.port] /\ child \in Port
  BY <1>1, <1>2, ElementOfSeq, LenProperties
<1>4. f = [port |-> Top.port, searched |-> Top.searched + 1] /\ f \in Frame /\ g \in Frame
  BY <1>2, <1>3 DEF Frame
<1>5. frames' = Append(SetTop(f), g)
  BY DEF Descend
<1>6. /\ SetTop(f) \in Seq(Frame) /\ Len(SetTop(f)) = n
      /\ SetTop(f)[n] = f
      /\ \A i \in 1..(n - 1) : SetTop(f)[i] = frames[i]
  <2>1. frames \in Seq(Frame)
    BY DEF TypeOK
  <2>2. SetTop(f) \in Seq(Frame) /\ Len(SetTop(f)) = n
    BY <1>2, <1>4, <2>1, ExceptSeq DEF SetTop
  <2>3. SetTop(f)[n] = f /\ \A i \in 1..(n - 1) : SetTop(f)[i] = frames[i]
    BY <1>2, <2>1 DEF SetTop
  <2> QED
    BY <2>2, <2>3
<1>7. /\ frames' \in Seq(Frame) /\ Len(frames') = n + 1
      /\ frames'[n + 1] = g
      /\ \A i \in 1..n : frames'[i] = SetTop(f)[i]
  BY <1>4, <1>5, <1>6, AppendProperties
<1>8. DOMAIN frames' = 1..(n + 1)
  BY <1>7, LenProperties
<1>9. n \in 1..n /\ \A i \in 1..(n - 1) : i \in 1..n
  BY <1>2
<1>10. frames'[n] = f /\ \A i \in 1..(n - 1) : frames'[i] = frames[i]
  BY <1>6, <1>7, <1>9
<1> QED
  BY <1>3, <1>4, <1>7, <1>8, <1>10

LEMMA ReturnFrames ==
  ASSUME TypeOK, Return
  PROVE  /\ frames # <<>>
         /\ frames' \in Seq(Frame)
         /\ Len(frames) \in Nat /\ Len(frames) > 1
         /\ Len(frames') = Len(frames) - 1
         /\ DOMAIN frames' = 1..(Len(frames) - 1)
         /\ \A i \in 1..(Len(frames) - 1) : frames'[i] = frames[i]
<1>1. frames \in Seq(Frame) /\ frames # <<>> /\ Len(frames) > 1 /\ frames' = Front(frames)
  BY DEF TypeOK, Return, Resolved
<1> QED
  BY <1>1, FrontOf, LenProperties
-----------------------------------------------------------------------------
(***************************************************************************)
(* Types and control.                                                      *)
(***************************************************************************)
TypeInv == TypeOK /\ ControlInv

LEMMA TypeInit == Init => TypeInv
<1> SUFFICES ASSUME Init PROVE TypeInv
  OBVIOUS
<1>1. models \in Seq(Port) /\ Range(models) = Port
  BY DesignAssumption, SetToSeqsElements DEF Init
<1>2. Len(models) \in Nat /\ next = 1
  BY <1>1, LenProperties DEF Init
<1>3. frames = <<>> /\ frames \in Seq(Frame) /\ DOMAIN frames = {}
  BY DEF Init
<1>4. TypeOK
  BY <1>1, <1>2, <1>3, BoundAssumption DEF Init, TypeOK, Event, Node
<1>5. ControlInv
  BY <1>1, <1>3 DEF Init, ControlInv
<1> QED
  BY <1>4, <1>5 DEF TypeInv

LEMMA TypeBind ==
  ASSUME TypeInv,
         \/ \E p \in Port, s \in Signal : BindSignal(p, s)
         \/ \E p, parent \in Port : BindPort(p, parent)
  PROVE  TypeInv'
<1> USE DEF TypeInv
<1>1. TypeOK /\ ControlInv /\ phase = "construct" /\ frames = <<>> /\ binds > 0
  BY DEF ControlInv, BindSignal, BindPort, MayBind
<1>2. DOMAIN frames = {}
  BY <1>1
<1>3. binds - 1 \in 0..MaxBinds
  BY <1>1, BoundAssumption DEF TypeOK
<1>4. ASSUME NEW p \in Port, NEW s \in Signal, BindSignal(p, s)
      PROVE  TypeInv'
  BY <1>1, <1>2, <1>3, <1>4 DEF BindSignal, elabVars, subVars, TypeOK, ControlInv
<1>5. ASSUME NEW p \in Port, NEW parent \in Port, BindPort(p, parent)
      PROVE  TypeInv'
  <2>1. Append(boundPorts[p], parent) \in Seq(Port)
    BY <1>1, AppendProperties DEF TypeOK
  <2>2. boundPorts' \in [Port -> Seq(Port)]
    BY <1>1, <1>5, <2>1 DEF BindPort, TypeOK
  <2> QED
    BY <1>1, <1>2, <1>3, <1>5, <2>2 DEF BindPort, elabVars, subVars, TypeOK, ControlInv
<1> QED
  BY <1>4, <1>5

LEMMA TypeAlways ==
  ASSUME TypeInv, NEW x \in Process, NEW n \in Node, NEW edge \in Edge, Always(x, n, edge)
  PROVE  TypeInv'
<1> DEFINE es == {<<IF n \in Port THEN exposed[n] ELSE n, edge>>}
<1>1. TypeOK /\ ControlInv
  BY DEF TypeInv
<1>2. es \subseteq Event
  BY <1>1 DEF TypeOK, Event
<1>3. Subscribe(x, es)
  BY DEF Always
<1>4. staticEvents' \in [Process -> SUBSET Event]
  BY <1>1, <1>2, <1>3 DEF Subscribe, TypeOK
<1>5. subscribers' \in [Event -> [Process -> Nat]]
  BY <1>1, <1>3 DEF Subscribe, TypeOK
<1>6. asked' \in [Process -> SUBSET Event]
  BY <1>1 DEF Always, TypeOK, Event
<1>7. items' \in 0..MaxAlways
  BY <1>1, BoundAssumption DEF Always, TypeOK
<1> QED
  BY <1>1, <1>4, <1>5, <1>6, <1>7 DEF Always, elabVars, bindVars, TypeInv, TypeOK, ControlInv

LEMMA TypeComplete ==
  ASSUME TypeInv, NEW x \in Process, Complete(x)
  PROVE  TypeInv'
<1>1. TypeOK /\ ControlInv
  BY DEF TypeInv
<1>2. staticEvents' \in [Process -> SUBSET Event]
  BY <1>1 DEF Complete, TypeOK
<1>3. subscribers' \in [Event -> [Process -> Nat]]
  BY <1>1 DEF Complete, Cancel, TypeOK
<1> QED
  BY <1>1, <1>2, <1>3 DEF Complete, elabVars, bindVars, TypeInv, TypeOK, ControlInv

LEMMA TypeHandOver ==
  ASSUME TypeOK, NEW p \in Port, NEW s \in Signal, HandOver(p, s)
  PROVE  /\ exposed' \in [Port -> Node]
         /\ staticEvents' \in [Process -> SUBSET Event]
         /\ subscribers' \in [Event -> [Process -> Nat]]
<1> DEFINE new(x) == {<<s, edge>> : edge \in {k \in Edge : subscribers[<<p, k>>][x] > 0}}
<1>1. ASSUME NEW x \in Process, NEW e \in new(x)
      PROVE  e \in Event
  <2>1. PICK edge \in Edge : e = <<s, edge>>
    BY <1>1
  <2> QED
    BY <2>1 DEF Event, Node
<1>2. staticEvents' = [x \in Process |-> staticEvents[x] \cup new(x)]
  BY DEF HandOver
<1>3. subscribers' = [e \in Event |-> [x \in Process |->
        IF e \in new(x) \ staticEvents[x] THEN subscribers[e][x] + 1 ELSE subscribers[e][x]]]
  BY DEF HandOver
<1> HIDE DEF new
<1>4. \A e \in Event, x \in Process : subscribers[e][x] \in Nat /\ subscribers[e][x] + 1 \in Nat
  BY DEF TypeOK
<1>5. exposed' \in [Port -> Node]
  BY DEF HandOver, TypeOK, Node
<1>6. staticEvents' \in [Process -> SUBSET Event]
  BY <1>1, <1>2 DEF TypeOK
<1>7. subscribers' \in [Event -> [Process -> Nat]]
  BY <1>3, <1>4
<1> QED
  BY <1>5, <1>6, <1>7

LEMMA TypeFinalize ==
  ASSUME TypeInv, Finalize
  PROVE  TypeInv'
<1> DEFINE s == boundSignal[Top.port]
<1>1. TypeOK /\ ControlInv
  BY DEF TypeInv
<1>2. frames # <<>> /\ Len(frames) = 1 /\ phase = "elaborating"
  BY <1>1 DEF Finalize, Resolved, ControlInv
<1>3. Top \in Frame /\ Top.port \in Port
  BY <1>1, <1>2, TopFrame DEF Frame
<1>4. s \in Signal \cup {None}
  BY <1>1, <1>3 DEF TypeOK
<1>5. /\ exposed' \in [Port -> Node]
      /\ staticEvents' \in [Process -> SUBSET Event]
      /\ subscribers' \in [Event -> [Process -> Nat]]
  <2>1. CASE s # None
    <3>1. HandOver(Top.port, s)
      BY <2>1 DEF Finalize
    <3> QED
      BY <1>1, <1>3, <1>4, <2>1, <3>1, TypeHandOver
  <2>2. CASE s = None
    BY <1>1, <2>2 DEF Finalize, subVars, TypeOK
  <2> QED
    BY <2>1, <2>2
<1>6. next' \in 1..(Len(models) + 1)
  <2>1. next <= Len(models) /\ next \in 1..(Len(models) + 1) /\ models \in Seq(Port)
    BY <1>1, <1>2 DEF ControlInv, TypeOK
  <2>2. Len(models) \in Nat
    BY <2>1, LenProperties
  <2> QED
    BY <2>1, <2>2 DEF Finalize
<1>7. frames' = <<>> /\ frames' \in Seq(Frame) /\ DOMAIN frames' = {}
  BY DEF Finalize
<1>8. UNCHANGED <<phase, models, bindVars, completed, items, asked>>
  BY DEF Finalize
<1> QED
  BY <1>1, <1>2, <1>5, <1>6, <1>7, <1>8 DEF bindVars, TypeInv, TypeOK, ControlInv

\* The steps of the search.
LEMMA TypeSearch ==
  ASSUME TypeInv, StartResolve \/ Descend \/ Adopt \/ Return
  PROVE  TypeInv'
<1>1. TypeOK /\ ControlInv
  BY DEF TypeInv
<1>2. CASE StartResolve
  <2> DEFINE f == [port |-> models[next], searched |-> 0]
  <2>1. models[next] \in Port
    BY <1>1, <1>2, ElementOfSeq DEF StartResolve, TypeOK
  <2>2. frames' = <<f>> /\ f \in Frame
    BY <1>2, <2>1 DEF StartResolve, Frame
  <2>3. frames' \in Seq(Frame) /\ DOMAIN frames' = {1} /\ frames'[1] = f
    BY <2>2
  <2>4. Len(boundPorts[models[next]]) \in Nat
    BY <1>1, <2>1, LenProperties DEF TypeOK
  <2>5. UNCHANGED <<phase, next, models, bindVars, exposed, subVars, completed, items, asked>>
    BY <1>2 DEF StartResolve
  <2>6. \A i \in DOMAIN frames' : frames'[i].searched <= Len(boundPorts'[frames'[i].port])
    BY <2>3, <2>4, <2>5 DEF bindVars
  <2>7. ControlInv'
    BY <1>1, <1>2, <2>3, <2>5 DEF StartResolve, bindVars, ControlInv
  <2> QED
    BY <1>1, <2>3, <2>5, <2>6, <2>7 DEF bindVars, subVars, TypeInv, TypeOK
<1>3. CASE Descend
  <2>1. UNCHANGED <<phase, next, models, bindVars, exposed, subVars, completed, items, asked>>
    BY <1>3 DEF Descend
  <2>2. frames # <<>> /\ Top.searched < Len(boundPorts[Top.port])
    BY <1>3 DEF Descend, Searching
  <2> DEFINE n == Len(frames)
  <2>3. /\ n \in Nat \ {0} /\ DOMAIN frames = 1..n /\ Top = frames[n] /\ Top \in Frame
        /\ boundPorts[Top.port] \in Seq(Port)
    BY <1>1, <2>2, TopFrame
  <2>4. /\ boundPorts[Top.port][Top.searched + 1] \in Port
        /\ frames' \in Seq(Frame) /\ DOMAIN frames' = 1..(n + 1)
        /\ \A i \in 1..(n - 1) : frames'[i] = frames[i]
        /\ frames'[n] = [port |-> Top.port, searched |-> Top.searched + 1]
        /\ frames'[n + 1] = [port |-> boundPorts[Top.port][Top.searched + 1], searched |-> 0]
    BY <1>1, <1>3, DescendFrames
  <2>5. \A p \in Port : Len(boundPorts[p]) \in Nat
    BY <1>1, LenProperties DEF TypeOK
  <2>6. \A i \in DOMAIN frames : frames[i].searched <= Len(boundPorts[frames[i].port])
    BY <1>1 DEF TypeOK
  <2>7. ASSUME NEW i \in DOMAIN frames'
        PROVE  frames'[i].searched <= Len(boundPorts'[frames'[i].port])
    <3>1. boundPorts' = boundPorts
      BY <2>1 DEF bindVars
    <3>2. CASE i = n + 1
      BY <2>4, <2>5, <3>1, <3>2
    <3>3. CASE i = n
      <4>1. Top.searched \in Nat /\ Top.port \in Port
        BY <2>3 DEF Frame
      <4> QED
        BY <2>2, <2>4, <2>5, <3>1, <3>3, <4>1
    <3>4. CASE i \in 1..(n - 1)
      BY <2>3, <2>4, <2>6, <3>1, <3>4
    <3> QED
      BY <2>3, <2>4, <3>2, <3>3, <3>4
  <2>8. frames'[1].port = frames[1].port
    BY <2>3, <2>4
  <2>9. ControlInv'
    BY <1>1, <2>1, <2>2, <2>8 DEF bindVars, ControlInv
  <2> QED
    BY <1>1, <2>1, <2>4, <2>7, <2>9 DEF bindVars, subVars, TypeInv, TypeOK
<1>4. CASE Adopt
  <2>1. frames # <<>> /\ Top.searched > 0
    BY <1>4 DEF Adopt
  <2>2. /\ Top \in Frame /\ boundPorts[Top.port] \in Seq(Port)
        /\ Top.searched \in 0..Len(boundPorts[Top.port])
    BY <1>1, <2>1, TopFrame
  <2>3. Candidate \in Port
    BY <2>1, <2>2, ElementOfSeq, LenProperties DEF Candidate
  <2>4. boundSignal' \in [Port -> Signal \cup {None}]
    BY <1>1, <1>4, <2>3 DEF Adopt, TypeOK
  <2>5. phase # "construct"
    BY <1>1, <2>1 DEF ControlInv
  <2> QED
    BY <1>1, <1>4, <2>4, <2>5 DEF Adopt, elabVars, subVars, TypeInv, TypeOK, ControlInv
<1>5. CASE Return
  <2>1. UNCHANGED <<phase, next, models, bindVars, exposed, subVars, completed, items, asked>>
    BY <1>5 DEF Return
  <2>2. /\ frames # <<>> /\ Len(frames) \in Nat /\ Len(frames) > 1
        /\ frames' \in Seq(Frame)
        /\ DOMAIN frames' = 1..(Len(frames) - 1)
        /\ \A i \in 1..(Len(frames) - 1) : frames'[i] = frames[i]
    BY <1>1, <1>5, ReturnFrames
  <2>3. \A i \in DOMAIN frames : frames[i].searched <= Len(boundPorts[frames[i].port])
    BY <1>1 DEF TypeOK
  <2>4. \A i \in 1..(Len(frames) - 1) : i \in DOMAIN frames
    BY <1>1, <2>2, LenProperties DEF TypeOK
  <2>5. \A i \in DOMAIN frames' : frames'[i].searched <= Len(boundPorts'[frames'[i].port])
    BY <2>1, <2>2, <2>3, <2>4 DEF bindVars
  <2>6. frames'[1] = frames[1]
    BY <2>2
  <2>7. ControlInv'
    BY <1>1, <2>1, <2>2, <2>6 DEF bindVars, ControlInv
  <2> QED
    BY <1>1, <2>1, <2>2, <2>5, <2>7 DEF bindVars, subVars, TypeInv, TypeOK
<1> QED
  BY <1>2, <1>3, <1>4, <1>5

\* The steps of elaborate() around the search.
LEMMA TypeElaborate ==
  ASSUME TypeInv, Elaborate \/ EndElaborate \/ Throw
  PROVE  TypeInv'
<1>1. TypeOK /\ ControlInv
  BY DEF TypeInv
<1>2. Len(models) \in Nat
  BY <1>1, LenProperties DEF TypeOK
<1>3. UNCHANGED <<frames, models, bindVars, exposed, subVars, completed, items, asked>>
  BY DEF Elaborate, EndElaborate, Throw
<1>4. frames = <<>>
  BY <1>1 DEF Elaborate, EndElaborate, Throw, ControlInv
<1>5. /\ phase' \in {"elaborating", "elaborated", "failed"}
      /\ next' \in 1..(Len(models) + 1)
      /\ phase' = "elaborated" => next' = Len(models) + 1
  BY <1>1, <1>2 DEF Elaborate, EndElaborate, Throw, TypeOK
<1>6. ControlInv'
  BY <1>1, <1>3, <1>4, <1>5 DEF ControlInv
<1> QED
  BY <1>1, <1>3, <1>5, <1>6 DEF bindVars, subVars, TypeInv, TypeOK

LEMMA TypeStep == TypeInv /\ [Next]_vars => TypeInv'
<1>1. ASSUME TypeInv, UNCHANGED vars
      PROVE  TypeInv'
  BY <1>1 DEF vars, elabVars, bindVars, subVars, TypeInv, TypeOK, ControlInv
<1> QED
  BY <1>1, TypeBind, TypeAlways, TypeComplete, TypeFinalize, TypeSearch, TypeElaborate
  DEF Next, Call, Elaborating

(***************************************************************************)
(* Elaboration keeps the types of its variables.                           *)
(***************************************************************************)
THEOREM ElaborationTypeCorrect == Spec => []TypeOK
<1>1. TypeInv => TypeOK
  BY DEF TypeInv
<1> QED
  BY <1>1, TypeInit, TypeStep, PTL DEF Spec
-----------------------------------------------------------------------------
(***************************************************************************)
(* The recursion of resolve().                                             *)
(***************************************************************************)
LEMMA FramesStep == TypeInv /\ FramesInv /\ [Next]_vars => FramesInv'
<1> SUFFICES ASSUME TypeInv, FramesInv, [Next]_vars PROVE FramesInv'
  OBVIOUS
<1>1. TypeOK /\ ControlInv
  BY DEF TypeInv
<1>2. \A p \in Port : boundPorts[p] \in Seq(Port)
  BY <1>1 DEF TypeOK
<1>3. CASE UNCHANGED <<frames, boundPorts>>
  BY <1>3 DEF FramesInv
<1>4. ASSUME frames' = <<>>, UNCHANGED boundPorts
      PROVE  FramesInv'
  BY <1>4 DEF FramesInv
<1>5. ASSUME NEW p \in Port, NEW parent \in Port, BindPort(p, parent)
      PROVE  FramesInv'
  <2>1. frames' = <<>>
    BY <1>1, <1>5 DEF BindPort, MayBind, elabVars, ControlInv
  <2>2. Level[parent] < Level[p] /\ boundPorts' = [boundPorts EXCEPT ![p] = Append(@, parent)]
    BY <1>5 DEF BindPort
  <2>3. ASSUME NEW q \in Port, NEW i \in DOMAIN boundPorts'[q]
        PROVE  Level[boundPorts'[q][i]] < Level[q]
    <3>1. CASE q # p
      <4>1. boundPorts'[q] = boundPorts[q]
        BY <1>1, <2>2, <3>1 DEF TypeOK
      <4> QED
        BY <2>3, <4>1 DEF FramesInv
    <3>2. CASE q = p
      <4>1. boundPorts'[q] = Append(boundPorts[p], parent)
        BY <1>1, <2>2, <3>2 DEF TypeOK
      <4>2. Len(boundPorts[p]) \in Nat /\ DOMAIN boundPorts[p] = 1..Len(boundPorts[p])
        BY <1>2, LenProperties
      <4>3. /\ DOMAIN boundPorts'[q] = 1..(Len(boundPorts[p]) + 1)
            /\ \A k \in 1..Len(boundPorts[p]) : boundPorts'[q][k] = boundPorts[p][k]
            /\ boundPorts'[q][Len(boundPorts[p]) + 1] = parent
        BY <1>2, <4>1, AppendProperties, LenProperties
      <4>4. CASE i = Len(boundPorts[p]) + 1
        BY <2>2, <3>2, <4>3, <4>4
      <4>5. CASE i \in 1..Len(boundPorts[p])
        BY <3>2, <4>2, <4>3, <4>5 DEF FramesInv
      <4> QED
        BY <2>3, <4>2, <4>3, <4>4, <4>5
    <3> QED
      BY <3>1, <3>2
  <2> QED
    BY <2>1, <2>3 DEF FramesInv
<1>6. CASE StartResolve
  <2>1. frames' = <<[port |-> models[next], searched |-> 0]>> /\ boundPorts' = boundPorts
    BY <1>6 DEF StartResolve, bindVars
  <2>2. DOMAIN frames' = {1} /\ Len(frames') = 1
    BY <2>1
  <2> QED
    BY <2>1, <2>2 DEF FramesInv
<1>7. CASE Descend
  <2> DEFINE n == Len(frames)
             child == boundPorts[Top.port][Top.searched + 1]
  <2>1. frames # <<>> /\ boundPorts' = boundPorts
    BY <1>7 DEF Descend, Searching, bindVars
  <2>2. /\ n \in Nat \ {0} /\ DOMAIN frames = 1..n /\ Top = frames[n] /\ Top \in Frame
    BY <1>1, <2>1, TopFrame
  <2>3. /\ child \in Port /\ Top.searched + 1 \in DOMAIN boundPorts[Top.port]
        /\ Len(frames') = n + 1 /\ DOMAIN frames' = 1..(n + 1)
        /\ \A i \in 1..(n - 1) : frames'[i] = frames[i]
        /\ frames'[n] = [port |-> Top.port, searched |-> Top.searched + 1]
        /\ frames'[n + 1] = [port |-> child, searched |-> 0]
    BY <1>1, <1>7, DescendFrames
  <2>4. \A i \in 1..n : frames'[i].port = frames[i].port /\ frames[i].port \in Port
    <3>1. \A i \in 1..n : frames[i].port \in Port
      BY <1>1, FrameFields
    <3> QED
      BY <2>2, <2>3, <3>1
  <2>5. Level[child] < Level[frames[n].port]
    BY <2>2, <2>3, <2>4 DEF FramesInv
  <2>6. ASSUME NEW i \in 1..(n + 1), NEW j \in 1..(n + 1), i < j
        PROVE  Level[frames'[j].port] < Level[frames'[i].port]
    <3>1. i \in 1..n
      BY <2>2, <2>6
    <3>2. CASE j \in 1..n
      BY <2>2, <2>4, <2>6, <3>1, <3>2 DEF FramesInv
    <3>3. CASE j = n + 1
      <4>1. frames'[j].port = child
        BY <2>3, <3>3
      <4>2. Level[frames[n].port] <= Level[frames[i].port]
        <5>1. Level[frames[n].port] \in Nat
          BY <2>2, <2>4, DesignAssumption
        <5>2. i = n \/ Level[frames[n].port] < Level[frames[i].port]
          <6>1. \A k, l \in DOMAIN frames : k < l => Level[frames[l].port] < Level[frames[k].port]
            BY DEF FramesInv
          <6> HIDE DEF n
          <6>2. i \in 1..n /\ n \in 1..n /\ (i = n \/ i < n)
            BY <2>2, <3>1
          <6> QED
            BY <2>2, <6>1, <6>2
        <5>3. Level[frames[i].port] \in Nat
          BY <2>4, <3>1, DesignAssumption
        <5> QED
          BY <5>1, <5>2, <5>3
      <4>3. Level[child] \in Nat /\ Level[frames[n].port] \in Nat /\ Level[frames[i].port] \in Nat
        BY <2>2, <2>3, <2>4, <3>1, DesignAssumption
      <4> QED
        BY <2>4, <2>5, <3>1, <4>1, <4>2, <4>3
    <3> QED
      BY <2>2, <2>6, <3>2, <3>3
  <2>7. ASSUME NEW i \in 2..(n + 1)
        PROVE  /\ frames'[i - 1].searched > 0
               /\ frames'[i].port = boundPorts[frames'[i - 1].port][frames'[i - 1].searched]
    <3>1. Top.searched \in Nat /\ Top.port \in Port
      BY <2>2 DEF Frame
    <3>2. CASE i = n + 1
      BY <2>2, <2>3, <3>1, <3>2
    <3>3. CASE i \in 2..n
      <4>1. i - 1 \in 1..(n - 1) /\ i \in 1..n
        BY <2>2, <3>3
      <4> QED
        BY <2>2, <2>3, <2>4, <3>3, <4>1 DEF FramesInv
    <3> QED
      BY <2>2, <3>2, <3>3
  <2> QED
    BY <2>1, <2>3, <2>6, <2>7 DEF FramesInv
<1>8. CASE Return
  <2>1. /\ Len(frames) \in Nat /\ Len(frames) > 1
        /\ Len(frames') = Len(frames) - 1
        /\ DOMAIN frames' = 1..(Len(frames) - 1)
        /\ \A i \in 1..(Len(frames) - 1) : frames'[i] = frames[i]
    BY <1>1, <1>8, ReturnFrames
  <2>2. DOMAIN frames = 1..Len(frames) /\ boundPorts' = boundPorts
    BY <1>1, <1>8, LenProperties DEF Return, bindVars, TypeOK
  <2>3. \A i \in 2..Len(frames') :
          i \in 2..Len(frames) /\ i \in 1..(Len(frames) - 1) /\ i - 1 \in 1..(Len(frames) - 1)
    BY <2>1
  <2>4. \A i, j \in DOMAIN frames' : i < j => Level[frames'[j].port] < Level[frames'[i].port]
    BY <2>1, <2>2 DEF FramesInv
  <2>5. \A i \in 2..Len(frames') :
          /\ frames'[i - 1].searched > 0
          /\ frames'[i].port = boundPorts[frames'[i - 1].port][frames'[i - 1].searched]
    <3>1. \A i \in 2..Len(frames) :
            /\ frames[i - 1].searched > 0
            /\ frames[i].port = boundPorts[frames[i - 1].port][frames[i - 1].searched]
      BY DEF FramesInv
    <3> QED
      BY <2>1, <2>3, <3>1
  <2> QED
    BY <2>2, <2>4, <2>5 DEF FramesInv
<1>9. ASSUME NEW p \in Port, NEW s \in Signal, BindSignal(p, s)
      PROVE  UNCHANGED <<frames, boundPorts>>
  BY <1>9 DEF BindSignal, elabVars
<1>10. ASSUME \/ \E x \in Process, n \in Node, edge \in Edge : Always(x, n, edge)
              \/ \E x \in Process : Complete(x)
              \/ Elaborate \/ Adopt \/ EndElaborate \/ Throw \/ UNCHANGED vars
       PROVE  UNCHANGED <<frames, boundPorts>>
  BY <1>10 DEF Always, Complete, Elaborate, Adopt, EndElaborate, Throw, vars, elabVars, bindVars
<1>11. ASSUME Finalize
       PROVE  frames' = <<>> /\ UNCHANGED boundPorts
  BY <1>11 DEF Finalize, bindVars
<1> QED
  BY <1>3, <1>4, <1>5, <1>6, <1>7, <1>8, <1>9, <1>10, <1>11 DEF Next, Call, Elaborating

(***************************************************************************)
(* resolve() is never called for a port that it is resolving.              *)
(***************************************************************************)
THEOREM ResolveNotReentered == Spec => []NotReentered
<1>1. Init => FramesInv
  BY DEF Init, FramesInv
<1>2. TypeInv /\ FramesInv => NotReentered
  <2> SUFFICES ASSUME TypeInv, FramesInv, NEW i \in DOMAIN frames, NEW j \in DOMAIN frames,
                      frames[i].port = frames[j].port
               PROVE  i = j
    BY DEF NotReentered
  <2>1. i \in Nat /\ j \in Nat /\ frames[i].port \in Port
    BY FrameFields DEF TypeInv
  <2>2. Level[frames[i].port] \in Nat
    BY <2>1, DesignAssumption
  <2>3. ~(i < j) /\ ~(j < i)
    BY <2>2 DEF FramesInv
  <2> QED
    BY <2>1, <2>3
<1> QED
  BY <1>1, <1>2, TypeInit, TypeStep, FramesStep, PTL DEF Spec
-----------------------------------------------------------------------------
(***************************************************************************)
(* Subscriptions.                                                          *)
(***************************************************************************)
LEMMA SubscribedStep == TypeInv /\ SubscribedOnce /\ [Next]_vars => SubscribedOnce'
<1> SUFFICES ASSUME TypeInv, SubscribedOnce, [Next]_vars PROVE SubscribedOnce'
  OBVIOUS
<1>1. TypeOK
  BY DEF TypeInv
<1>2. ASSUME NEW y \in Process, NEW es, Subscribe(y, es)
      PROVE  SubscribedOnce'
  BY <1>1, <1>2 DEF Subscribe, SubscribedOnce, TypeOK
<1>3. ASSUME NEW y \in Process, Complete(y)
      PROVE  SubscribedOnce'
  BY <1>1, <1>3 DEF Complete, Cancel, SubscribedOnce, TypeOK
<1>4. ASSUME NEW p, NEW s, HandOver(p, s)
      PROVE  SubscribedOnce'
  <2> DEFINE new(x) == {<<s, edge>> : edge \in {k \in Edge : subscribers[<<p, k>>][x] > 0}}
  <2>1. staticEvents' = [x \in Process |-> staticEvents[x] \cup new(x)]
    BY <1>4 DEF HandOver
  <2>2. subscribers' = [e \in Event |-> [x \in Process |->
          IF e \in new(x) \ staticEvents[x] THEN subscribers[e][x] + 1 ELSE subscribers[e][x]]]
    BY <1>4 DEF HandOver
  <2> HIDE DEF new
  <2> QED
    BY <2>1, <2>2 DEF SubscribedOnce
<1>5. CASE UNCHANGED subVars
  BY <1>5 DEF subVars, SubscribedOnce
<1>6. ASSUME \/ \E p \in Port, s \in Signal : BindSignal(p, s)
             \/ \E p, parent \in Port : BindPort(p, parent)
             \/ StartResolve \/ Descend \/ Adopt \/ Return \/ Elaborate \/ EndElaborate \/ Throw
             \/ UNCHANGED vars
      PROVE  UNCHANGED subVars
  BY <1>6 DEF BindSignal, BindPort, StartResolve, Descend, Adopt, Return, Elaborate,
              EndElaborate, Throw, vars
<1>7. ASSUME Finalize
      PROVE  SubscribedOnce'
  BY <1>4, <1>5, <1>7 DEF Finalize, subVars
<1>8. ASSUME NEW x \in Process, NEW n \in Node, NEW edge \in Edge, Always(x, n, edge)
      PROVE  SubscribedOnce'
  BY <1>2, <1>8 DEF Always
<1> QED
  BY <1>3, <1>5, <1>6, <1>7, <1>8 DEF Next, Call, Elaborating

(***************************************************************************)
(* No process is subscribed to an event twice, nor to one that it does not *)
(* know.                                                                   *)
(***************************************************************************)
THEOREM SubscriptionsCorrect == Spec => []SubscribedOnce
<1>1. Init => SubscribedOnce
  BY DEF Init, SubscribedOnce
<1> QED
  BY <1>1, TypeInit, TypeStep, SubscribedStep, PTL DEF Spec
-----------------------------------------------------------------------------
(***************************************************************************)
(* Chains of bindings.                                                     *)
(***************************************************************************)
LEMMA UnconnectedIsClosed ==
  ASSUME NEW p
  PROVE  Unconnected(p) <=> \E ps \in SUBSET Port : p \in ps /\ Closed(ps)
BY DEF Unconnected, Closed

LEMMA UnconnectedDown ==
  ASSUME NEW p, Unconnected(p)
  PROVE  /\ direct[p] = None
         /\ \A i \in DOMAIN boundPorts[p] : Unconnected(boundPorts[p][i])
<1>1. PICK ps \in SUBSET Port : p \in ps /\ Closed(ps)
  BY UnconnectedIsClosed
<1>2. direct[p] = None /\ \A i \in DOMAIN boundPorts[p] : boundPorts[p][i] \in ps
  BY <1>1 DEF Closed
<1>3. \A q \in ps : Unconnected(q)
  BY <1>1, UnconnectedIsClosed
<1> QED
  BY <1>2, <1>3

LEMMA UnconnectedUp ==
  ASSUME NEW p \in Port, boundPorts \in [Port -> Seq(Port)], direct[p] = None,
         \A i \in DOMAIN boundPorts[p] : Unconnected(boundPorts[p][i])
  PROVE  Unconnected(p)
<1> DEFINE U == {q \in Port : Unconnected(q)}
           ps == U \cup {p}
<1>1. ASSUME NEW q \in Port, NEW i \in DOMAIN boundPorts[q]
      PROVE  boundPorts[q][i] \in Port
  <2>1. boundPorts[q] \in Seq(Port)
    OBVIOUS
  <2>2. boundPorts[q] \in [DOMAIN boundPorts[q] -> Port]
    BY <2>1, LenProperties
  <2> QED
    BY <2>2
<1>2. ASSUME NEW r \in ps
      PROVE  direct[r] = None /\ \A i \in DOMAIN boundPorts[r] : boundPorts[r][i] \in ps
  <2>1. CASE r = p
    BY <1>1, <2>1
  <2>2. CASE r \in U
    <3>1. r \in Port /\ Unconnected(r)
      BY <2>2
    <3>2. direct[r] = None /\ \A i \in DOMAIN boundPorts[r] : Unconnected(boundPorts[r][i])
      BY <3>1, UnconnectedDown
    <3> QED
      BY <1>1, <3>1, <3>2
  <2> QED
    BY <2>1, <2>2
<1> HIDE DEF U
<1>3. Closed(ps) /\ p \in ps
  BY <1>2 DEF Closed
<1>4. ps \in SUBSET Port
  BY DEF U
<1> QED
  BY <1>3, <1>4, UnconnectedIsClosed

\* resolve() makes no bindings of its own.
LEMMA UnconnectedSame ==
  ASSUME UNCHANGED <<direct, boundPorts>>
  PROVE  /\ \A p : Unconnected(p)' <=> Unconnected(p)
         /\ \A ps : Closed(ps)' <=> Closed(ps)
BY DEF Unconnected, Closed

LEMMA UnconnectedUnbound ==
  ASSUME BindingInv, NEW p, Unconnected(p)
  PROVE  boundSignal[p] = None
BY UnconnectedIsClosed DEF BindingInv

\* When the innermost call returns, its port is bound or cannot be.
LEMMA ResolvedIsSettled ==
  ASSUME TypeInv, BindingInv, SearchInv, Resolved
  PROVE  Top.port \in Port /\ Settled(Top.port)
<1> DEFINE r == Top.port
<1>1. TypeOK /\ frames # <<>>
  BY DEF TypeInv, Resolved
<1>2. /\ Len(frames) \in Nat \ {0} /\ DOMAIN frames = 1..Len(frames) /\ Top = frames[Len(frames)]
      /\ Top \in Frame /\ boundPorts[r] \in Seq(Port) /\ Top.searched \in 0..Len(boundPorts[r])
  BY <1>1, TopFrame
<1>3. r \in Port
  BY <1>2 DEF Frame
<1>4. CASE boundSignal[r] # None
  BY <1>3, <1>4 DEF Settled
<1>5. ASSUME boundSignal[r] = None
      PROVE  Settled(r)
  <2>1. Top.searched = Len(boundPorts[r]) /\ (Top.searched > 0 => boundSignal[Candidate] = None)
    BY <1>5 DEF Resolved
  <2>2. direct[r] = None
    BY <1>3, <1>5 DEF BindingInv
  <2>3. Top.searched > 0 => Unconnected(Candidate)
    BY <1>1, <2>1 DEF SearchInv, Settled
  <2>4. \A i \in 1..(Top.searched - 1) : Unconnected(boundPorts[r][i])
    BY <1>2 DEF SearchInv
  <2>5. Len(boundPorts[r]) \in Nat /\ DOMAIN boundPorts[r] = 1..Len(boundPorts[r])
    BY <1>2, LenProperties
  <2>6. ASSUME NEW i \in DOMAIN boundPorts[r]
        PROVE  Unconnected(boundPorts[r][i])
    <3>1. CASE i = Top.searched
      BY <2>1, <2>3, <2>5, <3>1 DEF Candidate
    <3>2. CASE i # Top.searched
      <4>1. i \in 1..(Top.searched - 1)
        BY <2>1, <2>5, <3>2
      <4> QED
        BY <2>4, <4>1
    <3> QED
      BY <3>1, <3>2
  <2>7. boundPorts \in [Port -> Seq(Port)]
    BY <1>1 DEF TypeOK
  <2> QED
    BY <1>3, <2>2, <2>6, <2>7, UnconnectedUp DEF Settled
<1> QED
  BY <1>3, <1>4, <1>5

\* Every step but the bindings, which are made during construction, leaves the chains alone.
LEMMA ChainSteps ==
  ASSUME TypeInv, [Next]_vars
  PROVE  \/ phase' = "construct" /\ frames' = <<>> /\ next' = 1
         \/ UNCHANGED <<direct, boundPorts, models>> /\ (Adopt \/ UNCHANGED boundSignal)
<1>1. ASSUME \/ \E p \in Port, s \in Signal : BindSignal(p, s)
             \/ \E p, parent \in Port : BindPort(p, parent)
      PROVE  phase' = "construct" /\ frames' = <<>> /\ next' = 1
  BY <1>1 DEF BindSignal, BindPort, MayBind, elabVars, TypeInv, ControlInv
<1>2. ASSUME \/ \E x \in Process, n \in Node, edge \in Edge : Always(x, n, edge)
             \/ \E x \in Process : Complete(x)
             \/ Elaborate \/ EndElaborate \/ Throw \/ UNCHANGED vars
             \/ StartResolve \/ Descend \/ Return \/ Finalize
      PROVE  UNCHANGED <<direct, boundPorts, models, boundSignal>>
  BY <1>2 DEF Always, Complete, Elaborate, EndElaborate, Throw, StartResolve, Descend, Return,
              Finalize, vars, bindVars
<1>3. ASSUME Adopt
      PROVE  UNCHANGED <<direct, boundPorts, models>>
  BY <1>3 DEF Adopt
<1> QED
  BY <1>1, <1>2, <1>3 DEF Next, Call, Elaborating

\* During construction a port has the signal that was bound to it, if any.
LEMMA BindingConstruct == ControlInv /\ phase = "construct" => BindingInv
<1> SUFFICES ASSUME boundSignal = direct PROVE BindingInv
  BY DEF ControlInv
<1>1. ASSUME NEW ps, Closed(ps), NEW r \in ps
      PROVE  boundSignal[r] = None
  BY <1>1 DEF Closed
<1> QED
  BY <1>1 DEF BindingInv

LEMMA BindingStep == TypeInv /\ BindingInv /\ SearchInv /\ [Next]_vars => BindingInv'
<1> SUFFICES ASSUME TypeInv, BindingInv, SearchInv, [Next]_vars PROVE BindingInv'
  OBVIOUS
<1>1. CASE phase' = "construct"
  <2>1. ControlInv'
    BY TypeStep DEF TypeInv
  <2>2. (ControlInv /\ phase = "construct" => BindingInv)'
    BY BindingConstruct, PTL
  <2> QED
    BY <1>1, <2>1, <2>2
<1>2. CASE UNCHANGED <<direct, boundPorts, boundSignal>>
  <2>1. \A p : Unconnected(p)' <=> Unconnected(p)
    BY <1>2, UnconnectedSame
  <2>2. \A ps : Closed(ps)' <=> Closed(ps)
    BY <1>2, UnconnectedSame
  <2> QED
    BY <1>2, <2>1, <2>2 DEF BindingInv
<1>3. CASE Adopt /\ UNCHANGED <<direct, boundPorts>>
  <2> DEFINE r == Top.port
  <2>1. TypeOK /\ frames # <<>> /\ Top.searched > 0 /\ boundSignal[r] = None /\ boundSignal[Candidate] # None
    BY <1>3 DEF Adopt, TypeInv
  <2>2. /\ Len(frames) \in Nat \ {0} /\ DOMAIN frames = 1..Len(frames) /\ Top = frames[Len(frames)]
        /\ Top \in Frame /\ boundPorts[r] \in Seq(Port) /\ Top.searched \in 0..Len(boundPorts[r])
    BY <2>1, TopFrame
  <2>3. r \in Port /\ Top.searched \in DOMAIN boundPorts[r] /\ Candidate = boundPorts[r][Top.searched]
    BY <2>1, <2>2, LenProperties DEF Frame, Candidate
  <2>4. Candidate \in Port
    BY <2>2, <2>3, ElementOfSeq, LenProperties
  <2>5. /\ boundSignal' = [boundSignal EXCEPT ![r] = boundSignal[Candidate]]
        /\ boundSignal \in [Port -> Signal \cup {None}]
    BY <1>3, <2>1 DEF Adopt, TypeOK
  <2>6. /\ boundSignal'[r] = boundSignal[Candidate]
        /\ \A q \in Port : boundSignal[q] # None => boundSignal'[q] = boundSignal[q]
        /\ \A q \in Port : q # r => boundSignal'[q] = boundSignal[q]
    BY <2>1, <2>3, <2>5
  <2>7. \A p : Unconnected(p)' <=> Unconnected(p)
    BY <1>3, UnconnectedSame
  <2>8. \A ps : Closed(ps)' <=> Closed(ps)
    BY <1>3, UnconnectedSame
  <2>9. ASSUME NEW p \in Port, direct'[p] # None
        PROVE  boundSignal'[p] = direct'[p]
    BY <1>3, <2>6, <2>9 DEF BindingInv
  <2>10. ASSUME NEW ps \in SUBSET Port, Closed(ps), NEW q \in ps
         PROVE  boundSignal'[q] = None
    <3>1. \A o \in ps : boundSignal[o] = None
      BY <2>10 DEF BindingInv
    <3>2. r \notin ps
      <4>1. r \in ps => Candidate \in ps
        BY <2>3, <2>10 DEF Closed
      <4> QED
        BY <2>1, <3>1, <4>1
    <3> QED
      BY <2>6, <2>10, <3>1, <3>2
  <2>11. ASSUME NEW p \in Port, direct[p] = None, boundSignal'[p] # None
         PROVE  \E i \in DOMAIN boundPorts[p] :
                  /\ boundSignal'[p] = boundSignal'[boundPorts[p][i]]
                  /\ \A j \in 1..(i - 1) : Unconnected(boundPorts[p][j])
    <3>1. CASE p = r
      <4>1. boundSignal'[r] = boundSignal'[boundPorts[r][Top.searched]]
        BY <2>1, <2>3, <2>4, <2>6
      <4>2. \A j \in 1..(Top.searched - 1) : Unconnected(boundPorts[r][j])
        BY <2>2 DEF SearchInv
      <4> QED
        BY <2>3, <3>1, <4>1, <4>2
    <3>2. CASE p # r
      <4>1. boundSignal'[p] = boundSignal[p] /\ boundSignal[p] # None
        BY <2>6, <2>11, <3>2
      <4>2. PICK i \in DOMAIN boundPorts[p] :
              /\ boundSignal[p] = boundSignal[boundPorts[p][i]]
              /\ \A j \in 1..(i - 1) : Unconnected(boundPorts[p][j])
        BY <2>11, <4>1 DEF BindingInv
      <4>3. boundPorts[p][i] \in Port
        BY <2>1, ElementOfSeq, LenProperties DEF TypeOK
      <4>4. boundSignal'[boundPorts[p][i]] = boundSignal[boundPorts[p][i]]
        BY <2>6, <4>1, <4>2, <4>3
      <4> QED
        BY <4>1, <4>2, <4>4
    <3> QED
      BY <3>1, <3>2
  <2> QED
    BY <1>3, <2>7, <2>8, <2>9, <2>10, <2>11 DEF BindingInv
<1> QED
  BY <1>1, <1>2, <1>3, ChainSteps

LEMMA SearchStep ==
  TypeInv /\ FramesInv /\ BindingInv /\ SearchInv /\ [Next]_vars => SearchInv'
<1> SUFFICES ASSUME TypeInv, FramesInv, BindingInv, SearchInv, [Next]_vars PROVE SearchInv'
  OBVIOUS
<1>1. TypeOK /\ ControlInv /\ TypeOK'
  BY TypeStep DEF TypeInv
<1>2. CASE phase' = "construct" /\ frames' = <<>> /\ next' = 1
  BY <1>2 DEF SearchInv
<1>3. ASSUME UNCHANGED <<direct, boundPorts, models>>, Adopt \/ UNCHANGED boundSignal
      PROVE  SearchInv'
  <2>1. \A p : Unconnected(p)' <=> Unconnected(p)
    BY <1>3, UnconnectedSame
  <2>2. \A p \in Port : Settled(p) => Settled(p)'
    <3>1. \A p \in Port : boundSignal[p] # None => boundSignal'[p] = boundSignal[p]
      <4>1. CASE Adopt
        BY <1>1, <4>1 DEF Adopt, TypeOK
      <4> QED
        BY <1>3, <4>1
    <3> QED
      BY <2>1, <3>1 DEF Settled
  <2>3. \A k \in 1..(next - 1) : Settled(models[k])' /\ models'[k] = models[k]
    <3>1. next \in 1..(Len(models) + 1) /\ models \in Seq(Port) /\ Len(models) \in Nat
      BY <1>1, LenProperties DEF TypeOK
    <3>2. ASSUME NEW k \in 1..(next - 1)
          PROVE  Settled(models[k])' /\ models'[k] = models[k]
      <4>1. k \in 1..Len(models)
        BY <3>1
      <4>2. models[k] \in Port
        BY <3>1, <4>1, ElementOfSeq
      <4>3. Settled(models[k])
        BY DEF SearchInv
      <4>4. models'[k] = models[k]
        BY <1>3
      <4> QED
        BY <2>2, <4>2, <4>3, <4>4
    <3> QED
      BY <3>2
  <2>4. CASE UNCHANGED <<frames, next>>
    <3>1. frames # <<>> /\ Top.searched > 0 => Settled(Candidate)'
      <4>1. SUFFICES ASSUME frames # <<>>, Top.searched > 0 PROVE Settled(Candidate)'
        OBVIOUS
      <4>2. Candidate \in Port /\ Candidate' = Candidate
        BY <1>1, <1>3, <2>4, <4>1, CandidateIsPort DEF Candidate, Top
      <4>3. Settled(Candidate)
        BY <4>1 DEF SearchInv
      <4> QED
        BY <2>2, <4>2, <4>3
    <3> QED
      BY <1>3, <2>1, <2>3, <2>4, <3>1 DEF SearchInv, Top
  <2>5. CASE frames' = <<>> /\ next' = 1
    BY <2>5 DEF SearchInv
  <2>6. CASE StartResolve
    <3>1. frames' = <<[port |-> models[next], searched |-> 0]>> /\ next' = next
      BY <2>6 DEF StartResolve
    <3>2. frames'[1].searched = 0 /\ DOMAIN frames' = {1} /\ Top'.searched = 0
      BY <3>1 DEF Top
    <3> QED
      BY <2>3, <3>1, <3>2 DEF SearchInv
  <2>7. CASE Descend
    <3> DEFINE n == Len(frames)
    <3>1. /\ frames # <<>> /\ next' = next
          /\ Top.searched > 0 => boundSignal[Candidate] = None
      BY <2>7 DEF Descend, Searching
    <3>2. n \in Nat \ {0} /\ DOMAIN frames = 1..n /\ Top = frames[n] /\ Top.searched \in Nat
      BY <1>1, <3>1, TopFrame DEF Frame
    <3>3. /\ Len(frames') = n + 1 /\ DOMAIN frames' = 1..(n + 1)
          /\ \A i \in 1..(n - 1) : frames'[i] = frames[i]
          /\ frames'[n].port = Top.port /\ frames'[n].searched = Top.searched + 1
          /\ frames'[n + 1].searched = 0
      BY <1>1, <2>7, DescendFrames
    <3>4. Top'.searched = 0
      BY <3>3 DEF Top
    <3>5. Top.searched > 0 => Unconnected(Candidate)
      BY <3>1 DEF SearchInv, Settled
    <3>6. \A k \in 1..n : \A i \in 1..(frames[k].searched - 1) :
            Unconnected(boundPorts[frames[k].port][i])
      BY <3>2 DEF SearchInv
    <3>7. ASSUME NEW i \in 1..Top.searched
          PROVE  Unconnected(boundPorts[Top.port][i])
      <4>1. CASE i = Top.searched
        BY <3>2, <3>5, <4>1 DEF Candidate
      <4>2. CASE i \in 1..(Top.searched - 1)
        BY <3>2, <3>6, <4>2
      <4> QED
        BY <3>2, <4>1, <4>2
    <3>8. ASSUME NEW k \in DOMAIN frames', NEW i \in 1..(frames'[k].searched - 1)
          PROVE  Unconnected(boundPorts[frames'[k].port][i])
      <4>1. CASE k = n + 1
        BY <3>3, <4>1
      <4>2. CASE k = n
        BY <3>2, <3>3, <3>7, <4>2
      <4>3. CASE k \in 1..(n - 1)
        BY <3>2, <3>3, <3>6, <4>3
      <4> QED
        BY <3>2, <3>3, <4>1, <4>2, <4>3
    <3> QED
      BY <1>3, <2>1, <2>3, <3>1, <3>4, <3>8 DEF SearchInv
  <2>8. CASE Return
    <3> DEFINE n == Len(frames)
    <3>1. /\ frames # <<>> /\ n \in Nat /\ n > 1 /\ Len(frames') = n - 1
          /\ DOMAIN frames' = 1..(n - 1)
          /\ \A i \in 1..(n - 1) : frames'[i] = frames[i]
      BY <1>1, <2>8, ReturnFrames
    <3>2. DOMAIN frames = 1..n /\ Top = frames[n]
      BY <1>1, <3>1, TopFrame
    <3>3. Top.port \in Port /\ Settled(Top.port)
      BY <2>8, ResolvedIsSettled DEF Return
    <3>4. Top' = frames[n - 1]
      BY <3>1 DEF Top
    <3>5. frames[n].port = boundPorts[frames[n - 1].port][frames[n - 1].searched]
      BY <3>1 DEF FramesInv
    <3>6. Candidate' = Top.port
      BY <1>3, <3>2, <3>4, <3>5 DEF Candidate
    <3>7. Settled(Candidate)'
      BY <2>2, <3>3, <3>6
    <3>8. next' = next
      BY <2>8 DEF Return
    <3>9. ASSUME NEW k \in DOMAIN frames', NEW i \in 1..(frames'[k].searched - 1)
          PROVE  Unconnected(boundPorts[frames'[k].port][i])
      <4>1. k \in DOMAIN frames /\ frames'[k] = frames[k]
        BY <3>1, <3>2
      <4> QED
        BY <4>1 DEF SearchInv
    <3> QED
      BY <1>3, <2>1, <2>3, <3>7, <3>8, <3>9 DEF SearchInv
  <2>9. CASE Finalize
    <3>1. Resolved /\ Len(frames) = 1 /\ frames' = <<>> /\ next' = next + 1
      BY <2>9 DEF Finalize
    <3>2. frames # <<>> /\ Top.port = models[next] /\ next \in Nat
      BY <1>1, <3>1 DEF Resolved, Top, ControlInv, TypeOK
    <3>3. Top.port \in Port /\ Settled(Top.port)
      BY ResolvedIsSettled, <3>1
    <3>4. \A k \in 1..(next' - 1) : k = next \/ k \in 1..(next - 1)
      BY <3>1, <3>2
    <3>5. ASSUME NEW k \in 1..(next' - 1)
          PROVE  Settled(models[k])'
      <4>1. CASE k = next
        <5>1. models[k] \in Port /\ Settled(models[k]) /\ models'[k] = models[k]
          BY <1>3, <3>2, <3>3, <4>1
        <5> QED
          BY <2>2, <5>1
      <4>2. CASE k \in 1..(next - 1)
        BY <2>3, <4>2
      <4> QED
        BY <3>4, <4>1, <4>2
    <3> QED
      BY <3>1, <3>5 DEF SearchInv
  <2>10. ASSUME \/ \E x \in Process, n \in Node, edge \in Edge : Always(x, n, edge)
                \/ \E x \in Process : Complete(x)
                \/ Adopt \/ EndElaborate \/ UNCHANGED vars
         PROVE  UNCHANGED <<frames, next>>
    BY <2>10 DEF Always, Complete, Adopt, EndElaborate, vars, elabVars
  <2>11. ASSUME Elaborate \/ Throw
         PROVE  frames' = <<>> /\ next' = 1
    BY <1>1, <2>11 DEF Elaborate, Throw, ControlInv
  <2>12. ASSUME \/ \E p \in Port, s \in Signal : BindSignal(p, s)
                \/ \E p, parent \in Port : BindPort(p, parent)
         PROVE  phase' = "construct" /\ frames' = <<>> /\ next' = 1
    BY <1>1, <2>12 DEF BindSignal, BindPort, MayBind, elabVars, ControlInv
  <2> QED
    BY <1>2, <2>4, <2>5, <2>6, <2>7, <2>8, <2>9, <2>10, <2>11, <2>12 DEF Next, Call, Elaborating
<1> QED
  BY <1>2, <1>3, ChainSteps

BoundInv == TypeInv /\ FramesInv /\ BindingInv /\ SearchInv

LEMMA BoundAlways == Spec => []BoundInv
<1>1. Init => BoundInv
  <2> SUFFICES ASSUME Init PROVE BoundInv
    OBVIOUS
  <2>1. TypeInv /\ phase = "construct"
    BY TypeInit DEF Init
  <2>2. FramesInv /\ SearchInv
    BY DEF Init, FramesInv, SearchInv
  <2> QED
    BY <2>1, <2>2, BindingConstruct DEF TypeInv, BoundInv
<1>2. BoundInv /\ [Next]_vars => BoundInv'
  BY TypeStep, FramesStep, BindingStep, SearchStep DEF BoundInv
<1> QED
  BY <1>1, <1>2, PTL DEF Spec

\* After elaborate() every port has been finalized.
LEMMA ElaboratedSettled ==
  ASSUME BoundInv, phase = "elaborated", NEW p \in Port
  PROVE  /\ \E k \in 1..(next - 1) : models[k] = p
         /\ boundSignal[p] = None <=> Unconnected(p)
<1>1. /\ Range(models) = Port /\ next = Len(models) + 1
      /\ Len(models) \in Nat /\ DOMAIN models = 1..Len(models)
  BY LenProperties DEF BoundInv, TypeInv, ControlInv, TypeOK
<1>2. PICK k \in 1..Len(models) : models[k] = p
  BY <1>1 DEF Range
<1>3. k \in 1..(next - 1)
  BY <1>1
<1>4. boundSignal[p] # None \/ Unconnected(p)
  BY <1>2, <1>3 DEF BoundInv, SearchInv, Settled
<1> QED
  BY <1>2, <1>3, <1>4, UnconnectedUnbound DEF BoundInv

(***************************************************************************)
(* A port has no signal after elaborate() if and only if no chain of       *)
(* bindings leads from it to one.                                          *)
(***************************************************************************)
THEOREM PortsAreConnected == Spec => []ConnectedAreBound
<1>1. BoundInv => ConnectedAreBound
  BY ElaboratedSettled DEF ConnectedAreBound
<1> QED
  BY <1>1, BoundAlways, PTL

(***************************************************************************)
(* A port shows what was bound to it, or what the first of its ports that  *)
(* is connected shows.                                                     *)
(***************************************************************************)
THEOREM PortsAgree == Spec => []EndsAgree
<1>1. BoundInv => EndsAgree
  <2> SUFFICES ASSUME BoundInv, phase = "elaborated", NEW p \in Port
               PROVE  IF direct[p] # None THEN boundSignal[p] = direct[p]
                      ELSE \A i \in DOMAIN boundPorts[p] :
                        (\A j \in 1..(i - 1) : boundSignal[boundPorts[p][j]] = None) =>
                          \/ boundSignal[p] = boundSignal[boundPorts[p][i]]
                          \/ boundSignal[boundPorts[p][i]] = None
    BY DEF EndsAgree
  <2>1. CASE direct[p] # None
    BY <2>1 DEF BoundInv, BindingInv
  <2>2. ASSUME direct[p] = None, NEW i \in DOMAIN boundPorts[p],
               \A j \in 1..(i - 1) : boundSignal[boundPorts[p][j]] = None,
               boundSignal[boundPorts[p][i]] # None
        PROVE  boundSignal[p] = boundSignal[boundPorts[p][i]]
    <3>1. ~Unconnected(p)
      BY <2>2, UnconnectedDown, UnconnectedUnbound DEF BoundInv
    <3>2. boundSignal[p] # None
      BY <3>1, ElaboratedSettled
    <3>3. PICK k \in DOMAIN boundPorts[p] :
            /\ boundSignal[p] = boundSignal[boundPorts[p][k]]
            /\ \A j \in 1..(k - 1) : Unconnected(boundPorts[p][j])
      BY <2>2, <3>2 DEF BoundInv, BindingInv
    <3>4. \A j \in 1..(k - 1) : boundSignal[boundPorts[p][j]] = None
      BY <3>3, UnconnectedUnbound DEF BoundInv
    <3>5. boundPorts[p] \in Seq(Port)
      BY DEF BoundInv, TypeInv, TypeOK
    <3>6. i \in Nat \ {0} /\ k \in Nat \ {0}
      BY <3>5, LenProperties
    <3>7. i = k
      BY <2>2, <3>2, <3>3, <3>4, <3>6
    <3> QED
      BY <3>3, <3>7
  <2> QED
    BY <2>1, <2>2
<1> QED
  BY <1>1, BoundAlways, PTL
-----------------------------------------------------------------------------
(***************************************************************************)
(* What the processes hear.                                                *)
(***************************************************************************)
LEMMA FinalizeExposes ==
  ASSUME TypeInv, ExposedInv, Finalize
  PROVE  LET p == Top.port
         IN  /\ p \in Port /\ p = models[next] /\ next \in Nat /\ next' = next + 1
             /\ UNCHANGED <<boundSignal, models, asked, completed>>
             /\ boundSignal[p] = None => UNCHANGED <<exposed, subVars>>
             /\ boundSignal[p] # None =>
                  /\ boundSignal[p] \in Signal /\ HandOver(p, boundSignal[p])
                  /\ exposed'[p] = boundSignal[p]
                  /\ \A q \in Port : q # p => exposed'[q] = exposed[q]
<1> DEFINE p == Top.port
<1>1. TypeOK /\ ControlInv /\ frames # <<>> /\ Len(frames) = 1
  BY DEF TypeInv, Finalize, Resolved
<1>2. p \in Port /\ p = models[next]
  BY <1>1, TopFrame DEF ControlInv, Frame
<1>3. next \in Nat /\ boundSignal[p] \in Signal \cup {None} /\ exposed \in [Port -> Node]
  BY <1>1, <1>2 DEF TypeOK
<1>4. next' = next + 1 /\ UNCHANGED <<boundSignal, models, asked, completed>>
  BY DEF Finalize, bindVars
<1>5. boundSignal[p] = None => UNCHANGED <<exposed, subVars>>
  BY DEF Finalize
<1>6. boundSignal[p] # None => HandOver(p, boundSignal[p])
  BY DEF Finalize
<1>7. boundSignal[p] # None =>
        exposed'[p] = boundSignal[p] /\ \A q \in Port : q # p => exposed'[q] = exposed[q]
  BY <1>2, <1>3, <1>6 DEF HandOver
<1> QED
  BY <1>2, <1>3, <1>4, <1>5, <1>6, <1>7

LEMMA ExposedConstruct == ControlInv /\ phase = "construct" => ExposedInv
  BY DEF ControlInv, ExposedInv

LEMMA ExposedStep == BoundInv /\ ExposedInv /\ [Next]_vars => ExposedInv'
<1> SUFFICES ASSUME BoundInv, ExposedInv, [Next]_vars PROVE ExposedInv'
  OBVIOUS
<1>1. TypeInv /\ TypeOK /\ ControlInv /\ ControlInv'
  BY TypeStep DEF BoundInv, TypeInv
<1>2. \A k \in 1..(next - 1) : models[k] \in Port
  <2>1. next \in 1..(Len(models) + 1) /\ models \in Seq(Port) /\ Len(models) \in Nat
    BY <1>1, LenProperties DEF TypeOK
  <2>2. \A k \in 1..(next - 1) : k \in 1..Len(models)
    BY <2>1
  <2> QED
    BY <2>1, <2>2, ElementOfSeq
<1>3. CASE phase' = "construct"
  <2>1. (ControlInv /\ phase = "construct" => ExposedInv)'
    BY ExposedConstruct, PTL
  <2> QED
    BY <1>1, <1>3, <2>1
<1>4. CASE Finalize
  <2> DEFINE p == Top.port
  <2>1. /\ p \in Port /\ p = models[next] /\ next \in Nat /\ next' = next + 1
        /\ UNCHANGED <<boundSignal, models, asked, completed>>
        /\ boundSignal[p] = None => UNCHANGED <<exposed, subVars>>
        /\ boundSignal[p] # None =>
             /\ exposed'[p] = boundSignal[p]
             /\ \A q \in Port : q # p => exposed'[q] = exposed[q]
    BY <1>1, <1>4, FinalizeExposes
  <2> HIDE DEF p
  <2>2. \A k \in 1..(next' - 1) : k = next \/ k \in 1..(next - 1)
    BY <2>1
  <2>3. ASSUME NEW q \in Port
        PROVE  exposed'[q] = q \/ (boundSignal'[q] # None /\ exposed'[q] = boundSignal'[q])
    BY <2>1 DEF ExposedInv
  <2>4. ASSUME NEW k \in 1..(next' - 1), boundSignal'[models'[k]] # None
        PROVE  exposed'[models'[k]] = boundSignal'[models'[k]]
    <3>1. CASE k = next
      BY <2>1, <2>4, <3>1
    <3>2. CASE k \in 1..(next - 1)
      <4>1. exposed[models[k]] = boundSignal[models[k]]
        BY <2>1, <2>4, <3>2 DEF ExposedInv
      <4> QED
        BY <1>2, <2>1, <2>4, <3>2, <4>1
    <3> QED
      BY <2>2, <3>1, <3>2
  <2> QED
    BY <2>3, <2>4 DEF ExposedInv
<1>5. CASE UNCHANGED <<exposed, models, boundSignal>> /\ (next' = 1 \/ next' = next)
  BY <1>5 DEF ExposedInv
<1>6. CASE Adopt
  <2>1. UNCHANGED <<exposed, models, next, direct, boundPorts>>
    BY <1>6 DEF Adopt, elabVars
  <2>2. \A q \in Port : boundSignal[q] # None => boundSignal'[q] = boundSignal[q]
    BY <1>1, <1>6 DEF Adopt, TypeOK
  <2>3. ASSUME NEW k \in 1..(next - 1), boundSignal'[models[k]] # None
        PROVE  boundSignal[models[k]] # None
    <3>1. models[k] \in Port /\ Settled(models[k])
      BY <1>2 DEF BoundInv, SearchInv
    <3>2. ASSUME Unconnected(models[k])
          PROVE  FALSE
      <4> DEFINE p == models[k]
      <4>1. PICK ps \in SUBSET Port : p \in ps /\ Closed(ps)
        BY <3>2, UnconnectedIsClosed
      <4>2. Closed(ps)'
        BY <2>1, <4>1, UnconnectedSame
      <4>3. BindingInv'
        BY BindingStep DEF BoundInv
      <4>4. \A r \in ps : boundSignal'[r] = None
        BY <4>2, <4>3 DEF BindingInv
      <4> QED
        BY <2>3, <4>1, <4>4
    <3> QED
      BY <3>1, <3>2 DEF Settled
  <2>4. \A k \in 1..(next - 1) : boundSignal'[models[k]] # None =>
          exposed[models[k]] = boundSignal'[models[k]]
    BY <1>2, <2>2, <2>3 DEF ExposedInv
  <2> QED
    BY <2>1, <2>2, <2>4 DEF ExposedInv
<1>7. ASSUME \/ \E p \in Port, s \in Signal : BindSignal(p, s)
             \/ \E p, parent \in Port : BindPort(p, parent)
      PROVE  phase' = "construct"
  BY <1>7 DEF BindSignal, BindPort, MayBind, elabVars
<1>8. ASSUME \/ \E x \in Process, n \in Node, edge \in Edge : Always(x, n, edge)
             \/ \E x \in Process : Complete(x)
             \/ StartResolve \/ Descend \/ Return \/ Elaborate \/ EndElaborate \/ Throw
             \/ UNCHANGED vars
      PROVE  UNCHANGED <<exposed, models, boundSignal>> /\ (next' = 1 \/ next' = next)
  BY <1>8 DEF Always, Complete, StartResolve, Descend, Return, Elaborate, EndElaborate, Throw,
              vars, elabVars, bindVars
<1> QED
  BY <1>3, <1>4, <1>5, <1>6, <1>7, <1>8 DEF Next, Call, Elaborating

\* A port that does not expose its own events exposes those of its signal.
LEMMA ExposedSignal ==
  ASSUME TypeOK, ExposedInv, NEW p \in Port, exposed[p] # p
  PROVE  exposed[p] = boundSignal[p] /\ exposed[p] \in Signal
BY DEF TypeOK, ExposedInv

LEMMA HearsAlways ==
  ASSUME TypeOK, HearsInv,
         NEW y \in Process, NEW n \in Node, NEW edge \in Edge, Always(y, n, edge)
  PROVE  HearsInv'
<1> DEFINE m == IF n \in Port THEN exposed[n] ELSE n
<1>1. UNCHANGED <<exposed, completed>>
  BY DEF Always
<1>2. \A x \in Process : asked'[x] = IF x = y THEN asked[x] \cup {<<n, edge>>} ELSE asked[x]
  BY DEF Always, TypeOK
<1>3. \A x \in Process :
        staticEvents'[x] = IF x = y THEN staticEvents[x] \cup {<<m, edge>>} ELSE staticEvents[x]
  BY DEF Always, Subscribe, TypeOK
<1> HIDE DEF m
<1>4. ASSUME NEW x \in Process, NEW e \in staticEvents'[x]
      PROVE  \/ e \in asked'[x]
             \/ \E p \in Port : exposed[p] # p /\ <<p, e[2]>> \in asked'[x] /\ e[1] = exposed[p]
  <2>1. CASE e \in staticEvents[x]
    BY <1>2, <2>1 DEF HearsInv
  <2>2. CASE x = y /\ e = <<m, edge>>
    <3>1. <<n, edge>> \in asked'[x]
      BY <1>2, <2>2
    <3>2. e[1] = m /\ e[2] = edge
      BY <2>2
    <3>3. m = n \/ (n \in Port /\ m = exposed[n])
      BY DEF m
    <3> QED
      BY <2>2, <3>1, <3>2, <3>3
  <2> QED
    BY <1>3, <1>4, <2>1, <2>2
<1>5. ASSUME NEW x \in Process, x \notin completed, NEW o \in Node, NEW k \in Edge,
             <<o, k>> \in asked'[x]
      PROVE  <<IF o \in Port THEN exposed[o] ELSE o, k>> \in staticEvents'[x]
  <2>1. CASE <<o, k>> \in asked[x]
    BY <1>3, <1>5, <2>1 DEF HearsInv
  <2>2. CASE x = y /\ o = n /\ k = edge
    BY <1>3, <2>2 DEF m
  <2>3. <<o, k>> \in asked[x] \/ (x = y /\ <<o, k>> = <<n, edge>>)
    BY <1>2, <1>5
  <2>4. <<o, k>> = <<n, edge>> => o = n /\ k = edge
    OBVIOUS
  <2> QED
    BY <2>1, <2>2, <2>3, <2>4
<1> QED
  BY <1>1, <1>4, <1>5 DEF HearsInv

LEMMA HearsFinalize ==
  ASSUME TypeInv, ExposedInv, SubscribedOnce, HearsInv, Finalize
  PROVE  HearsInv'
<1> DEFINE p == Top.port
           s == boundSignal[p]
           new(x) == {<<s, edge>> : edge \in {k \in Edge : subscribers[<<p, k>>][x] > 0}}
<1>1. /\ p \in Port
      /\ UNCHANGED <<boundSignal, asked, completed>>
      /\ s = None => UNCHANGED <<exposed, subVars>>
      /\ s # None =>
           /\ s \in Signal /\ HandOver(p, s)
           /\ exposed'[p] = s
           /\ \A q \in Port : q # p => exposed'[q] = exposed[q]
  BY FinalizeExposes
<1>2. TypeOK
  BY DEF TypeInv
<1>3. CASE s = None
  BY <1>1, <1>3 DEF subVars, HearsInv
<1>4. ASSUME s # None
      PROVE  HearsInv'
  <2>1. s \in Signal /\ s # p
    BY <1>1, <1>4, DesignAssumption
  <2>2. \A x \in Process : staticEvents'[x] = staticEvents[x] \cup new(x)
    BY <1>1, <1>4 DEF HandOver
  <2>3. \A k \in Edge, x \in Process : subscribers[<<p, k>>][x] > 0 <=> <<p, k>> \in staticEvents[x]
    <3>1. \A k \in Edge : <<p, k>> \in Event
      BY <1>1 DEF Event, Node
    <3> QED
      BY <3>1 DEF SubscribedOnce
  <2>4. /\ exposed'[p] = s
        /\ \A q \in Port : q # p => exposed'[q] = exposed[q]
        /\ exposed[p] # p => exposed[p] = s
    BY <1>1, <1>2, <1>4, ExposedSignal
  <2>5. ASSUME NEW x \in Process, NEW k \in Edge
        PROVE  <<s, k>> \in new(x) <=> <<p, k>> \in staticEvents[x]
    BY <2>3
  <2>6. ASSUME NEW x \in Process, NEW e \in new(x)
        PROVE  \E k \in Edge : e = <<s, k>>
    BY <2>6
  <2> HIDE DEF new, s, p
  <2>7. ASSUME NEW x \in Process, NEW e \in staticEvents'[x]
        PROVE  \/ e \in asked[x]
               \/ \E q \in Port : exposed'[q] # q /\ <<q, e[2]>> \in asked[x] /\ e[1] = exposed'[q]
    <3>1. CASE e \in staticEvents[x]
      <4>1. SUFFICES ASSUME NEW q \in Port, exposed[q] # q, <<q, e[2]>> \in asked[x], e[1] = exposed[q]
                     PROVE  exposed'[q] # q /\ e[1] = exposed'[q]
        BY <3>1 DEF HearsInv
      <4> QED
        BY <2>1, <2>4, <4>1
    <3>2. CASE e \in new(x)
      <4>1. PICK k \in Edge : e = <<s, k>>
        BY <2>6, <3>2
      <4>2. <<p, k>> \in staticEvents[x]
        BY <2>5, <3>2, <4>1
      <4>3. ASSUME NEW q \in Port, exposed[q] # q
            PROVE  exposed[q] # p
        BY <1>1, <1>2, <4>3, ExposedSignal, DesignAssumption
      <4>4. <<p, k>> \in asked[x]
        <5>1. \/ <<p, k>> \in asked[x]
              \/ \E q \in Port : exposed[q] # q /\ <<p, k>>[1] = exposed[q]
          BY <4>2 DEF HearsInv
        <5> QED
          BY <4>3, <5>1
      <4>5. e[1] = s /\ e[2] = k
        BY <4>1
      <4> QED
        BY <1>1, <2>1, <2>4, <4>4, <4>5
    <3> QED
      BY <2>2, <2>7, <3>1, <3>2
  <2>8. ASSUME NEW x \in Process, x \notin completed, NEW n \in Node, NEW k \in Edge,
               <<n, k>> \in asked[x]
        PROVE  <<IF n \in Port THEN exposed'[n] ELSE n, k>> \in staticEvents'[x]
    <3>1. <<IF n \in Port THEN exposed[n] ELSE n, k>> \in staticEvents[x]
      BY <2>8 DEF HearsInv
    <3>2. CASE n = p /\ exposed[p] = p
      <4>1. <<p, k>> \in staticEvents[x]
        BY <1>1, <3>1, <3>2
      <4>2. <<s, k>> \in staticEvents'[x]
        BY <2>2, <2>5, <4>1
      <4> QED
        BY <1>1, <2>4, <3>2, <4>2
    <3>3. CASE ~(n = p /\ exposed[p] = p)
      <4>1. n \in Port => exposed'[n] = exposed[n]
        BY <2>4, <3>3
      <4> QED
        BY <2>2, <3>1, <4>1
    <3> QED
      BY <3>2, <3>3
  <2> QED
    BY <1>1, <2>7, <2>8 DEF HearsInv
<1> QED
  BY <1>3, <1>4

LEMMA HearsStep ==
  TypeInv /\ ExposedInv /\ SubscribedOnce /\ HearsInv /\ [Next]_vars => HearsInv'
<1> SUFFICES ASSUME TypeInv, ExposedInv, SubscribedOnce, HearsInv, [Next]_vars PROVE HearsInv'
  OBVIOUS
<1>1. TypeOK
  BY DEF TypeInv
<1>2. CASE UNCHANGED <<exposed, staticEvents, asked, completed>>
  BY <1>2 DEF HearsInv
<1>3. ASSUME NEW y \in Process, Complete(y)
      PROVE  HearsInv'
  <2>1. UNCHANGED <<exposed, asked>> /\ completed' = completed \cup {y}
    BY <1>3 DEF Complete
  <2>2. \A x \in Process : staticEvents'[x] = IF x = y THEN {} ELSE staticEvents[x]
    BY <1>1, <1>3 DEF Complete, TypeOK
  <2> QED
    BY <2>1, <2>2 DEF HearsInv
<1>4. ASSUME \/ \E p \in Port, s \in Signal : BindSignal(p, s)
             \/ \E p, parent \in Port : BindPort(p, parent)
             \/ StartResolve \/ Descend \/ Adopt \/ Return \/ Elaborate \/ EndElaborate \/ Throw
             \/ UNCHANGED vars
      PROVE  UNCHANGED <<exposed, staticEvents, asked, completed>>
  BY <1>4 DEF BindSignal, BindPort, StartResolve, Descend, Adopt, Return, Elaborate,
              EndElaborate, Throw, vars, subVars
<1> QED
  BY <1>1, <1>2, <1>3, <1>4, HearsAlways, HearsFinalize DEF Next, Call, Elaborating

(***************************************************************************)
(* After elaborate() every process hears the signals that the ports of its *)
(* sensitivity list show, and nothing else.                                *)
(***************************************************************************)
THEOREM SubscribersHandedOver == Spec => []HearsWhatItAskedFor
<1>1. Init => ExposedInv /\ HearsInv /\ SubscribedOnce
  BY DEF Init, ExposedInv, HearsInv, SubscribedOnce
<1>2. ASSUME BoundInv, ExposedInv, HearsInv
      PROVE  HearsWhatItAskedFor
  <2> SUFFICES ASSUME phase = "elaborated", NEW x \in Process, x \notin completed
               PROVE  staticEvents[x] \cap (Signal \X Edge)
                        = {<<Shown(a[1]), a[2]>> : a \in {b \in asked[x] : Shown(b[1]) # None}}
    BY DEF HearsWhatItAskedFor
  <2> DEFINE Heard == {<<Shown(a[1]), a[2]>> : a \in {b \in asked[x] : Shown(b[1]) # None}}
  <2>1. TypeOK /\ asked[x] \subseteq Node \X Edge
    BY <1>2 DEF BoundInv, TypeInv, TypeOK, Event
  <2>2. ASSUME NEW p \in Port, boundSignal[p] # None
        PROVE  exposed[p] = boundSignal[p] /\ exposed[p] \in Signal
    <3>1. PICK k \in 1..(next - 1) : models[k] = p
      BY <1>2, ElaboratedSettled
    <3>2. exposed[p] = boundSignal[p]
      BY <1>2, <2>2, <3>1 DEF ExposedInv
    <3> QED
      BY <2>1, <2>2, <3>2 DEF TypeOK
  <2>3. ASSUME NEW e \in staticEvents[x], e \in Signal \X Edge
        PROVE  e \in Heard
    <3>1. e = <<e[1], e[2]>> /\ e[1] \in Signal /\ e[1] \notin Port /\ e[1] # None
      BY <2>3, DesignAssumption
    <3>2. CASE e \in asked[x]
      BY <3>1, <3>2 DEF Shown
    <3>3. ASSUME NEW p \in Port, exposed[p] # p, <<p, e[2]>> \in asked[x], e[1] = exposed[p]
          PROVE  e \in Heard
      <4>1. Shown(p) = e[1]
        BY <1>2, <2>1, <3>3, ExposedSignal DEF Shown
      <4> DEFINE a == <<p, e[2]>>
      <4>2. a \in asked[x] /\ a[1] = p /\ a[2] = e[2]
        BY <3>3
      <4>3. e = <<Shown(a[1]), a[2]>> /\ Shown(a[1]) # None
        BY <3>1, <4>1, <4>2
      <4> HIDE DEF a
      <4> QED
        BY <4>2, <4>3
    <3> QED
      BY <1>2, <3>2, <3>3 DEF HearsInv
  <2>4. ASSUME NEW a \in asked[x], Shown(a[1]) # None
        PROVE  <<Shown(a[1]), a[2]>> \in staticEvents[x] \cap (Signal \X Edge)
    <3>1. a[1] \in Node /\ a[2] \in Edge /\ a = <<a[1], a[2]>>
      BY <2>1
    <3>2. <<IF a[1] \in Port THEN exposed[a[1]] ELSE a[1], a[2]>> \in staticEvents[x]
      BY <1>2, <2>4, <3>1 DEF HearsInv
    <3>3. Shown(a[1]) \in Signal /\ Shown(a[1]) = IF a[1] \in Port THEN exposed[a[1]] ELSE a[1]
      BY <2>2, <2>4, <3>1 DEF Shown, Node
    <3> QED
      BY <3>1, <3>2, <3>3
  <2> HIDE DEF Heard
  <2>5. staticEvents[x] \cap (Signal \X Edge) \subseteq Heard
    BY <2>3
  <2>6. Heard \subseteq staticEvents[x] \cap (Signal \X Edge)
    BY <2>4 DEF Heard
  <2> QED
    BY <2>5, <2>6 DEF Heard
<1>3. BoundInv => TypeInv
  BY DEF BoundInv
<1> QED
  BY <1>1, <1>2, <1>3, BoundAlways, ExposedStep, SubscribedStep, HearsStep, PTL DEF Spec
=============================================================================
