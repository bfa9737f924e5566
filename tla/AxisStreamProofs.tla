-------------------------- MODULE AxisStreamProofs --------------------------
(***************************************************************************)
(* The source offers the front of its queue, and source and sink are a     *)
(* lossless queue: for any data, coroutines, period and timeouts.          *)
(***************************************************************************)
EXTENDS AxisStream, SequenceTheorems, TLAPS

\* What the bus shows, the modules have driven, except at an edge once they have evaluated.
BusDriven ==
  /\ round # "edge" => todo = {} /\ bus = drive
  /\ "tx" \in todo => bus.valid = drive.valid /\ bus.data = drive.data
  /\ "rx" \in todo => bus.ready = drive.ready

\* A wait with a timeout has time left, and so has the wait of the clock.
TimeLeft ==
  /\ \A p \in Coroutine : state[p] = "waiting" /\ timed[p] => left[p] > 0
  /\ round # "first" => toToggle > 0

AxisInv == TypeOK /\ OffersFront /\ BusDriven /\ TimeLeft
-----------------------------------------------------------------------------
(***************************************************************************)
(* Sequences.                                                              *)
(***************************************************************************)
LEMMA AppendFacts ==
  ASSUME NEW S, NEW s \in Seq(S), NEW x \in S
  PROVE  /\ Append(s, x) \in Seq(S)
         /\ Append(s, x) # <<>>
         /\ s # <<>> => Head(Append(s, x)) = Head(s)
         /\ s # <<>> => Tail(Append(s, x)) = Append(Tail(s), x)
<1>1. /\ Append(s, x) \in Seq(S) /\ Len(Append(s, x)) = Len(s) + 1 /\ Len(s) \in Nat
      /\ \A i \in 1..Len(s) : Append(s, x)[i] = s[i]
      /\ Append(s, x)[Len(s) + 1] = x
  BY AppendProperties, LenProperties
<1>2. Append(s, x) # <<>>
  BY <1>1, EmptySeq
<1>3. ASSUME s # <<>>
      PROVE  /\ Head(Append(s, x)) = Head(s)
             /\ Tail(Append(s, x)) = Append(Tail(s), x)
  <2>1. Len(s) >= 1
    BY <1>1, <1>3, EmptySeq
  <2>2. Head(Append(s, x)) = Head(s)
    BY <1>1, <2>1
  <2>3. /\ Tail(s) \in Seq(S) /\ Len(Tail(s)) = Len(s) - 1
        /\ \A i \in 1..(Len(s) - 1) : Tail(s)[i] = s[i + 1]
    BY <1>3, <2>1, HeadTailProperties, LenProperties
  <2>4. /\ Tail(Append(s, x)) \in Seq(S) /\ Len(Tail(Append(s, x))) = Len(s)
        /\ \A i \in 1..Len(s) : Tail(Append(s, x))[i] = Append(s, x)[i + 1]
    BY <1>1, <1>2, HeadTailProperties, LenProperties
  <2>5. /\ Append(Tail(s), x) \in Seq(S) /\ Len(Append(Tail(s), x)) = Len(s)
        /\ \A i \in 1..(Len(s) - 1) : Append(Tail(s), x)[i] = s[i + 1]
        /\ Append(Tail(s), x)[Len(s)] = x
    BY <1>1, <2>1, <2>3, AppendProperties
  <2>6. \A i \in 1..Len(s) : Tail(Append(s, x))[i] = Append(Tail(s), x)[i]
    <3> TAKE i \in 1..Len(s)
    <3>1. CASE i = Len(s)
      BY <1>1, <2>4, <2>5, <3>1
    <3>2. CASE i # Len(s)
      <4>1. i \in 1..(Len(s) - 1) /\ i + 1 \in 1..Len(s)
        BY <1>1, <3>2
      <4> QED
        BY <1>1, <2>4, <2>5, <4>1
    <3> QED
      BY <3>1, <3>2
  <2>7. Tail(Append(s, x)) = Append(Tail(s), x)
    BY <2>4, <2>5, <2>6, SeqEqual
  <2> QED
    BY <2>2, <2>7
<1> QED
  BY <1>1, <1>2, <1>3

LEMMA HeadTailType ==
  ASSUME NEW S, NEW s \in Seq(S), s # <<>>
  PROVE  Head(s) \in S /\ Tail(s) \in Seq(S)
OBVIOUS

\* What is left of a sequence without its first elements.
LEMMA DropFacts ==
  ASSUME NEW S, NEW s \in Seq(S), NEW x \in S, NEW n \in 0..Len(s)
  PROVE  /\ SubSeq(s, n + 1, Len(s)) \in Seq(S)
         /\ n = 0 => SubSeq(s, n + 1, Len(s)) = s
         /\ SubSeq(Append(s, x), n + 1, Len(Append(s, x)))
              = Append(SubSeq(s, n + 1, Len(s)), x)
<1>0. Len(s) \in Nat /\ DOMAIN s = 1..Len(s) /\ n \in Nat /\ n <= Len(s)
  BY LenProperties
<1> DEFINE t == Append(s, x)
           r == SubSeq(s, n + 1, Len(s))
           u == SubSeq(t, n + 1, Len(t))
           v == Append(r, x)
<1>1. /\ t \in Seq(S) /\ Len(t) = Len(s) + 1
      /\ \A i \in 1..Len(s) : t[i] = s[i]
      /\ t[Len(s) + 1] = x
  BY <1>0, AppendProperties
<1>2. /\ r \in Seq(S) /\ Len(r) = Len(s) - n
      /\ \A i \in 1..(Len(s) - n) : r[i] = s[n + i]
  <2>1. \A i \in (n + 1)..Len(s) : s[i] \in S
    BY <1>0, ElementOfSeq
  <2>2. /\ r \in Seq(S)
        /\ Len(r) = IF n + 1 <= Len(s) THEN Len(s) - (n + 1) + 1 ELSE 0
        /\ \A i \in 1..(Len(s) - (n + 1) + 1) : r[i] = s[n + 1 + i - 1]
    BY <1>0, <2>1, SubSeqProperties
  <2> HIDE DEF r
  <2>3. Len(r) = Len(s) - n
    <3>1. CASE n + 1 <= Len(s)
      BY <1>0, <2>2, <3>1
    <3>2. CASE ~(n + 1 <= Len(s))
      <4>1. Len(s) - n = 0
        <5>1. \A k, m \in Nat : m <= k /\ ~(m + 1 <= k) => k - m = 0
          OBVIOUS
        <5> QED
          BY <1>0, <3>2, <5>1
      <4> QED
        BY <2>2, <3>2, <4>1
    <3> QED
      BY <3>1, <3>2
  <2>4. \A i \in 1..(Len(s) - n) : n + 1 + i - 1 = n + i /\ i \in 1..(Len(s) - (n + 1) + 1)
    BY <1>0
  <2> QED
    BY <2>2, <2>3, <2>4
<1> HIDE DEF t
<1>3. /\ u \in Seq(S) /\ Len(u) = Len(s) + 1 - n
      /\ \A i \in 1..(Len(s) + 1 - n) : u[i] = t[n + i]
  <2>1. \A i \in (n + 1)..Len(t) : t[i] \in S
    BY <1>0, <1>1, ElementOfSeq
  <2>2. /\ u \in Seq(S)
        /\ Len(u) = IF n + 1 <= Len(t) THEN Len(t) - (n + 1) + 1 ELSE 0
        /\ \A i \in 1..(Len(t) - (n + 1) + 1) : u[i] = t[n + 1 + i - 1]
    BY <1>0, <1>1, <2>1, SubSeqProperties
  <2> QED
    BY <1>0, <1>1, <2>2
<1> HIDE DEF r, u
<1>4. n = 0 => r = s
  <2> SUFFICES ASSUME n = 0 PROVE r = s
    OBVIOUS
  <2>1. Len(r) = Len(s) /\ \A i \in 1..Len(s) : r[i] = s[i]
    BY <1>0, <1>2
  <2> QED
    BY <1>2, <2>1, SeqEqual
<1>5. /\ v \in Seq(S) /\ Len(v) = Len(s) - n + 1
      /\ \A i \in 1..(Len(s) - n) : v[i] = s[n + i]
      /\ v[Len(s) - n + 1] = x
  BY <1>0, <1>2, AppendProperties
<1> HIDE DEF v
<1>6. \A i \in 1..(Len(s) + 1 - n) : u[i] = v[i]
  <2> TAKE i \in 1..(Len(s) + 1 - n)
  <2>1. CASE i = Len(s) + 1 - n
    BY <1>0, <1>1, <1>3, <1>5, <2>1
  <2>2. CASE i # Len(s) + 1 - n
    <3>1. i \in 1..(Len(s) - n) /\ n + i \in 1..Len(s)
      BY <1>0, <2>2
    <3> QED
      BY <1>1, <1>3, <1>5, <3>1
  <2> QED
    BY <2>1, <2>2
<1>7. u = v
  <2>1. Len(u) = Len(v) /\ Len(u) = Len(s) + 1 - n
    BY <1>0, <1>3, <1>5
  <2> QED
    BY <1>3, <1>5, <1>6, <2>1, SeqEqual
<1> QED
  BY <1>2, <1>4, <1>7 DEF r, t, u, v
-----------------------------------------------------------------------------
(***************************************************************************)
(* The invariant holds at the start and is preserved by each action.       *)
(***************************************************************************)
LEMMA AxisInit == Init => AxisInv
<1> SUFFICES ASSUME Init PROVE AxisInv
  OBVIOUS
<1>1. TypeOK
  <2>1. bus \in Bus /\ drive \in Bus
    BY DEF Init, Bus
  <2>2. toToggle \in 0..Period /\ 0 \in 0..MaxTimeout
    BY StreamAssumption DEF Init
  <2>3. txFifo \in Seq(Data) /\ rxFifo \in Seq(Data)
    BY EmptySeq DEF Init
  <2>4. /\ state \in [Coroutine -> {"idle", "waiting", "woken", "timeout"}]
        /\ timed \in [Coroutine -> BOOLEAN]
        /\ left \in [Coroutine -> 0..MaxTimeout]
        /\ wanted \in [Coroutine -> Nat]
    BY <2>2 DEF Init
  <2> QED
    BY <2>1, <2>2, <2>3, <2>4 DEF Init, TypeOK
<1> QED
  BY <1>1 DEF Init, AxisInv, OffersFront, BusDriven, TimeLeft

\* The types of the waits, from those of a coroutine that starts to wait or returns.
LEMMA WaitTypes ==
  ASSUME TypeOK, NEW p \in Coroutine, NEW n \in Nat, NEW t \in 0..MaxTimeout,
         Wait(p, n, t) \/ Return(p) \/ WaitAgain(p)
  PROVE  /\ state' \in [Coroutine -> {"idle", "waiting", "woken", "timeout"}]
         /\ timed' \in [Coroutine -> BOOLEAN]
         /\ left' \in [Coroutine -> 0..MaxTimeout]
         /\ wanted' \in [Coroutine -> Nat]
<1>1. 0 \in 0..MaxTimeout
  BY StreamAssumption
<1>2. CASE Wait(p, n, t)
  BY <1>2 DEF Wait, TypeOK
<1>3. CASE Return(p)
  BY <1>1, <1>3 DEF Return, TypeOK
<1>4. CASE WaitAgain(p)
  BY <1>4 DEF WaitAgain, TypeOK
<1> QED
  BY <1>2, <1>3, <1>4

LEMMA WaitHasTime ==
  ASSUME AxisInv, NEW p \in Coroutine, NEW n \in Nat, NEW t \in 0..MaxTimeout,
         Wait(p, n, t) \/ Return(p) \/ (WaitAgain(p) /\ ~(timed[p] /\ left[p] = 0))
  PROVE  \A r \in Coroutine : state'[r] = "waiting" /\ timed'[r] => left'[r] > 0
<1> SUFFICES ASSUME NEW r \in Coroutine, state'[r] = "waiting", timed'[r]
             PROVE  left'[r] > 0
  OBVIOUS
<1>1. /\ state \in [Coroutine -> {"idle", "waiting", "woken", "timeout"}]
      /\ timed \in [Coroutine -> BOOLEAN]
      /\ left \in [Coroutine -> 0..MaxTimeout]
  BY DEF AxisInv, TypeOK
<1>2. state[r] = "waiting" /\ timed[r] => left[r] > 0
  BY DEF AxisInv, TimeLeft
<1>3. t \in Nat /\ left[p] \in Nat
  BY <1>1, StreamAssumption
<1>4. CASE Wait(p, n, t)
  <2>1. CASE r = p
    BY <1>1, <1>3, <1>4, <2>1 DEF Wait
  <2>2. CASE r # p
    BY <1>1, <1>2, <1>4, <2>2 DEF Wait
  <2> QED
    BY <2>1, <2>2
<1>5. CASE Return(p)
  <2>1. r # p
    BY <1>1, <1>5 DEF Return
  <2> QED
    BY <1>1, <1>2, <1>5, <2>1 DEF Return
<1>6. CASE WaitAgain(p) /\ ~(timed[p] /\ left[p] = 0)
  <2>1. CASE r = p
    BY <1>1, <1>3, <1>6, <2>1 DEF WaitAgain
  <2>2. CASE r # p
    BY <1>1, <1>2, <1>6, <2>2 DEF WaitAgain
  <2> QED
    BY <2>1, <2>2
<1> QED
  BY <1>4, <1>5, <1>6

\* The user, and the coroutines once they are woken, push, take, wait and write rst.
LEMMA UserKeeps ==
  ASSUME AxisInv, UNCHANGED userless,
         txFifo' = txFifo \/ \E x \in Data : txFifo' = Append(txFifo, x),
         rxFifo' \in Seq(Data),
         {rst', newRst', ready'} \subseteq BOOLEAN,
         /\ state' \in [Coroutine -> {"idle", "waiting", "woken", "timeout"}]
         /\ timed' \in [Coroutine -> BOOLEAN]
         /\ left' \in [Coroutine -> 0..MaxTimeout]
         /\ wanted' \in [Coroutine -> Nat],
         \A r \in Coroutine : state'[r] = "waiting" /\ timed'[r] => left'[r] > 0
  PROVE  AxisInv'
<1>1. UNCHANGED <<round, clk, newClk, toToggle, bus, drive, todo, notified>>
  BY DEF userless, clockVars, busVars
<1>2. txFifo \in Seq(Data)
  BY DEF AxisInv, TypeOK
<1>3. /\ txFifo' \in Seq(Data)
      /\ txFifo # <<>> => txFifo' # <<>> /\ Head(txFifo') = Head(txFifo)
  <2>1. CASE txFifo' = txFifo
    BY <1>2, <2>1
  <2>2. ASSUME NEW x \in Data, txFifo' = Append(txFifo, x)
        PROVE  /\ txFifo' \in Seq(Data)
               /\ txFifo # <<>> => txFifo' # <<>> /\ Head(txFifo') = Head(txFifo)
    BY <1>2, <2>2, AppendFacts
  <2> QED
    BY <2>1, <2>2
<1>4. TypeOK'
  BY <1>1, <1>3 DEF AxisInv, TypeOK
<1>5. OffersFront'
  BY <1>1, <1>3 DEF AxisInv, OffersFront
<1>6. BusDriven'
  BY <1>1 DEF AxisInv, BusDriven
<1>7. TimeLeft'
  BY <1>1 DEF AxisInv, TimeLeft
<1> QED
  BY <1>4, <1>5, <1>6, <1>7 DEF AxisInv

\* While the source has a beat to pop, its queue is not empty.
LEMMA TransferringFacts ==
  ASSUME AxisInv
  PROVE  /\ txFifo \in Seq(Data) /\ rxFifo \in Seq(Data) /\ bus.data \in Data
         /\ Transferring("tx") => txFifo # <<>> /\ bus.data = Head(txFifo)
<1>1. txFifo \in Seq(Data) /\ rxFifo \in Seq(Data) /\ bus.data \in Data
  BY DEF AxisInv, TypeOK, Bus
<1>2. ASSUME Transferring("tx")
      PROVE  txFifo # <<>> /\ bus.data = Head(txFifo)
  <2>1. drive.valid /\ bus.data = drive.data
    BY <1>2 DEF AxisInv, BusDriven, Transferring, Handshake
  <2> QED
    BY <2>1 DEF AxisInv, OffersFront
<1> QED
  BY <1>1, <1>2

LEMMA QueueStep ==
  ASSUME AxisInv, UNCHANGED <<todo, bus>>, NEW x \in Data,
         txFifo' = Append(txFifo, x), rxFifo' = rxFifo
  PROVE  Abstract!Next
<1>1. Transferring("tx")' = Transferring("tx") /\ Transferring("rx")' = Transferring("rx")
  BY DEF Transferring, Handshake
<1>2. Accepted' = Accepted
  BY <1>1 DEF Accepted
<1>3. Outstanding' = Append(Outstanding, x)
  BY <1>1, TransferringFacts, AppendFacts DEF Outstanding
<1>4. Abstract!Queue(x)
  BY <1>2, <1>3 DEF Abstract!Queue
<1> QED
  BY <1>4 DEF Abstract!Next

LEMMA TakeStep ==
  ASSUME AxisInv, UNCHANGED <<todo, bus, txFifo>>, NEW n \in 0..Len(rxFifo),
         rxFifo' = SubSeq(rxFifo, n + 1, Len(rxFifo))
  PROVE  Abstract!Next \/ UNCHANGED <<Outstanding, Accepted>>
<1>1. Transferring("tx")' = Transferring("tx") /\ Transferring("rx")' = Transferring("rx")
  BY DEF Transferring, Handshake
<1>2. Outstanding' = Outstanding
  BY <1>1 DEF Outstanding
<1>3. /\ n = 0 => rxFifo' = rxFifo
      /\ SubSeq(Append(rxFifo, bus.data), n + 1, Len(Append(rxFifo, bus.data)))
           = Append(rxFifo', bus.data)
  <2>1. rxFifo \in Seq(Data) /\ bus.data \in Data
    BY TransferringFacts
  <2> DEFINE x == bus.data
  <2>2. x \in Data
    BY <2>1
  <2> HIDE DEF x
  <2>3. /\ n = 0 => SubSeq(rxFifo, n + 1, Len(rxFifo)) = rxFifo
        /\ SubSeq(Append(rxFifo, x), n + 1, Len(Append(rxFifo, x)))
             = Append(SubSeq(rxFifo, n + 1, Len(rxFifo)), x)
    BY <2>1, <2>2, DropFacts
  <2> QED
    BY <2>3 DEF x
<1>4. CASE n = 0
  BY <1>1, <1>2, <1>3, <1>4 DEF Accepted
<1>5. CASE n # 0
  <2>1. Accepted' = SubSeq(Accepted, n + 1, Len(Accepted))
    BY <1>1, <1>3 DEF Accepted
  <2>2. n \in 1..Len(Accepted)
    <3>1. Len(rxFifo) \in Nat /\ Len(Append(rxFifo, bus.data)) = Len(rxFifo) + 1
      BY TransferringFacts, LenProperties, AppendProperties
    <3>2. Len(Accepted) \in {Len(rxFifo), Len(rxFifo) + 1}
      BY <3>1 DEF Accepted
    <3> QED
      BY <1>5, <3>1, <3>2
  <2>3. Abstract!Receive(n)
    BY <1>2, <2>1 DEF Abstract!Receive
  <2> QED
    BY <2>2, <2>3 DEF Abstract!Next
<1> QED
  BY <1>4, <1>5

\* The step of the abstract stream that an action makes.
Implements == Abstract!Next \/ UNCHANGED <<Outstanding, Accepted>>

LEMMA SameStream == UNCHANGED <<todo, bus, txFifo, rxFifo>> => Implements
BY DEF Implements, Outstanding, Accepted, Transferring, Handshake

LEMMA UserStep ==
  ASSUME AxisInv, User
  PROVE  AxisInv' /\ Implements
<1>1. /\ {rst, newRst, ready} \subseteq BOOLEAN
      /\ txFifo \in Seq(Data) /\ rxFifo \in Seq(Data)
      /\ state \in [Coroutine -> {"idle", "waiting", "woken", "timeout"}]
      /\ timed \in [Coroutine -> BOOLEAN]
      /\ left \in [Coroutine -> 0..MaxTimeout]
      /\ wanted \in [Coroutine -> Nat]
      /\ \A r \in Coroutine : state[r] = "waiting" /\ timed[r] => left[r] > 0
  BY DEF AxisInv, TypeOK, TimeLeft
<1>2. UNCHANGED userless => UNCHANGED <<todo, bus>>
  BY DEF userless, busVars
<1>3. ASSUME NEW x \in Data, Push(x)
      PROVE  AxisInv' /\ Implements
  <2>1. /\ txFifo' = Append(txFifo, x)
        /\ UNCHANGED <<userless, rst, newRst, rxFifo, ready, state, timed, left, wanted>>
    BY <1>3 DEF Push, resetVars, waitVars
  <2>2. AxisInv'
    BY <1>1, <2>1, UserKeeps
  <2>3. Abstract!Next
    BY <1>2, <2>1, QueueStep
  <2> QED
    BY <2>2, <2>3 DEF Implements
<1>4. ASSUME NEW n \in 1..Len(rxFifo), Take(n)
      PROVE  AxisInv' /\ Implements
  <2>1. /\ rxFifo' = SubSeq(rxFifo, n + 1, Len(rxFifo))
        /\ UNCHANGED <<userless, rst, newRst, txFifo, ready, state, timed, left, wanted>>
    BY <1>4 DEF Take, resetVars, waitVars
  <2>2. n \in 0..Len(rxFifo) /\ bus.data \in Data
    BY <1>1, LenProperties, TransferringFacts
  <2>3. rxFifo' \in Seq(Data)
    BY <1>1, <2>1, <2>2, DropFacts
  <2>4. AxisInv'
    BY <1>1, <2>1, <2>3, UserKeeps
  <2>5. Implements
    BY <1>2, <2>1, <2>2, TakeStep DEF Implements
  <2> QED
    BY <2>4, <2>5
<1>5. CASE SetReady \/ WriteReset
  <2>1. /\ {rst', newRst', ready'} \subseteq BOOLEAN
        /\ UNCHANGED <<userless, txFifo, rxFifo, state, timed, left, wanted>>
    BY <1>1, <1>5 DEF SetReady, WriteReset, resetVars, waitVars
  <2>2. AxisInv'
    BY <1>1, <2>1, UserKeeps
  <2> QED
    BY <1>2, <2>1, <2>2, SameStream
<1>6. ASSUME NEW p \in Sender, NEW x \in Data, NEW t \in 0..MaxTimeout, Send(p, x, t)
      PROVE  AxisInv' /\ Implements
  <2>1. /\ txFifo' = Append(txFifo, x)
        /\ Wait(p, 0, t)
        /\ UNCHANGED <<userless, rst, newRst, rxFifo, ready>>
    BY <1>6 DEF Send, resetVars
  <2>2. p \in Coroutine
    BY DEF Coroutine
  <2>3. AxisInv'
    BY <1>1, <2>1, <2>2, UserKeeps, WaitTypes, WaitHasTime DEF AxisInv
  <2>4. Abstract!Next
    BY <1>2, <2>1, QueueStep
  <2> QED
    BY <2>3, <2>4 DEF Implements
<1>7. ASSUME NEW p \in Coroutine, NEW n \in Nat, NEW t \in 0..MaxTimeout,
             Wait(p, n, t) \/ Return(p),
             UNCHANGED <<userless, resetVars, txFifo, rxFifo, ready>>
      PROVE  AxisInv' /\ Implements
  <2>1. UNCHANGED <<userless, rst, newRst, txFifo, rxFifo, ready>>
    BY <1>7 DEF resetVars
  <2>2. AxisInv'
    BY <1>1, <1>7, <2>1, UserKeeps, WaitTypes, WaitHasTime DEF AxisInv
  <2> QED
    BY <1>2, <2>1, <2>2, SameStream
<1>8. ASSUME NEW p \in Sender, NEW t \in 0..MaxTimeout, Drain(p, t)
      PROVE  AxisInv' /\ Implements
  BY <1>7, <1>8 DEF Drain, Coroutine
<1>9. ASSUME NEW p \in Receiver, NEW n \in 1..MaxQueue, NEW t \in 0..MaxTimeout,
             Receive(p, n, t)
      PROVE  AxisInv' /\ Implements
  <2>1. p \in Coroutine /\ n \in Nat
    BY StreamAssumption DEF Coroutine
  <2> QED
    BY <1>7, <1>9, <2>1 DEF Receive
<1>10. ASSUME NEW p \in Coroutine, Cancel(p)
       PROVE  AxisInv' /\ Implements
  <2>1. 0 \in Nat /\ 0 \in 0..MaxTimeout
    BY StreamAssumption
  <2> QED
    BY <1>7, <1>10, <2>1 DEF Cancel
<1> QED
  BY <1>3, <1>4, <1>5, <1>6, <1>8, <1>9, <1>10 DEF User

LEMMA ResumeStep ==
  ASSUME AxisInv, NEW p \in Coroutine, ResumeSender(p) \/ ResumeReceiver(p)
  PROVE  AxisInv' /\ Implements
<1>1. /\ {rst, newRst, ready} \subseteq BOOLEAN
      /\ txFifo \in Seq(Data) /\ rxFifo \in Seq(Data)
      /\ wanted[p] \in Nat
      /\ UNCHANGED <<userless, rst, newRst, txFifo, ready>>
  BY DEF AxisInv, TypeOK, ResumeSender, ResumeReceiver, resetVars
<1>2. UNCHANGED <<todo, bus>>
  BY <1>1 DEF userless, busVars
<1>3. Return(p) \/ (WaitAgain(p) /\ ~(timed[p] /\ left[p] = 0))
  BY DEF ResumeSender, ResumeReceiver
<1>4. 0 \in Nat /\ 0 \in 0..MaxTimeout
  BY StreamAssumption
<1>5. /\ state' \in [Coroutine -> {"idle", "waiting", "woken", "timeout"}]
      /\ timed' \in [Coroutine -> BOOLEAN]
      /\ left' \in [Coroutine -> 0..MaxTimeout]
      /\ wanted' \in [Coroutine -> Nat]
      /\ \A r \in Coroutine : state'[r] = "waiting" /\ timed'[r] => left'[r] > 0
  BY <1>3, <1>4, WaitTypes, WaitHasTime DEF AxisInv
<1>6. CASE rxFifo' = rxFifo
  <2>1. AxisInv'
    BY <1>1, <1>5, <1>6, UserKeeps
  <2> QED
    BY <1>1, <1>2, <1>6, <2>1, SameStream
<1>7. ASSUME NEW n \in 0..Len(rxFifo), rxFifo' = SubSeq(rxFifo, n + 1, Len(rxFifo))
      PROVE  AxisInv' /\ Implements
  <2>1. bus.data \in Data
    BY TransferringFacts
  <2>2. rxFifo' \in Seq(Data)
    BY <1>1, <1>7, <2>1, DropFacts
  <2>3. AxisInv'
    BY <1>1, <1>5, <2>2, UserKeeps
  <2>4. Implements
    BY <1>1, <1>2, <1>7, TakeStep DEF Implements
  <2> QED
    BY <2>3, <2>4
<1>8. CASE ResumeSender(p)
  BY <1>6, <1>8 DEF ResumeSender
<1>9. CASE ResumeReceiver(p)
  <2> DEFINE n == IF wanted[p] <= Len(rxFifo) THEN wanted[p] ELSE Len(rxFifo)
  <2>1. Len(rxFifo) \in Nat
    BY <1>1, LenProperties
  <2>2. n \in 0..Len(rxFifo)
    BY <1>1, <2>1
  <2>3. rxFifo' = SubSeq(rxFifo, n + 1, Len(rxFifo)) \/ rxFifo' = rxFifo
    BY <1>9 DEF ResumeReceiver
  <2> HIDE DEF n
  <2> QED
    BY <1>6, <1>7, <2>2, <2>3
<1> QED
  BY <1>8, <1>9

\* The modules at the edge: an accepted beat leaves the queue of the source and enters the
\* queue of the sink, each of which the abstract stream has seen before.
LEMMA TxStep ==
  ASSUME AxisInv, TxEval
  PROVE  AxisInv' /\ Implements
<1> DEFINE stalled == bus.valid /\ ~bus.ready
<1>1. /\ "tx" \in todo /\ todo' = todo \ {"tx"}
      /\ txFifo' = Popped
      /\ notified' = IF Handshake THEN notified \cup {"sent"} ELSE notified
      /\ drive' = [drive EXCEPT
           !.valid = ~rst /\ (stalled \/ Popped # <<>>),
           !.data  = IF stalled \/ Popped = <<>> THEN @ ELSE Head(Popped)]
      /\ UNCHANGED <<round, clk, newClk, toToggle, rst, newRst, bus, rxFifo, ready,
                     state, timed, left, wanted>>
  BY DEF TxEval, TxEvaluates, clockVars, resetVars, waitVars
<1>2. /\ drive \in Bus /\ bus \in Bus /\ txFifo \in Seq(Data) /\ rst \in BOOLEAN
      /\ todo \subseteq {"tx", "rx"} /\ notified \subseteq {"sent", "received"}
      /\ bus.valid = drive.valid /\ bus.data = drive.data
      /\ drive.valid => txFifo # <<>> /\ drive.data = Head(txFifo)
      /\ "rx" \in todo => bus.ready = drive.ready
      /\ round = "edge"
  BY <1>1 DEF AxisInv, TypeOK, BusDriven, OffersFront
<1>3. /\ Popped \in Seq(Data)
      /\ Popped # <<>> => Head(Popped) \in Data
      /\ stalled => Popped = txFifo /\ Popped # <<>> /\ drive.data = Head(Popped)
  BY <1>2, HeadTailType DEF Popped, Handshake
<1>4. /\ drive' \in Bus
      /\ drive'.valid = (~rst /\ (stalled \/ Popped # <<>>))
      /\ drive'.data = IF stalled \/ Popped = <<>> THEN drive.data ELSE Head(Popped)
      /\ drive'.ready = drive.ready
  <2>1. (~rst /\ (stalled \/ Popped # <<>>)) \in BOOLEAN
    OBVIOUS
  <2> QED
    BY <1>1, <1>2, <1>3, <2>1 DEF Bus
<1>5. TypeOK'
  BY <1>1, <1>2, <1>3, <1>4 DEF AxisInv, TypeOK
<1>6. OffersFront'
  BY <1>1, <1>3, <1>4 DEF OffersFront
<1>7. BusDriven'
  BY <1>1, <1>2, <1>4 DEF AxisInv, BusDriven
<1>8. TimeLeft'
  BY <1>1 DEF AxisInv, TimeLeft
<1>9. Implements
  <2>1. Outstanding = Popped /\ Outstanding' = txFifo'
    BY <1>1 DEF Outstanding, Transferring, Popped, Handshake
  <2>2. Accepted' = Accepted
    BY <1>1 DEF Accepted, Transferring, Handshake
  <2> QED
    BY <1>1, <2>1, <2>2 DEF Implements
<1> QED
  BY <1>5, <1>6, <1>7, <1>8, <1>9 DEF AxisInv

LEMMA RxStep ==
  ASSUME AxisInv, RxEval
  PROVE  AxisInv' /\ Implements
<1>1. /\ "rx" \in todo /\ todo' = todo \ {"rx"}
      /\ rxFifo' = IF Handshake THEN Append(rxFifo, bus.data) ELSE rxFifo
      /\ notified' \in {notified, notified \cup {"received"}}
      /\ drive' = [drive EXCEPT !.ready = ready]
      /\ UNCHANGED <<round, clk, newClk, toToggle, rst, newRst, bus, txFifo, ready,
                     state, timed, left, wanted>>
  BY DEF RxEval, clockVars, resetVars, waitVars
<1>2. /\ drive \in Bus /\ bus \in Bus /\ rxFifo \in Seq(Data) /\ ready \in BOOLEAN
      /\ todo \subseteq {"tx", "rx"} /\ notified \subseteq {"sent", "received"}
      /\ round = "edge"
  BY <1>1 DEF AxisInv, TypeOK, BusDriven
<1>3. /\ drive' \in Bus
      /\ drive'.valid = drive.valid /\ drive'.data = drive.data
  BY <1>1, <1>2 DEF Bus
<1>4. rxFifo' \in Seq(Data)
  BY <1>1, TransferringFacts, AppendFacts
<1>5. TypeOK'
  BY <1>1, <1>2, <1>3, <1>4 DEF AxisInv, TypeOK
<1>6. OffersFront'
  BY <1>1, <1>3 DEF AxisInv, OffersFront
<1>7. BusDriven'
  BY <1>1, <1>2, <1>3 DEF AxisInv, BusDriven
<1>8. TimeLeft'
  BY <1>1 DEF AxisInv, TimeLeft
<1>9. Implements
  <2>1. Accepted = rxFifo' /\ Accepted' = rxFifo'
    BY <1>1 DEF Accepted, Transferring, Handshake
  <2>2. Outstanding' = Outstanding
    BY <1>1 DEF Outstanding, Transferring, Handshake
  <2> QED
    BY <2>1, <2>2 DEF Implements
<1> QED
  BY <1>5, <1>6, <1>7, <1>8, <1>9 DEF AxisInv

\* The clock and the rounds of the kernel.
LEMMA ClockStep ==
  ASSUME AxisInv, ToggleClock
  PROVE  AxisInv' /\ Implements
<1>1. /\ round = "first" /\ newClk' = ~clk
      /\ toToggle' = IF newClk' THEN Period \div 2 ELSE Period - Period \div 2
      /\ UNCHANGED <<round, clk, rst, newRst, bus, drive, todo, notified, txFifo, rxFifo, ready,
                     state, timed, left, wanted>>
  BY DEF ToggleClock, resetVars, busVars, waitVars
<1>2. toToggle' \in 0..Period
  BY <1>1, StreamAssumption
<1>3. TypeOK'
  BY <1>1, <1>2 DEF AxisInv, TypeOK
<1>4. OffersFront' /\ BusDriven' /\ TimeLeft'
  BY <1>1 DEF AxisInv, OffersFront, BusDriven, TimeLeft
<1> QED
  BY <1>1, <1>3, <1>4, SameStream DEF AxisInv

LEMMA FirstStep ==
  ASSUME AxisInv, EndFirst
  PROVE  AxisInv' /\ Implements
<1>1. /\ round = "first" /\ toToggle > 0
      /\ clk' = newClk /\ rst' = newRst
      /\ \/ round' = "edge" /\ todo' = {"tx", "rx"}
         \/ round' = "settled" /\ todo' = todo
      /\ UNCHANGED <<newClk, toToggle, newRst, bus, drive, notified, txFifo, rxFifo, ready,
                     state, timed, left, wanted>>
  BY DEF EndFirst, busVars, waitVars
<1>2. todo = {} /\ bus = drive
  BY <1>1 DEF AxisInv, BusDriven
<1>3. TypeOK'
  BY <1>1, <1>2 DEF AxisInv, TypeOK
<1>4. OffersFront' /\ BusDriven' /\ TimeLeft'
  BY <1>1, <1>2 DEF AxisInv, OffersFront, BusDriven, TimeLeft
<1>5. Implements
  <2>1. Outstanding = txFifo /\ Accepted = rxFifo
    BY <1>2 DEF Outstanding, Accepted, Transferring
  <2>2. CASE todo' = {"tx", "rx"} /\ Handshake
    <3>1. /\ Outstanding' = Tail(txFifo)
          /\ Accepted' = Append(rxFifo, bus.data)
      BY <1>1, <2>2 DEF Outstanding, Accepted, Transferring, Handshake
    <3>2. txFifo # <<>> /\ bus.data = Head(txFifo)
      BY <1>2, <2>2 DEF AxisInv, OffersFront, Handshake
    <3>3. Abstract!Transfer
      BY <2>1, <3>1, <3>2 DEF Abstract!Transfer
    <3> QED
      BY <3>3 DEF Implements, Abstract!Next
  <2>3. CASE ~(todo' = {"tx", "rx"} /\ Handshake)
    <3>1. Outstanding' = txFifo /\ Accepted' = rxFifo
      BY <1>1, <1>2, <2>3 DEF Outstanding, Accepted, Transferring, Handshake
    <3> QED
      BY <2>1, <3>1 DEF Implements
  <2> QED
    BY <2>2, <2>3
<1> QED
  BY <1>3, <1>4, <1>5 DEF AxisInv

LEMMA EdgeStep ==
  ASSUME AxisInv, EndEdge
  PROVE  AxisInv' /\ Implements
<1>1. /\ round = "edge" /\ todo = {} /\ round' = "react"
      /\ bus' = drive /\ rst' = newRst /\ notified' = {}
      /\ state' = [p \in Coroutine |-> IF Hears(p) THEN "woken" ELSE state[p]]
      /\ UNCHANGED <<clk, newClk, toToggle, newRst, drive, todo, txFifo, rxFifo, ready,
                     timed, left, wanted>>
  BY DEF EndEdge, clockVars
<1>2. TypeOK'
  BY <1>1 DEF AxisInv, TypeOK
<1>3. OffersFront' /\ BusDriven'
  BY <1>1 DEF AxisInv, OffersFront, BusDriven
<1>4. TimeLeft'
  <2>1. \A p \in Coroutine : state'[p] = "waiting" => state[p] = "waiting"
    BY <1>1
  <2> QED
    BY <1>1, <2>1 DEF AxisInv, TimeLeft
<1>5. Implements
  BY <1>1 DEF Implements, Outstanding, Accepted, Transferring
<1> QED
  BY <1>2, <1>3, <1>4, <1>5 DEF AxisInv

LEMMA TickStep ==
  ASSUME AxisInv, EndReact \/ Tick
  PROVE  AxisInv' /\ Implements
<1>1. CASE EndReact
  <2>1. /\ round = "react" /\ round' = "settled" /\ rst' = newRst
        /\ UNCHANGED <<clk, newClk, toToggle, newRst, bus, drive, todo, notified, txFifo, rxFifo,
                       ready, state, timed, left, wanted>>
    BY <1>1 DEF EndReact, clockVars, busVars, waitVars
  <2>2. TypeOK'
    BY <2>1 DEF AxisInv, TypeOK
  <2>3. OffersFront' /\ BusDriven' /\ TimeLeft'
    BY <2>1 DEF AxisInv, OffersFront, BusDriven, TimeLeft
  <2> QED
    BY <2>1, <2>2, <2>3, SameStream DEF AxisInv
<1>2. CASE Tick
  <2> DEFINE passes(p) == state[p] = "waiting" /\ timed[p]
  <2>1. /\ round = "settled" /\ round' = "first" /\ toToggle' = toToggle - 1
        /\ left' = [p \in Coroutine |-> IF passes(p) THEN left[p] - 1 ELSE left[p]]
        /\ state' = [p \in Coroutine |->
                       IF passes(p) /\ left[p] = 1 THEN "timeout" ELSE state[p]]
        /\ UNCHANGED <<clk, newClk, rst, newRst, bus, drive, todo, notified, txFifo, rxFifo, ready,
                       timed, wanted>>
    BY <1>2 DEF Tick, resetVars, busVars
  <2>2. \A p \in Coroutine : /\ left[p] \in 0..MaxTimeout
                             /\ passes(p) => left[p] > 0
    BY DEF AxisInv, TypeOK, TimeLeft
  <2>3. toToggle \in 0..Period /\ toToggle > 0 /\ Period \in Nat /\ MaxTimeout \in Nat
    BY <2>1, StreamAssumption DEF AxisInv, TypeOK, TimeLeft
  <2>4. toToggle' \in 0..Period
    BY <2>1, <2>3
  <2>5. \A p \in Coroutine : /\ left'[p] \in 0..MaxTimeout
                             /\ state'[p] = "waiting" /\ timed'[p] => left'[p] > 0
    <3> SUFFICES ASSUME NEW p \in Coroutine
                 PROVE  /\ left'[p] \in 0..MaxTimeout
                        /\ state'[p] = "waiting" /\ timed'[p] => left'[p] > 0
      OBVIOUS
    <3>1. CASE passes(p)
      <4>1. left'[p] = left[p] - 1
        BY <2>1, <3>1
      <4>2. left[p] = 1 => state'[p] = "timeout"
        BY <2>1, <3>1
      <4> QED
        BY <2>2, <2>3, <3>1, <4>1, <4>2
    <3>2. CASE ~passes(p)
      <4>1. left'[p] = left[p] /\ state'[p] = state[p] /\ timed'[p] = timed[p]
        BY <2>1, <3>2
      <4> QED
        BY <2>2, <3>2, <4>1
    <3> QED
      BY <3>1, <3>2
  <2>6. left' \in [Coroutine -> 0..MaxTimeout]
    BY <2>1, <2>5
  <2>7. state' \in [Coroutine -> {"idle", "waiting", "woken", "timeout"}]
    BY <2>1 DEF AxisInv, TypeOK
  <2>8. TypeOK'
    BY <2>1, <2>4, <2>6, <2>7 DEF AxisInv, TypeOK
  <2>9. OffersFront' /\ BusDriven'
    BY <2>1 DEF AxisInv, OffersFront, BusDriven
  <2>10. TimeLeft'
    BY <2>1, <2>5 DEF TimeLeft
  <2> QED
    BY <2>1, <2>8, <2>9, <2>10, SameStream DEF AxisInv
<1> QED
  BY <1>1, <1>2

LEMMA AxisStep == AxisInv /\ [Next]_vars => AxisInv' /\ Implements
<1> SUFFICES ASSUME AxisInv, [Next]_vars
             PROVE  AxisInv' /\ Implements
  OBVIOUS
<1>1. CASE Kernel
  BY <1>1, ClockStep, FirstStep, EdgeStep, TickStep, TxStep, RxStep, ResumeStep
     DEF Kernel, Coroutine
<1>2. CASE User
  BY <1>2, UserStep
<1>3. CASE UNCHANGED vars
  <2>1. UNCHANGED <<round, clk, newClk, toToggle, rst, newRst, bus, drive, todo, notified,
                    txFifo, rxFifo, ready, state, timed, left, wanted>>
    BY <1>3 DEF vars, clockVars, resetVars, busVars, waitVars
  <2>2. AxisInv'
    BY <2>1 DEF AxisInv, TypeOK, OffersFront, BusDriven, TimeLeft
  <2> QED
    BY <2>1, <2>2, SameStream
<1> QED
  BY <1>1, <1>2, <1>3 DEF Next

THEOREM AxisCorrect == Spec => []AxisInv
<1> QED
  BY AxisInit, AxisStep, PTL DEF Spec

(***************************************************************************)
(* Every variable keeps its type: no wait goes below zero.                 *)
(***************************************************************************)
THEOREM AxisTypeCorrect == Spec => []TypeOK
<1>1. AxisInv => TypeOK
  BY DEF AxisInv
<1> QED
  BY <1>1, AxisCorrect, PTL

(***************************************************************************)
(* The beat that the source offers is the front of its queue.              *)
(***************************************************************************)
THEOREM FrontIsOffered == Spec => []OffersFront
<1>1. AxisInv => OffersFront
  BY DEF AxisInv
<1> QED
  BY <1>1, AxisCorrect, PTL

(***************************************************************************)
(* Source and sink are a lossless queue.                                   *)
(***************************************************************************)
THEOREM StreamImplemented == Spec => IsStream
<1>1. Init => Abstract!Init
  BY DEF Init, Abstract!Init, Outstanding, Accepted, Transferring
<1>2. Implements => [Abstract!Next]_(Abstract!vars)
  BY DEF Implements, Abstract!vars
<1> QED
  BY <1>1, <1>2, AxisStep, AxisCorrect, PTL DEF Spec, IsStream, Abstract!Spec

\* Once the source has evaluated at an edge, it still drives the beat that is stalled.
OfferKept ==
  round = "edge" /\ "tx" \notin todo /\ bus.valid /\ ~bus.ready /\ ~rst
    => drive.valid /\ drive.data = bus.data

LEMMA OfferKeptStep == AxisInv /\ OfferKept /\ [Next]_vars => OfferKept'
<1> SUFFICES ASSUME AxisInv, OfferKept, [Next]_vars
             PROVE  OfferKept'
  OBVIOUS
<1>1. CASE TxEval
  <2>1. /\ "tx" \in todo /\ round = "edge" /\ UNCHANGED <<round, bus, rst>>
        /\ drive' = [drive EXCEPT
             !.valid = ~rst /\ ((bus.valid /\ ~bus.ready) \/ Popped # <<>>),
             !.data  = IF (bus.valid /\ ~bus.ready) \/ Popped = <<>> THEN @ ELSE Head(Popped)]
    BY <1>1 DEF TxEval, TxEvaluates, resetVars, AxisInv, BusDriven
  <2>2. drive \in Bus /\ bus.data = drive.data
    BY <2>1 DEF AxisInv, TypeOK, BusDriven
  <2> QED
    BY <2>1, <2>2 DEF OfferKept, Bus
<1>2. CASE RxEval
  <2>1. /\ todo' = todo \ {"rx"} /\ UNCHANGED <<round, bus, rst>>
        /\ drive' = [drive EXCEPT !.ready = ready] /\ drive \in Bus
    BY <1>2 DEF RxEval, resetVars, AxisInv, TypeOK
  <2> QED
    BY <2>1 DEF OfferKept, Bus
<1>3. ASSUME NEW p, ResumeSender(p) \/ ResumeReceiver(p)
      PROVE  UNCHANGED <<userless, rst>>
  BY <1>3 DEF ResumeSender, ResumeReceiver, resetVars
<1>4. CASE User
  <2>1. UNCHANGED <<userless, rst>>
    BY <1>4 DEF User, Push, Take, SetReady, WriteReset, Send, Drain, Receive, Cancel, resetVars
  <2> QED
    BY <2>1 DEF userless, busVars, OfferKept
<1>5. CASE ToggleClock \/ EndFirst \/ EndEdge \/ EndReact \/ Tick
  <2>1. round' # "edge" \/ "tx" \in todo'
    BY <1>5 DEF ToggleClock, EndFirst, EndEdge, EndReact, Tick
  <2> QED
    BY <2>1 DEF OfferKept
<1>6. CASE UNCHANGED vars
  BY <1>6 DEF vars, resetVars, busVars, OfferKept
<1>7. ASSUME NEW p, ResumeSender(p) \/ ResumeReceiver(p)
      PROVE  OfferKept'
  BY <1>3, <1>7 DEF userless, busVars, OfferKept
<1> QED
  BY <1>1, <1>2, <1>4, <1>5, <1>6, <1>7 DEF Next, Kernel

(***************************************************************************)
(* A beat that is not accepted stays on the bus, unless the edge sees a    *)
(* reset.                                                                  *)
(***************************************************************************)
THEOREM OffersStand == Spec => OfferStands
<1>1. Init => OfferKept
  BY DEF Init, OfferKept
<1>2. AxisInv /\ OfferKept /\ [Next]_vars
        => [bus.valid /\ ~bus.ready /\ ~rst => bus'.valid /\ bus'.data = bus.data]_bus
  <2> SUFFICES ASSUME OfferKept, Next, bus' # bus, bus.valid, ~bus.ready, ~rst
               PROVE  bus'.valid /\ bus'.data = bus.data
    BY DEF vars, busVars
  <2>1. EndEdge
    BY DEF Next, Kernel, User, ToggleClock, EndFirst, EndReact, Tick, TxEval, TxEvaluates, RxEval,
           ResumeSender, ResumeReceiver, Push, Take, SetReady, WriteReset, Send, Drain, Receive,
           Cancel, userless, busVars
  <2> QED
    BY <2>1 DEF EndEdge, OfferKept
<1> QED
  BY <1>1, <1>2, OfferKeptStep, AxisCorrect, PTL DEF Spec, OfferStands
=============================================================================
