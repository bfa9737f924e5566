----------------------------- MODULE TasksProofs -----------------------------
(***************************************************************************)
(* Proofs about Tasks: the pools stay sound, a process is resumed in its   *)
(* own frames, and tasks are called and return as on a stack.              *)
(*                                                                         *)
(* The inductive invariant IInv has two halves. MemoryInv: the types, what *)
(* is in each block, and who owns which frame. FlowInv: which frame was    *)
(* called by which, which one runs, and where each process waits. A step   *)
(* is first described (...Is), then shown to keep the first half (...Steps)*)
(* and the second one (...Flow), and to be a step of the call stacks       *)
(* (...Maps).                                                              *)
(***************************************************************************)
EXTENDS Tasks, SequencesExt, FiniteSetTheorems, SequenceTheorems, TLAPS

-----------------------------------------------------------------------------
(***************************************************************************)
(* Sequences without repetitions.                                          *)
(***************************************************************************)

\* No element occurs twice.
Distinct(s) == \A i, j \in DOMAIN s : s[i] = s[j] => i = j

(***************************************************************************)
(* An order of a finite set is a sequence that has each of its elements    *)
(* once.                                                                   *)
(***************************************************************************)
LEMMA SetToSeqsElements ==
  ASSUME NEW S, IsFiniteSet(S), NEW s \in SetToSeqs(S)
  PROVE  /\ s \in Seq(S)
         /\ Distinct(s)
         /\ Range(s) = S
<1> DEFINE D == 1..Cardinality(S)
<1>1. Cardinality(S) \in Nat
  BY FS_CardinalityType
<1>2. s \in [D -> S] /\ \A i, j \in D : i # j => s[i] # s[j]
  BY DEF SetToSeqs
<1>3. s \in Seq(S) /\ Len(s) = Cardinality(S) /\ DOMAIN s = D
  BY <1>1, <1>2, SeqDef
<1>4. Distinct(s)
  BY <1>2, <1>3 DEF Distinct
<1>5. s \in Injection(D, S)
  BY <1>2 DEF Injection, IsInjective
<1>6. IsFiniteSet(D) /\ Cardinality(D) = Cardinality(S)
  BY <1>1, FS_Interval
<1>7. s \in Surjection(D, S)
  BY <1>5, <1>6, FS_Injection
<1>8. Range(s) = S
  BY <1>2, <1>7 DEF Surjection, Range
<1> QED
  BY <1>3, <1>4, <1>8

\* Two sequences with nothing in common, one after the other.
LEMMA ConcatElements ==
  ASSUME NEW S, NEW s \in Seq(S), NEW t \in Seq(S), Distinct(s), Distinct(t),
         Range(s) \cap Range(t) = {}
  PROVE  /\ Distinct(s \o t)
         /\ Range(s \o t) = Range(s) \cup Range(t)
<1>0. Range(s \o t) = Range(s) \cup Range(t)
  BY RangeConcatenation
<1>1. /\ Len(s) \in Nat /\ DOMAIN s = 1..Len(s)
      /\ Len(t) \in Nat /\ DOMAIN t = 1..Len(t)
      /\ s \o t \in Seq(S)
      /\ DOMAIN (s \o t) = 1..(Len(s) + Len(t))
  BY ConcatProperties, LenProperties
<1>2. \A i \in 1..(Len(s) + Len(t)) :
        (s \o t)[i] = IF i <= Len(s) THEN s[i] ELSE t[i - Len(s)]
  BY ConcatProperties
<1>3. SUFFICES Distinct(s \o t)
  BY <1>0
<1> SUFFICES ASSUME NEW i \in 1..(Len(s) + Len(t)), NEW j \in 1..(Len(s) + Len(t)),
                      (s \o t)[i] = (s \o t)[j]
               PROVE  i = j
  BY <1>1 DEF Distinct
<1>4. CASE i <= Len(s) /\ j <= Len(s)
  BY <1>1, <1>2, <1>3, <1>4 DEF Distinct
<1>5. CASE i > Len(s) /\ j > Len(s)
  <2>1. t[i - Len(s)] = t[j - Len(s)] /\ i - Len(s) \in DOMAIN t /\ j - Len(s) \in DOMAIN t
    BY <1>1, <1>2, <1>3, <1>5
  <2>2. i - Len(s) = j - Len(s)
    BY <2>1 DEF Distinct
  <2> QED
    BY <1>1, <2>2
<1>6. CASE i <= Len(s) /\ j > Len(s)
  <2>1. s[i] = t[j - Len(s)] /\ i \in DOMAIN s /\ j - Len(s) \in DOMAIN t
    BY <1>1, <1>2, <1>3, <1>6
  <2> QED
    BY <2>1 DEF Range
<1>7. CASE i > Len(s) /\ j <= Len(s)
  <2>1. s[j] = t[i - Len(s)] /\ j \in DOMAIN s /\ i - Len(s) \in DOMAIN t
    BY <1>1, <1>2, <1>3, <1>7
  <2> QED
    BY <2>1 DEF Range
<1> QED
  BY <1>1, <1>4, <1>5, <1>6, <1>7

\* All but the first element.
LEMMA TailElements ==
  ASSUME NEW S, NEW s \in Seq(S), s # <<>>, Distinct(s)
  PROVE  /\ Head(s) \in Range(s)
         /\ Distinct(Tail(s))
         /\ Range(Tail(s)) \subseteq Range(s) \ {Head(s)}
<1> DEFINE n == Len(s)
<1>1. n \in Nat \ {0} /\ DOMAIN s = 1..n /\ Head(s) = s[1]
  BY EmptySeq, LenProperties, HeadTailProperties
<1>2. /\ DOMAIN Tail(s) = 1..(n - 1)
      /\ \A i \in 1..(n - 1) : Tail(s)[i] = s[i + 1]
  BY <1>1, HeadTailProperties, LenProperties
<1> HIDE DEF n
<1>3. \A i \in 1..(n - 1) : i + 1 \in 1..n /\ i + 1 # 1
  BY <1>1
<1>4. Distinct(Tail(s))
  BY <1>1, <1>2, <1>3 DEF Distinct
<1>5. \A i \in 1..(n - 1) : s[i + 1] \in Range(s) /\ s[i + 1] # s[1]
  BY <1>1, <1>3 DEF Range, Distinct
<1>6. Range(Tail(s)) \subseteq Range(s) \ {Head(s)}
  BY <1>1, <1>2, <1>5 DEF Range
<1> QED
  BY <1>1, <1>4, <1>6 DEF Range

-----------------------------------------------------------------------------
(***************************************************************************)
(* What is below some owners, in any frames F: the least set that has all  *)
(* that the owners, or members of the set, own.                            *)
(***************************************************************************)
Under(F, O) ==
    {b \in Blocks : \A S \in SUBSET Blocks :
        (\A c \in Blocks : F[c].owner \in O \cup S => c \in S) => b \in S}

\* What the model calls below is Under, in its frames.
LEMMA BelowIsUnder == \A O : Below(O) = Under(frame, O)
BY DEF Below, Under

\* The principle of induction along the owners.
LEMMA UnderLeast ==
  ASSUME NEW F, NEW O, NEW S \in SUBSET Blocks,
         \A c \in Blocks : F[c].owner \in O \cup S => c \in S
  PROVE  Under(F, O) \subseteq S
BY DEF Under

\* What is owned by an owner, or by what is below it, is below it.
LEMMA UnderHas ==
  ASSUME NEW F, NEW O, NEW c \in Blocks, F[c].owner \in O \cup Under(F, O)
  PROVE  c \in Under(F, O)
<1> SUFFICES ASSUME NEW S \in SUBSET Blocks,
                    \A d \in Blocks : F[d].owner \in O \cup S => d \in S
             PROVE  c \in S
  BY DEF Under
<1>1. Under(F, O) \subseteq S
  BY UnderLeast
<1> QED
  BY <1>1

\* Nothing else is below the owners.
LEMMA UnderFrom ==
  ASSUME NEW F, NEW O, NEW c \in Under(F, O)
  PROVE  c \in Blocks /\ F[c].owner \in O \cup Under(F, O)
<1> DEFINE S == {d \in Under(F, O) : F[d].owner \in O \cup Under(F, O)}
<1>1. S \in SUBSET Blocks /\ S \subseteq Under(F, O)
  BY DEF Under
<1>2. ASSUME NEW d \in Blocks, F[d].owner \in O \cup S
      PROVE  d \in S
  BY <1>1, <1>2, UnderHas
<1> HIDE DEF S
<1>3. Under(F, O) \subseteq S
  BY <1>1, <1>2, UnderLeast
<1> QED
  BY <1>1, <1>3 DEF S

\* Only blocks are below an owner.
LEMMA UnderBlocks == \A F, O : Under(F, O) \subseteq Blocks
BY DEF Under

\* What is below something that is below P is below P.
LEMMA UnderTrans ==
  ASSUME NEW F, NEW O, NEW P, O \subseteq P \cup Under(F, P)
  PROVE  Under(F, O) \subseteq Under(F, P)
<1>1. ASSUME NEW c \in Blocks, F[c].owner \in O \cup Under(F, P)
      PROVE  c \in Under(F, P)
  BY <1>1, UnderHas
<1> QED
  BY <1>1, UnderLeast, UnderBlocks

\* Nothing that a process is above of is below itself.
LEMMA UnderAcyclic ==
  ASSUME NEW F, NEW O, O \cap Blocks = {}, NEW x \in Under(F, O)
  PROVE  x \notin Under(F, {x})
<1> SUFFICES ASSUME x \in Under(F, {x}) PROVE FALSE
  OBVIOUS
<1> DEFINE U == Under(F, {x})
<1> DEFINE S == Blocks \ U
<1>1. ASSUME NEW c \in Blocks, F[c].owner \in O \cup S
      PROVE  c \in S
  <2> SUFFICES ASSUME c \in U PROVE FALSE
    OBVIOUS
  <2>1. F[c].owner \in {x} \cup U
    BY UnderFrom
  <2>2. F[c].owner \in U /\ U \subseteq Blocks
    BY <2>1, UnderBlocks
  <2> QED
    BY <1>1, <2>2
<1>2. S \in SUBSET Blocks
  OBVIOUS
<1> HIDE DEF S
<1>3. Under(F, O) \subseteq S
  BY <1>1, <1>2, UnderLeast
<1> QED
  BY <1>3 DEF S

\* No frame is below two processes.
LEMMA UnderDisjoint ==
  ASSUME NEW F, NEW p, NEW q, p # q, p \notin Blocks, q \notin Blocks
  PROVE  Under(F, {p}) \cap Under(F, {q}) = {}
<1> DEFINE U == Under(F, {q})
<1> DEFINE S == Blocks \ U
<1>1. ASSUME NEW c \in Blocks, F[c].owner \in {p} \cup S
      PROVE  c \in S
  <2> SUFFICES ASSUME c \in U PROVE FALSE
    OBVIOUS
  <2>1. F[c].owner \in {q} \cup U
    BY UnderFrom
  <2>2. U \subseteq Blocks
    BY UnderBlocks
  <2> QED
    BY <1>1, <2>1, <2>2
<1>2. S \in SUBSET Blocks
  OBVIOUS
<1> HIDE DEF S
<1>3. Under(F, {p}) \subseteq S
  BY <1>1, <1>2, UnderLeast
<1> QED
  BY <1>3 DEF S

\* Only who owns a frame matters for what is below.
LEMMA UnderSame ==
  ASSUME NEW F, NEW G, NEW O, \A c \in Blocks : F[c].owner = G[c].owner
  PROVE  Under(F, O) = Under(G, O)
<1>1. Under(F, O) \subseteq Under(G, O)
  <2>1. \A c \in Blocks : F[c].owner \in O \cup Under(G, O) => c \in Under(G, O)
    BY UnderHas
  <2> QED
    BY <2>1, UnderLeast, UnderBlocks
<1>2. Under(G, O) \subseteq Under(F, O)
  <2>1. \A c \in Blocks : G[c].owner \in O \cup Under(F, O) => c \in Under(F, O)
    BY UnderHas
  <2> QED
    BY <2>1, UnderLeast, UnderBlocks
<1> QED
  BY <1>1, <1>2

\* A new frame is below what its owner is below.
LEMMA UnderAdd ==
  ASSUME NEW F, NEW G, NEW O, NEW b \in Blocks, NEW o,
         \A c \in Blocks : c # b => G[c].owner = F[c].owner,
         \A c \in Blocks : F[c].owner # b,
         G[b].owner = o, o # b, b \notin O,
         b \notin Under(F, O)
  PROVE  Under(G, O) = Under(F, O) \cup (IF o \in O \cup Under(F, O) THEN {b} ELSE {})
<1> DEFINE U == Under(F, O)
           T == U \cup (IF o \in O \cup U THEN {b} ELSE {})
<1>1. Under(G, O) \subseteq T
  <2>1. T \in SUBSET Blocks
    BY UnderBlocks
  <2>2. ASSUME NEW c \in Blocks, G[c].owner \in O \cup T
        PROVE  c \in T
    <3>1. CASE c = b
      BY <2>2, <3>1
    <3>2. CASE c # b
      <4>1. F[c].owner \in O \cup U
        BY <2>2, <3>2
      <4> QED
        BY <4>1, UnderHas
    <3> QED
      BY <3>1, <3>2
  <2> HIDE DEF T
  <2> QED
    BY <2>1, <2>2, UnderLeast
<1>2. U \subseteq Under(G, O)
  <2> DEFINE S == Under(G, O) \cup {b}
  <2>1. S \in SUBSET Blocks
    BY UnderBlocks
  <2>2. ASSUME NEW c \in Blocks, F[c].owner \in O \cup S
        PROVE  c \in S
    <3>1. CASE c = b
      BY <3>1
    <3>2. CASE c # b
      <4>1. G[c].owner \in O \cup Under(G, O)
        BY <2>2, <3>2
      <4> QED
        BY <4>1, UnderHas
    <3> QED
      BY <3>1, <3>2
  <2> HIDE DEF S
  <2>3. U \subseteq S
    BY <2>1, <2>2, UnderLeast
  <2> QED
    BY <2>3 DEF S
<1>3. o \in O \cup U => b \in Under(G, O)
  BY <1>2, UnderHas
<1> QED
  BY <1>1, <1>2, <1>3

\* Frames go with all that is below them.
LEMMA UnderRemove ==
  ASSUME NEW F, NEW G, NEW O, NEW D \in SUBSET Blocks,
         \A c \in Blocks : F[c].owner \in D => c \in D,
         \A c \in Blocks : G[c].owner = IF c \in D THEN None ELSE F[c].owner,
         None \notin O \cup Blocks, O \cap D = {}
  PROVE  Under(G, O) = Under(F, O) \ D
<1> DEFINE U == Under(F, O)
           V == Under(G, O)
<1>0. U \subseteq Blocks /\ V \subseteq Blocks
  BY UnderBlocks
<1>1. V \subseteq U \ D
  <2> DEFINE S == U \ D
  <2>1. S \in SUBSET Blocks
    BY <1>0
  <2>2. ASSUME NEW c \in Blocks, G[c].owner \in O \cup S
        PROVE  c \in S
    <3>1. c \notin D /\ F[c].owner \in O \cup U
      BY <2>2, <1>0
    <3> QED
      BY <3>1, UnderHas
  <2> HIDE DEF S
  <2>3. V \subseteq S
    BY <2>1, <2>2, UnderLeast
  <2> QED
    BY <2>3 DEF S
<1>2. U \subseteq V \cup D
  <2> DEFINE S == V \cup D
  <2>1. S \in SUBSET Blocks
    BY <1>0
  <2>2. ASSUME NEW c \in Blocks, F[c].owner \in O \cup S
        PROVE  c \in S
    <3>1. CASE c \in D
      BY <3>1
    <3>2. CASE c \notin D
      <4>1. G[c].owner \in O \cup V
        BY <2>2, <3>2
      <4> QED
        BY <4>1, UnderHas
    <3> QED
      BY <3>1, <3>2
  <2> HIDE DEF S
  <2>3. U \subseteq S
    BY <2>1, <2>2, UnderLeast
  <2> QED
    BY <2>3 DEF S
<1> QED
  BY <1>1, <1>2

(***************************************************************************)
(* The calls that a frame is made in, in any frames F.                     *)
(***************************************************************************)
Up(F, b) ==
    {c \in Blocks : \A S \in SUBSET Blocks :
        (b \in S /\ \A d \in S : F[d].continuation # None => F[d].continuation \in S) => c \in S}
Depths(F, b) == Cardinality(Up(F, b))
Levels(F, b, i) == {c \in Up(F, b) : Depths(F, c) = i}
The(S) == CHOOSE c \in S : TRUE
Chain(F, b) == [i \in 1..Depths(F, b) |-> The(Levels(F, b, i))]

\* The callers of the model are the chain, in its frames.
LEMMA CallersIsChain == \A b : Callers(b) = Chain(frame, b)
BY DEF Callers, Depth, AtDepth, Ancestors, Up, Depths, Levels, The, Chain

\* The principle of induction along the continuations.
LEMMA UpLeast ==
  ASSUME NEW F, NEW b, NEW S \in SUBSET Blocks, b \in S,
         \A d \in S : F[d].continuation # None => F[d].continuation \in S
  PROVE  Up(F, b) \subseteq S
BY DEF Up

\* A frame is in its own call.
LEMMA UpSelf ==
  ASSUME NEW F, NEW b \in Blocks
  PROVE  b \in Up(F, b) /\ Up(F, b) \subseteq Blocks
BY DEF Up

Continues(F) == \A b \in Blocks : F[b].continuation \in Blocks \cup {None}

\* So is the one that a frame of the call continues with.
LEMMA UpStep ==
  ASSUME NEW F, Continues(F), NEW b \in Blocks, NEW d \in Up(F, b), F[d].continuation # None
  PROVE  F[d].continuation \in Up(F, b)
<1>1. d \in Blocks /\ F[d].continuation \in Blocks
  BY UpSelf DEF Continues
<1> QED
  BY <1>1 DEF Up

\* The caller's calls, and the frame.
LEMMA UpPush ==
  ASSUME NEW F, Continues(F), NEW b \in Blocks, NEW g \in Blocks, F[b].continuation = g, g # None
  PROVE  Up(F, b) = Up(F, g) \cup {b}
<1>1. Up(F, b) \subseteq Up(F, g) \cup {b}
  <2> DEFINE S == Up(F, g) \cup {b}
  <2>1. S \in SUBSET Blocks /\ b \in S /\ g \in S
    BY UpSelf
  <2>2. ASSUME NEW d \in S, F[d].continuation # None
        PROVE  F[d].continuation \in S
    <3>1. CASE d = b
      BY <3>1, <2>1
    <3>2. CASE d # b
      BY <2>2, <3>2, UpStep
    <3> QED
      BY <3>1, <3>2
  <2> HIDE DEF S
  <2>3. Up(F, b) \subseteq S
    BY <2>1, <2>2, UpLeast
  <2> QED
    BY <2>3 DEF S
<1>2. b \in Up(F, b)
  BY UpSelf
<1>3. Up(F, g) \subseteq Up(F, b)
  <2>1. g \in Up(F, b)
    BY <1>2, UpStep
  <2>2. Up(F, b) \subseteq Blocks
    BY UpSelf
  <2> QED
    BY <2>1, <2>2, UpStep, UpLeast
<1> QED
  BY <1>1, <1>2, <1>3

\* A frame that continues nothing is called by nobody.
LEMMA UpRoot ==
  ASSUME NEW F, NEW b \in Blocks, F[b].continuation = None
  PROVE  Up(F, b) = {b}
<1>1. Up(F, b) \subseteq {b}
  <2>1. {b} \in SUBSET Blocks
    OBVIOUS
  <2> QED
    BY <2>1, UpLeast
<1> QED
  BY <1>1, UpSelf

\* The calls of a caller are among the calls of the frame.
LEMMA UpWithin ==
  ASSUME NEW F, Continues(F), NEW b \in Blocks, NEW c \in Up(F, b)
  PROVE  Up(F, c) \subseteq Up(F, b)
BY UpSelf, UpStep, UpLeast

\* Only the frames of a call matter for it.
LEMMA UpSame ==
  ASSUME NEW F, NEW G, Continues(F), Continues(G), NEW b \in Blocks,
         \A c \in Up(F, b) : G[c].continuation = F[c].continuation
  PROVE  Up(G, b) = Up(F, b)
<1>1. Up(F, b) \subseteq Blocks /\ b \in Up(F, b) /\ Up(G, b) \subseteq Blocks /\ b \in Up(G, b)
  BY UpSelf
<1>2. Up(G, b) \subseteq Up(F, b)
  <2>1. \A d \in Up(F, b) : G[d].continuation # None => G[d].continuation \in Up(F, b)
    BY UpStep
  <2> QED
    BY <1>1, <2>1, UpLeast
<1>3. \A d \in Up(G, b) : F[d].continuation # None => F[d].continuation \in Up(G, b)
  BY <1>2, UpStep
<1>4. Up(F, b) \subseteq Up(G, b)
  BY <1>1, <1>3, UpLeast
<1> QED
  BY <1>2, <1>4

\* The same calls, in the same order.
LEMMA ChainSame ==
  ASSUME NEW F, NEW G, Continues(F), Continues(G), NEW b \in Blocks,
         \A c \in Up(F, b) : G[c].continuation = F[c].continuation
  PROVE  Chain(G, b) = Chain(F, b)
<1>1. Up(G, b) = Up(F, b)
  BY UpSame
<1>2. ASSUME NEW c \in Up(F, b)
      PROVE  Up(G, c) = Up(F, c)
  <2>1. c \in Blocks /\ Up(F, c) \subseteq Up(F, b)
    BY UpSelf, UpWithin
  <2> QED
    BY <2>1, UpSame
<1>3. \A i : Levels(G, b, i) = Levels(F, b, i)
  BY <1>1, <1>2 DEF Levels, Depths
<1>4. Depths(G, b) = Depths(F, b)
  BY <1>1 DEF Depths
<1> QED
  BY <1>3, <1>4 DEF Chain

\* The chain of a frame that nobody called.
LEMMA ChainRoot ==
  ASSUME NEW F, NEW b \in Blocks, F[b].continuation = None
  PROVE  Chain(F, b) = <<b>>
<1>1. Up(F, b) = {b}
  BY UpRoot
<1>2. Depths(F, b) = 1
  BY <1>1, FS_Singleton DEF Depths
<1>3. Levels(F, b, 1) = {b}
  BY <1>1, <1>2 DEF Levels
<1>4. The({b}) = b
  BY DEF The
<1> QED
  BY <1>2, <1>3, <1>4 DEF Chain

\* A call adds the frame at the end of the chain of its caller.
LEMMA ChainPush ==
  ASSUME NEW F, Continues(F), NEW b \in Blocks, NEW g \in Blocks, IsFiniteSet(Blocks),
         F[b].continuation = g, g # None, b \notin Up(F, g)
  PROVE  /\ Chain(F, b) = Append(Chain(F, g), b)
         /\ Depths(F, g) \in Nat
<1>1. Up(F, b) = Up(F, g) \cup {b}
  BY UpPush
<1>2. IsFiniteSet(Up(F, g)) /\ Up(F, g) \subseteq Blocks
  BY UpSelf, FS_Subset
<1>3. Depths(F, g) \in Nat /\ Depths(F, b) = Depths(F, g) + 1
  BY <1>1, <1>2, FS_AddElement, FS_CardinalityType DEF Depths
<1>4. ASSUME NEW c \in Up(F, g)
      PROVE  Depths(F, c) \in Nat /\ Depths(F, c) <= Depths(F, g)
  <2>1. Up(F, c) \subseteq Up(F, g)
    BY UpWithin
  <2> QED
    BY <1>2, <2>1, FS_Subset, FS_CardinalityType DEF Depths
<1>5. \A i \in 1..Depths(F, g) : Levels(F, b, i) = Levels(F, g, i)
  BY <1>1, <1>3 DEF Levels
<1>6. Levels(F, b, Depths(F, g) + 1) = {b}
  BY <1>1, <1>3, <1>4 DEF Levels
<1>7. The({b}) = b
  BY DEF The
<1> DEFINE n == Depths(F, g)
           s == Chain(F, g)
           t == Chain(F, b)
           R == {The(Levels(F, g, i)) : i \in 1..n} \cup {b}
<1>8. /\ s = [i \in 1..n |-> The(Levels(F, g, i))]
      /\ t = [i \in 1..n + 1 |-> The(Levels(F, b, i))]
  BY <1>3 DEF Chain
<1>9. \A i \in 1..n : The(Levels(F, g, i)) \in R /\ The(Levels(F, b, i)) = The(Levels(F, g, i))
  BY <1>5
<1>10. The(Levels(F, b, n + 1)) = b /\ b \in R /\ n \in Nat
  BY <1>3, <1>6, <1>7
<1> HIDE DEF s, t, n, R
<1>11. /\ s \in [1..n -> R] /\ t \in [1..n + 1 -> R]
       /\ \A i \in 1..n : t[i] = s[i]
       /\ t[n + 1] = b
  <2>1. \A i \in 1..n + 1 : i \in 1..n \/ i = n + 1
    BY <1>10
  <2>2. \A i \in 1..n : i \in 1..n + 1
    BY <1>10
  <2>3. \A i \in 1..n + 1 : The(Levels(F, b, i)) \in R
    BY <1>9, <1>10, <2>1
  <2> QED
    BY <1>8, <1>9, <1>10, <2>2, <2>3
<1>12. s \in Seq(R) /\ Len(s) = n /\ t \in Seq(R) /\ Len(t) = n + 1
  BY <1>10, <1>11, SeqDef, LenProperties
<1>13. t = Append(s, b)
  <2>1. /\ Append(s, b) \in Seq(R) /\ Len(Append(s, b)) = n + 1
        /\ \A i \in 1..n : Append(s, b)[i] = s[i]
        /\ Append(s, b)[n + 1] = b
    BY <1>10, <1>12, AppendProperties
  <2>2. \A i \in 1..n + 1 : i \in 1..n \/ i = n + 1
    BY <1>10
  <2> QED
    BY <1>11, <1>12, <2>1, <2>2, SeqEqual
<1> QED
  BY <1>3, <1>13 DEF s, t

FrameStates == {"none", "start", "running", "suspended", "done"}
FrameRecords ==
    [state : FrameStates, size : Sizes \cup {0}, owner : Processes \cup Blocks \cup {None},
     continuation : Blocks \cup {None}, awaits : Blocks \cup {None}, outcome : {"none", "value", "failed"}]

TypeOK ==
    /\ frame \in [Blocks -> FrameRecords]
    /\ bytes \in [Blocks -> Nat]
    /\ pool \in [Threads -> [Classes -> Seq(Blocks)]]
    /\ count \in [Threads -> [Classes -> Nat]]
    /\ thread \in Threads
    /\ control \in Processes \cup Blocks \cup {None}
    /\ current \in Processes \cup {None}
    /\ process \in [Processes -> {"none", "alive", "ended"}]
    /\ root \in [Processes -> Blocks \cup {None}]
    /\ resumePoint \in [Processes -> Blocks \cup {None}]
    /\ raised \in BOOLEAN
    /\ received \in Blocks \cup {None}

Live(b) == frame[b].state # "none"
Active(b) == frame[b].state \in {"running", "suspended"}
Rounded(size) == IF IsPooled(size) THEN Class(size) * Granularity ELSE size

PoolInv ==
    /\ \A t \in Threads, c \in Classes :
          /\ count[t][c] = Len(pool[t][c]) /\ count[t][c] <= MaxFree
          /\ Distinct(pool[t][c])
          /\ c = 0 => pool[t][c] = <<>>
          /\ \A b \in Kept(t, c) : bytes[b] = c * Granularity /\ ~Live(b)
    /\ \A s, t \in Threads, c, d \in Classes : Kept(s, c) \cap Kept(t, d) # {} => s = t /\ c = d
    /\ \A b \in Blocks : Live(b) => frame[b].size \in Sizes /\ bytes[b] = Rounded(frame[b].size)
    /\ \A b \in Blocks : bytes[b] > 0 => Live(b) \/ \E t \in Threads, c \in Classes : b \in Kept(t, c)

Added == {p \in Processes : process[p] # "none"}
OwnerInv ==
    /\ \A b \in Blocks : Live(b) <=> b \in Below(Added)
    /\ \A b \in Blocks : ~Live(b) => frame[b] = NoFrame
    /\ \A p \in Processes : root[p] # None => frame[root[p]].owner = p
    /\ \A b \in Blocks : frame[b].owner \in Processes => root[frame[b].owner] = b
    /\ \A p \in Processes : process[p] = "none" => root[p] = None

CallInv ==
    /\ \A b \in Blocks : frame[b].continuation # None => frame[b].continuation = frame[b].owner
    /\ \A b \in Blocks : Active(b) /\ frame[b].owner \in Blocks =>
          /\ frame[b].continuation = frame[b].owner
          /\ frame[frame[b].owner].awaits = b
    /\ \A b \in Blocks : frame[b].awaits # None =>
          /\ frame[b].state = "suspended"
          /\ Active(frame[b].awaits)
          /\ frame[frame[b].awaits].owner = b
    /\ \A b \in Blocks : frame[b].state = "start" =>
          /\ frame[b].continuation = None
          /\ frame[b].owner \in Processes => /\ frame[b].owner \in CoroProcesses
                                             /\ resumePoint[frame[b].owner] = b

ControlInv ==
    /\ current = None <=> control = None
    /\ current # None => process[current] = "alive"
    /\ control = None => ~raised
    /\ control \in Processes => control = current /\ control \in PyTasks /\ ~IsAwaiting(control)
    /\ \A b \in Blocks : frame[b].state = "running" <=> control = b
    /\ control \in Blocks => control \in Below({current}) /\ root[current] # None /\ Active(root[current])

Waits(p) == process[p] = "alive" /\ p # current /\ (p \in CoroProcesses \/ IsAwaiting(p))
WaitInv ==
    /\ \A p \in CoroProcesses : process[p] = "alive" =>
          root[p] # None /\ frame[root[p]].state \in {"start", "running", "suspended"}
    /\ \A p \in Processes : Waits(p) =>
          /\ resumePoint[p] \in Below({p})
          /\ \/ frame[resumePoint[p]].state = "suspended"
             \/ frame[resumePoint[p]].state = "start" /\ resumePoint[p] = root[p]
          /\ frame[resumePoint[p]].awaits = None

IInv == TypeOK /\ PoolInv /\ OwnerInv /\ CallInv /\ ControlInv /\ WaitInv

-----------------------------------------------------------------------------
\* Names of blocks, processes and threads are distinct.
LEMMA Names ==
  /\ None \notin Processes /\ None \notin Blocks /\ None \notin Threads
  /\ Processes \cap Blocks = {} /\ CoroProcesses \cap PyTasks = {}
  /\ CoroProcesses \subseteq Processes /\ PyTasks \subseteq Processes
  /\ \A p \in Processes : p \in CoroProcesses \/ p \in PyTasks
  /\ IsFiniteSet(Blocks) /\ MaxFree \in Nat /\ SizeClasses \in Nat /\ Sizes \subseteq Nat
  /\ \A size \in Sizes : size \in Nat /\ size > 0
BY TasksAssumption DEF Processes

\* A size fits into its class, and none is in the class of 0.
LEMMA ClassOf ==
  ASSUME NEW size \in Sizes
  PROVE  /\ Class(size) \in Nat /\ Class(size) > 0
         /\ size <= Class(size) * Granularity
         /\ IsPooled(size) => Class(size) \in Classes
         /\ Rounded(size) \in Nat /\ Rounded(size) >= size /\ Rounded(size) > 0
<1> DEFINE g == Granularity
           x == size + g - 1
           q == x \div g
<1>1. g \in Nat /\ g > 0 /\ size \in Nat /\ size > 0
  BY TasksAssumption
<1>2. x \in Nat /\ x >= g
  BY <1>1
<1> HIDE DEF x
<1>3. q \in Int /\ g * q <= x /\ x < g * q + g
  BY <1>1, <1>2
<1> HIDE DEF q
<1>4. q > 0
  <2> SUFFICES ASSUME q <= 0 PROVE FALSE
    BY <1>3
  <2>1. g * q <= 0
    BY <1>1, <1>3
  <2> QED
    BY <1>1, <1>2, <1>3, <2>1
<1>5. size <= q * g
  <2>1. q * g = g * q /\ g * q \in Int
    BY <1>1, <1>3
  <2> QED
    BY <1>1, <1>3, <2>1 DEF x
<1>6. Class(size) = q
  BY DEF Class, q, x
<1>7. q * g \in Int /\ q \in Nat
  BY <1>1, <1>3, <1>4
<1>8. IsPooled(size) => Class(size) \in Classes
  BY <1>4, <1>6, <1>7, Names DEF IsPooled, Classes
<1> QED
  BY <1>1, <1>4, <1>5, <1>6, <1>7, <1>8 DEF Rounded

\* The fields of a frame have their types, and keep them when one is replaced.
LEMMA FrameFields ==
  /\ NoFrame \in FrameRecords
  /\ \A r \in FrameRecords :
        /\ r.state \in FrameStates /\ r.size \in Sizes \cup {0}
        /\ r.owner \in Processes \cup Blocks \cup {None}
        /\ r.continuation \in Blocks \cup {None} /\ r.awaits \in Blocks \cup {None}
        /\ r.outcome \in {"none", "value", "failed"}
        /\ \A s \in FrameStates : [r EXCEPT !.state = s] \in FrameRecords
        /\ \A o \in Processes \cup Blocks \cup {None} : [r EXCEPT !.owner = o] \in FrameRecords
        /\ \A b \in Blocks \cup {None} : /\ [r EXCEPT !.continuation = b] \in FrameRecords
                                         /\ [r EXCEPT !.awaits = b] \in FrameRecords
        /\ \A size \in Sizes : [r EXCEPT !.size = size] \in FrameRecords
        /\ \A o \in {"none", "value", "failed"} : [r EXCEPT !.outcome = o] \in FrameRecords
BY DEF FrameRecords, FrameStates, NoFrame

\* So has the promise of a coroutine that ends.
LEMMA PromiseTypes ==
  ASSUME NEW r \in FrameRecords
  PROVE  Returned(r) \in FrameRecords /\ Unhandled(r) \in FrameRecords /\ Taken(r) \in FrameRecords
<1>1. r.outcome \in {"none", "value", "failed"}
  BY FrameFields
<1> QED
  BY <1>1, FrameFields DEF Returned, Unhandled, Taken

\* operator new.
LEMMA NewTypes ==
  ASSUME TypeOK, PoolInv, NEW b \in Blocks, NEW size \in Sizes, NEW owner \in Processes \cup Blocks,
         NEW state \in FrameStates, New(b, size, owner, state)
  PROVE  /\ frame' \in [Blocks -> FrameRecords]
         /\ bytes' \in [Blocks -> Nat]
         /\ pool' \in [Threads -> [Classes -> Seq(Blocks)]]
         /\ count' \in [Threads -> [Classes -> Nat]]
<1>1. frame' \in [Blocks -> FrameRecords]
  <2> DEFINE r == [NoFrame EXCEPT !.state = state, !.size = size, !.owner = owner]
  <2>1. r \in FrameRecords
    BY DEF FrameRecords, NoFrame, FrameStates
  <2>2. frame' = [frame EXCEPT ![b] = r]
    BY DEF New
  <2> HIDE DEF r
  <2> QED
    BY <2>1, <2>2 DEF TypeOK
<1>2. CASE FromPool(size)
  <2>1. Class(size) \in Classes /\ pool[thread][Class(size)] \in Seq(Blocks) /\ pool[thread][Class(size)] # <<>>
    BY <1>2, ClassOf DEF FromPool, TypeOK
  <2>2. Tail(pool[thread][Class(size)]) \in Seq(Blocks)
    BY <2>1, HeadTailProperties
  <2>3. /\ pool' = [pool EXCEPT ![thread][Class(size)] = Tail(@)]
        /\ count' = [count EXCEPT ![thread][Class(size)] = @ - 1]
        /\ bytes' = bytes
    BY <1>2 DEF New
  <2>4. pool' \in [Threads -> [Classes -> Seq(Blocks)]]
    BY <2>1, <2>2, <2>3 DEF TypeOK
  <2>5. count' \in [Threads -> [Classes -> Nat]]
    <3>1. count[thread][Class(size)] - 1 \in Nat
      <4>1. count[thread][Class(size)] = Len(pool[thread][Class(size)])
        BY <2>1 DEF PoolInv, TypeOK
      <4>2. Len(pool[thread][Class(size)]) \in Nat /\ Len(pool[thread][Class(size)]) # 0
        BY <2>1, EmptySeq
      <4> QED
        BY <4>1, <4>2
    <3> QED
      BY <2>1, <2>3, <3>1 DEF TypeOK
  <2> QED
    BY <1>1, <2>3, <2>4, <2>5 DEF TypeOK
<1>3. CASE ~FromPool(size)
  <2>1. /\ bytes' = [bytes EXCEPT ![b] = Rounded(size)]
        /\ pool' = pool /\ count' = count
    BY <1>3 DEF New, Rounded
  <2>2. Rounded(size) \in Nat
    BY ClassOf
  <2>3. count \in [Threads -> [Classes -> Nat]]
    BY DEF TypeOK
  <2> QED
    BY <1>1, <2>1, <2>2, <2>3 DEF TypeOK
<1> QED
  BY <1>2, <1>3

\* And the frames that are left when some go.
LEMMA WithoutType ==
  ASSUME TypeOK, NEW doomed
  PROVE  Without(doomed) \in [Blocks -> FrameRecords]
BY FrameFields DEF Without, TypeOK

\* The lesser of two numbers.
LEMMA MinOf ==
  ASSUME NEW a \in Int, NEW b \in Int
  PROVE  Min({a, b}) = IF a <= b THEN a ELSE b
BY DEF Min

\* operator delete: the pool of the thread gets some of the blocks.
LEMMA Destroyed ==
  ASSUME TypeOK, NEW doomed \in SUBSET Blocks, Destroy(doomed)
  PROVE  \E kept \in [Classes -> Seq(Blocks)] :
            /\ \A c \in Classes :
                  /\ Distinct(kept[c])
                  /\ Range(kept[c]) \subseteq OfClass(doomed, c)
                  /\ Len(kept[c]) \in Nat
                  /\ Len(kept[c]) <= MaxFree - count[thread][c]
            /\ pool' = [pool EXCEPT ![thread] = [c \in Classes |-> kept[c] \o pool[thread][c]]]
            /\ count' = [count EXCEPT ![thread] = [c \in Classes |-> count[thread][c] + Len(kept[c])]]
            /\ bytes' = [b \in Blocks |->
                            IF b \in doomed /\ \A c \in Classes : b \notin Range(kept[c]) THEN 0 ELSE bytes[b]]
<1> PICK kept \in [Classes -> SetToAllKPermutations(doomed)] :
            /\ \A c \in Classes :
                  /\ Range(kept[c]) \subseteq OfClass(doomed, c)
                  /\ Len(kept[c]) = Min({Cardinality(OfClass(doomed, c)), Room(c)})
            /\ pool' = [pool EXCEPT ![thread] = [c \in Classes |-> kept[c] \o pool[thread][c]]]
            /\ count' = [count EXCEPT ![thread] = [c \in Classes |-> count[thread][c] + Len(kept[c])]]
            /\ bytes' = [b \in Blocks |->
                            IF b \in doomed /\ \A c \in Classes : b \notin Range(kept[c]) THEN 0 ELSE bytes[b]]
  BY DEF Destroy
<1>1. ASSUME NEW c \in Classes
      PROVE  /\ kept[c] \in Seq(Blocks) /\ Distinct(kept[c]) /\ Len(kept[c]) \in Nat
             /\ Len(kept[c]) <= MaxFree - count[thread][c]
  <2> PICK S \in SUBSET doomed : kept[c] \in SetToSeqs(S)
    BY DEF SetToAllKPermutations
  <2>1. IsFiniteSet(S) /\ IsFiniteSet(doomed) /\ IsFiniteSet(OfClass(doomed, c))
    <3>1. S \subseteq Blocks /\ doomed \subseteq Blocks /\ OfClass(doomed, c) \subseteq Blocks
      BY DEF OfClass
    <3> QED
      BY <3>1, Names, FS_Subset
  <2>2. kept[c] \in Seq(S) /\ Distinct(kept[c])
    BY <2>1, SetToSeqsElements
  <2>3. kept[c] \in Seq(Blocks)
    BY <2>2, SeqMonotonic
  <2>4. Cardinality(OfClass(doomed, c)) \in Nat /\ Room(c) \in Int /\ Len(kept[c]) \in Nat
    BY <2>1, <2>3, FS_CardinalityType, Names, LenProperties DEF Room, TypeOK
  <2>5. Len(kept[c]) = Min({Cardinality(OfClass(doomed, c)), Room(c)})
    OBVIOUS
  <2>6. Min({Cardinality(OfClass(doomed, c)), Room(c)}) <= Room(c)
    <3> DEFINE n == Cardinality(OfClass(doomed, c))
               m == Room(c)
    <3>1. n \in Int /\ m \in Int
      BY <2>4
    <3> HIDE DEF n, m
    <3>2. Min({n, m}) <= m
      BY <3>1, MinOf
    <3> QED
      BY <3>2 DEF n, m
  <2> QED
    BY <2>2, <2>3, <2>4, <2>5, <2>6 DEF Room
<1>2. kept \in [Classes -> Seq(Blocks)]
  BY <1>1
<1> QED
  BY <1>1, <1>2

(***************************************************************************)
(* What the steps do to the frames.                                        *)
(***************************************************************************)
\* Only live frames own something, and are owned by one of them or by a process that was added.
LEMMA Owners ==
  ASSUME TypeOK, OwnerInv
  PROVE  /\ \A b \in Blocks : Live(b) <=> b \in Under(frame, Added)
         /\ \A b \in Blocks : Live(b) => frame[b].owner \in Added \cup {c \in Blocks : Live(c)}
         /\ \A b \in Blocks : ~Live(b) => /\ frame[b] = NoFrame
                                          /\ frame[b].owner = None
                                          /\ frame[b].continuation = None
                                          /\ frame[b].awaits = None
                                          /\ frame[b].size = 0
         /\ \A b \in Blocks : frame[b].owner # None => Live(b)
         /\ \A b \in Blocks : Live(b) => b \notin Under(frame, {b})
         /\ \A b \in Blocks : frame[b].owner # b
<1>1. \A b \in Blocks : Live(b) <=> b \in Under(frame, Added)
  BY BelowIsUnder DEF OwnerInv
<1>2. ASSUME NEW b \in Blocks, ~Live(b)
      PROVE  /\ frame[b] = NoFrame
             /\ frame[b].owner = None
             /\ frame[b].continuation = None
             /\ frame[b].awaits = None
             /\ frame[b].size = 0
  BY <1>2 DEF OwnerInv, NoFrame
<1>3. ASSUME NEW b \in Blocks, Live(b)
      PROVE  frame[b].owner \in Added \cup {c \in Blocks : Live(c)}
  <2>1. frame[b].owner \in Added \cup Under(frame, Added)
    BY <1>1, <1>3, UnderFrom
  <2>2. Under(frame, Added) \subseteq Blocks
    BY UnderBlocks
  <2> QED
    BY <1>1, <2>1, <2>2
<1>4. ASSUME NEW b \in Blocks, Live(b)
      PROVE  b \notin Under(frame, {b})
  <2>1. Added \cap Blocks = {}
    BY Names DEF Added
  <2> QED
    BY <1>1, <1>4, <2>1, UnderAcyclic
<1>5. ASSUME NEW b \in Blocks
      PROVE  frame[b].owner # b
  <2>1. CASE Live(b)
    BY <1>4, <2>1, UnderHas
  <2>2. CASE ~Live(b)
    BY <1>2, <2>2, Names
  <2> QED
    BY <2>1, <2>2
<1> QED
  BY <1>1, <1>2, <1>3, <1>4, <1>5

\* The frames after resume(): the one that is resumed runs.
LEMMA ResumeFrameIs ==
  ASSUME TypeOK, NEW r \in Blocks, frame' = ResumeFrame(frame, r)
  PROVE  /\ frame' \in [Blocks -> FrameRecords]
         /\ \A c \in Blocks : c # r => frame'[c] = frame[c]
         /\ frame'[r] = [frame[r] EXCEPT !.state = "running"]
<1> DEFINE v == [frame[r] EXCEPT !.state = "running"]
<1>1. v \in FrameRecords
  BY FrameFields DEF TypeOK, FrameStates
<1>2. frame' = [frame EXCEPT ![r] = v]
  BY DEF ResumeFrame
<1> HIDE DEF v
<1>3. frame' \in [Blocks -> FrameRecords] /\ \A c \in Blocks : frame'[c] = IF c = r THEN v ELSE frame[c]
  BY <1>1, <1>2 DEF TypeOK
<1> QED
  BY <1>3 DEF v

\* After a co_await of a leaf: the one that waited is suspended.
LEMMA WaitIs ==
  ASSUME TypeOK, NEW f \in Blocks, Wait(f)
  PROVE  /\ frame' \in [Blocks -> FrameRecords]
         /\ \A c \in Blocks : c # f => frame'[c] = frame[c]
         /\ frame'[f] = [frame[f] EXCEPT !.state = "suspended"]
         /\ resumePoint' = [resumePoint EXCEPT ![current] = f]
<1> DEFINE v == [frame[f] EXCEPT !.state = "suspended"]
<1>1. v \in FrameRecords
  BY FrameFields DEF TypeOK, FrameStates
<1>2. frame' = [frame EXCEPT ![f] = v] /\ resumePoint' = [resumePoint EXCEPT ![current] = f]
  BY DEF Wait, ResumePoint
<1> HIDE DEF v
<1>3. frame' \in [Blocks -> FrameRecords] /\ \A c \in Blocks : frame'[c] = IF c = f THEN v ELSE frame[c]
  BY <1>1, <1>2 DEF TypeOK
<1> QED
  BY <1>2, <1>3 DEF v

\* After a co_await of a task: one frame waits for the other, which runs.
LEMMA AwaitIs ==
  ASSUME TypeOK, OwnerInv, NEW f \in Blocks, NEW b \in Blocks, Await(f, b)
  PROVE  /\ f # b
         /\ frame' \in [Blocks -> FrameRecords]
         /\ \A c \in Blocks : c # f /\ c # b => frame'[c] = frame[c]
         /\ frame'[f] = [frame[f] EXCEPT !.state = "suspended", !.awaits = b]
         /\ frame'[b] = [frame[b] EXCEPT !.continuation = f, !.state = "running"]
<1> DEFINE v == [frame[f] EXCEPT !.state = "suspended", !.awaits = b]
           w == [frame[b] EXCEPT !.continuation = f, !.state = "running"]
<1>0. f # b
  BY Owners DEF Await
<1>1. v \in FrameRecords
  <2>1. [frame[f] EXCEPT !.state = "suspended"] \in FrameRecords
    BY FrameFields DEF TypeOK, FrameStates
  <2> QED
    BY <2>1, FrameFields
<1>2. w \in FrameRecords
  <2>1. [frame[b] EXCEPT !.continuation = f] \in FrameRecords
    BY FrameFields DEF TypeOK, FrameStates
  <2> QED
    BY <2>1, FrameFields DEF FrameStates
<1>3. frame' = [[frame EXCEPT ![f] = v] EXCEPT ![b] = w]
  BY <1>0 DEF Await, TypeOK
<1> HIDE DEF v, w
<1>4. /\ frame' \in [Blocks -> FrameRecords]
      /\ \A c \in Blocks : frame'[c] = IF c = b THEN w ELSE IF c = f THEN v ELSE frame[c]
  BY <1>1, <1>2, <1>3 DEF TypeOK
<1> QED
  BY <1>0, <1>4 DEF v, w

\* After another co_await of a task that is done.
LEMMA AwaitAgainIs ==
  ASSUME TypeOK, NEW f \in Blocks, NEW b \in Blocks, AwaitAgain(f, b)
  PROVE  /\ frame' \in [Blocks -> FrameRecords]
         /\ \A c \in Blocks : c # b => frame'[c] = frame[c]
         /\ frame'[b] = Taken(frame[b])
<1>1. frame' = [frame EXCEPT ![b] = Taken(frame[b])]
  BY DEF AwaitAgain
<1>2. Taken(frame[b]) \in FrameRecords
  BY PromiseTypes DEF TypeOK
<1> QED
  BY <1>1, <1>2 DEF TypeOK

\* A promise is the frame, with its outcome.
IsPromise(f, promise) == promise \in {Returned(frame[f]), Unhandled(frame[f])}

\* What return_value() and unhandled_exception() leave of a promise.
LEMMA PromiseIs ==
  ASSUME TypeOK, NEW f \in Blocks, NEW promise, IsPromise(f, promise)
  PROVE  /\ promise \in FrameRecords
         /\ [promise EXCEPT !.state = "done"] \in FrameRecords
         /\ promise.owner = frame[f].owner /\ promise.continuation = frame[f].continuation
         /\ promise.awaits = frame[f].awaits /\ promise.size = frame[f].size
<1>1. frame[f] \in FrameRecords
  BY DEF TypeOK
<1>2. promise \in FrameRecords
  BY <1>1, PromiseTypes DEF IsPromise
<1>3. [promise EXCEPT !.state = "done"] \in FrameRecords
  BY <1>2, FrameFields DEF FrameStates
<1>4. CASE promise = Returned(frame[f])
  BY <1>1, <1>2, <1>3, <1>4 DEF Returned, FrameRecords
<1>5. CASE promise = Unhandled(frame[f])
  BY <1>1, <1>2, <1>3, <1>5 DEF Unhandled, FrameRecords
<1> QED
  BY <1>4, <1>5 DEF IsPromise

\* The end of a frame that nobody awaits.
LEMMA EndIs ==
  ASSUME TypeOK, NEW f \in Blocks, NEW promise, IsPromise(f, promise), NEW D \in SUBSET Blocks, f \notin D,
         frame' = [Without(D) EXCEPT ![f] = [promise EXCEPT !.state = "done"]]
  PROVE  /\ frame' \in [Blocks -> FrameRecords]
         /\ \A c \in Blocks : c # f => frame'[c] = IF c \in D THEN NoFrame ELSE frame[c]
         /\ frame'[f] = [promise EXCEPT !.state = "done"]
<1> DEFINE v == [promise EXCEPT !.state = "done"]
<1>1. v \in FrameRecords
  BY PromiseIs
<1>2. frame' = [Without(D) EXCEPT ![f] = v]
  OBVIOUS
<1> HIDE DEF v
<1>3. frame' \in [Blocks -> FrameRecords] /\ \A c \in Blocks : frame'[c] = IF c = f THEN v ELSE Without(D)[c]
  BY <1>1, <1>2, WithoutType
<1> QED
  BY <1>3 DEF v, Without

\* A frame whose code runs, or that will be resumed, is live.
LEMMA RunsIs ==
  ASSUME TypeOK, OwnerInv, ControlInv, NEW f \in Blocks, Runs(f)
  PROVE  /\ control = f /\ frame[f].state = "running" /\ Live(f) /\ Active(f)
         /\ current \in Processes /\ process[current] = "alive" /\ current \in Added
         /\ f \in Under(frame, {current})
         /\ root[current] \in Blocks /\ Active(root[current])
<1>1. control = f /\ control # None
  BY Names DEF Runs
<1>2. current \in Processes /\ process[current] = "alive"
  BY <1>1 DEF ControlInv, TypeOK
<1>3. /\ control \in Below({current}) /\ root[current] # None /\ Active(root[current])
      /\ frame[f].state = "running"
  BY <1>1 DEF ControlInv
<1> QED
  BY <1>1, <1>2, <1>3, BelowIsUnder DEF Added, Live, Active, TypeOK

\* Frames that go with all that is below them, where what they belong to, a, stays.
Doom(D, a) ==
    /\ D \subseteq Blocks /\ a \notin D
    /\ \A c \in Blocks : frame[c].owner \in D => c \in D
    /\ \A c \in D : Live(c) /\ frame[c].owner \in D \cup {a}

\* All that is below a process, or below a frame, may go together.
LEMMA DoomedBelow ==
  ASSUME TypeOK, OwnerInv, NEW a, a \in Processes \/ (a \in Blocks /\ Live(a))
  PROVE  Doom(Under(frame, {a}), a)
<1> DEFINE D == Under(frame, {a})
<1>1. D \subseteq Blocks
  BY UnderBlocks
<1>2. a \notin D
  <2>1. CASE a \in Processes
    BY <1>1, <2>1, Names
  <2>2. CASE a \in Blocks /\ Live(a)
    BY <2>2, Owners
  <2> QED
    BY <2>1, <2>2
<1>3. \A c \in Blocks : frame[c].owner \in D => c \in D
  BY UnderHas
<1>4. ASSUME NEW c \in D
      PROVE  Live(c) /\ frame[c].owner \in D \cup {a}
  <2>1. c \in Blocks /\ frame[c].owner \in D \cup {a}
    BY UnderFrom
  <2>2. frame[c].owner # None
    BY <1>1, <2>1, Names
  <2> QED
    BY <2>1, <2>2, Owners
<1> QED
  BY <1>1, <1>2, <1>3, <1>4 DEF Doom

\* So may a frame with all that is below it.
LEMMA DoomedWith ==
  ASSUME TypeOK, OwnerInv, NEW b \in Blocks, NEW a, frame[b].owner = a,
         a \in Processes \/ (a \in Blocks /\ Live(a))
  PROVE  /\ Doom({b} \cup Under(frame, {b}), a)
         /\ {b} \cup Under(frame, {b}) \subseteq Under(frame, {a})
<1> DEFINE D == {b} \cup Under(frame, {b})
<1>1. b \in Under(frame, {a})
  BY UnderHas
<1>2. D \subseteq Under(frame, {a})
  BY <1>1, UnderTrans
<1>3. Doom(Under(frame, {a}), a)
  BY DoomedBelow
<1>4. D \subseteq Blocks /\ a \notin D /\ \A c \in D : Live(c)
  BY <1>2, <1>3 DEF Doom
<1>5. \A c \in Blocks : frame[c].owner \in D => c \in D
  BY UnderHas
<1>6. \A c \in D : frame[c].owner \in D \cup {a}
  BY UnderFrom
<1> QED
  BY <1>2, <1>4, <1>5, <1>6 DEF Doom

\* The coroutine that awaits a frame goes on.
LEMMA ToAwaiterIs ==
  ASSUME TypeOK, OwnerInv, CallInv, ControlInv, NEW f \in Blocks, Runs(f),
         NEW promise, IsPromise(f, promise), ToAwaiter(f, promise)
  PROVE  LET g == frame[f].continuation
             D == Under(frame, {f})
             done == [promise EXCEPT !.state = "done"]
         IN /\ g \in Blocks /\ g # f /\ g \notin D /\ f \notin D
            /\ frame[f].owner = g /\ frame[g].awaits = f /\ frame[g].state = "suspended"
            /\ Destroy(D)
            /\ frame' \in [Blocks -> FrameRecords]
            /\ \A c \in Blocks : c # f /\ c # g => frame'[c] = IF c \in D THEN NoFrame ELSE frame[c]
            /\ frame'[f] = Taken(done)
            /\ frame'[g] = [frame[g] EXCEPT !.state = "running", !.awaits = None]
            /\ raised' = Throws(done)
            /\ received' = IF Throws(done) THEN None ELSE f
            /\ control' = g
            /\ UNCHANGED <<thread, current, process, root, resumePoint>>
<1> DEFINE g == frame[f].continuation
           D == Under(frame, {f})
           done == [promise EXCEPT !.state = "done"]
<1>1. frame[f].state = "running" /\ Live(f) /\ Active(f)
  BY RunsIs
<1>2. g # None /\ g \in Blocks /\ frame[f].owner = g
  BY FrameFields DEF ToAwaiter, Successor, TypeOK, CallInv
<1>3. g # f /\ frame[g].awaits = f /\ frame[g].state = "suspended"
  <2>1. frame[g].awaits = f
    BY <1>1, <1>2 DEF CallInv
  <2>2. frame[g].state = "suspended"
    BY <1>2, <2>1, Names DEF CallInv
  <2> QED
    BY <1>1, <2>1, <2>2
<1>4. f \notin D
  BY <1>1, Owners
<1>5. g \notin D
  BY <1>2, <1>4, UnderHas
<1>6. D \subseteq Blocks
  BY UnderBlocks
<1> DEFINE E == [Without(D) EXCEPT ![f] = done]
<1>7. /\ done \in FrameRecords
      /\ Taken(done) \in FrameRecords
      /\ [frame[g] EXCEPT !.state = "running", !.awaits = None] \in FrameRecords
  <2>1. frame[g] \in FrameRecords /\ done \in FrameRecords
    BY <1>2, PromiseIs DEF TypeOK
  <2>2. [frame[g] EXCEPT !.state = "running"] \in FrameRecords
    BY <2>1, FrameFields DEF FrameStates
  <2> QED
    BY <2>1, <2>2, PromiseTypes, FrameFields
<1>8. /\ E \in [Blocks -> FrameRecords]
      /\ E[f] = done /\ E[g] = frame[g]
      /\ \A c \in Blocks : c # f => E[c] = IF c \in D THEN NoFrame ELSE frame[c]
  <2> HIDE DEF done
  <2>1. Without(D) \in [Blocks -> FrameRecords]
    BY WithoutType
  <2>2. \A c \in Blocks : Without(D)[c] = IF c \in D THEN NoFrame ELSE frame[c]
    BY DEF Without
  <2> HIDE DEF D
  <2> QED
    BY <1>2, <1>3, <1>5, <1>7, <2>1, <2>2
<1>9. /\ Destroy(D)
      /\ frame' = [E EXCEPT ![g].state = "running", ![g].awaits = None, ![E[g].awaits] = Taken(@)]
      /\ raised' = Throws(E[E[g].awaits])
      /\ received' = IF Throws(E[E[g].awaits]) THEN None ELSE E[g].awaits
      /\ control' = g
      /\ UNCHANGED <<thread, current, process, root, resumePoint>>
  <2>1. Below({f}) = D
    BY BelowIsUnder
  <2> HIDE DEF D
  <2>2. E = [Without(Below({f})) EXCEPT ![f] = done]
    BY <2>1
  <2>3. /\ Destroy(Below({f}))
        /\ frame' = [[Without(Below({f})) EXCEPT ![f] = done] EXCEPT ![g].state = "running", ![g].awaits = None,
                                 ![[Without(Below({f})) EXCEPT ![f] = done][g].awaits] = Taken(@)]
    BY DEF ToAwaiter, Successor
  <2>4. /\ raised' = Throws([Without(Below({f})) EXCEPT ![f] = done][[Without(Below({f})) EXCEPT ![f] = done][g].awaits])
        /\ received' = IF Throws([Without(Below({f})) EXCEPT ![f] = done][[Without(Below({f})) EXCEPT ![f] = done][g].awaits])
                       THEN None ELSE [Without(Below({f})) EXCEPT ![f] = done][g].awaits
    BY DEF ToAwaiter, Successor
  <2>5. control' = g /\ UNCHANGED <<thread, current, process, root, resumePoint>>
    BY DEF ToAwaiter, Successor
  <2> HIDE DEF E, done
  <2> QED
    BY <2>1, <2>2, <2>3, <2>4, <2>5
<1>10. E[g].awaits = f
  BY <1>3, <1>8
<1>11. frame' = [[E EXCEPT ![g] = [frame[g] EXCEPT !.state = "running", !.awaits = None]] EXCEPT ![f] = Taken(done)]
  <2>1. frame' = [E EXCEPT ![g].state = "running", ![g].awaits = None, ![f] = Taken(@)]
    BY <1>9, <1>10
  <2> HIDE DEF E, done
  <2> QED
    BY <1>2, <1>3, <1>8, <2>1
<1>12. raised' = Throws(done) /\ received' = IF Throws(done) THEN None ELSE f
  BY <1>8, <1>9, <1>10
<1> DEFINE v == [frame[g] EXCEPT !.state = "running", !.awaits = None]
           w == Taken(done)
<1>13. /\ frame' \in [Blocks -> FrameRecords]
       /\ frame'[f] = w /\ frame'[g] = v
       /\ \A c \in Blocks : c # f /\ c # g => frame'[c] = E[c]
  <2>1. frame' = [[E EXCEPT ![g] = v] EXCEPT ![f] = w] /\ v \in FrameRecords /\ w \in FrameRecords
    BY <1>7, <1>11
  <2> HIDE DEF E, v, w
  <2> QED
    BY <1>2, <1>3, <1>8, <2>1
<1>14. \A c \in Blocks : c # f /\ c # g => frame'[c] = IF c \in D THEN NoFrame ELSE frame[c]
  BY <1>8, <1>13
<1>15. UNCHANGED <<thread, current, process, root, resumePoint>> /\ control' = g /\ Destroy(D)
  BY <1>9
<1> HIDE DEF D, E, done
<1> QED
  BY <1>2, <1>3, <1>4, <1>5, <1>12, <1>13, <1>14, <1>15 DEF D, done

(***************************************************************************)
(* The pools.                                                              *)
(***************************************************************************)
\* A pool keeps blocks.
LEMMA KeptBlocks ==
  ASSUME TypeOK, NEW t \in Threads, NEW c \in Classes
  PROVE  Kept(t, c) \subseteq Blocks
<1>1. pool[t][c] \in Seq(Blocks)
  BY DEF TypeOK
<1> QED
  BY <1>1, RangeOfSeq DEF Kept

\* PoolInv depends on the pools, and on which frame is in which block.
LEMMA PoolSame ==
  ASSUME TypeOK, PoolInv, UNCHANGED <<bytes, pool, count>>,
         \A b \in Blocks : (frame'[b].state # "none" <=> Live(b)) /\ frame'[b].size = frame[b].size
  PROVE  PoolInv'
<1>1. \A b \in Blocks : Live(b)' <=> Live(b)
  BY DEF Live
<1>2. \A t, c : Kept(t, c)' = Kept(t, c)
  BY DEF Kept
<1>3. ASSUME NEW t \in Threads, NEW c \in Classes
      PROVE  (/\ count[t][c] = Len(pool[t][c]) /\ count[t][c] <= MaxFree
              /\ Distinct(pool[t][c])
              /\ c = 0 => pool[t][c] = <<>>
              /\ \A b \in Kept(t, c) : bytes[b] = c * Granularity /\ ~Live(b))'
  BY <1>1, <1>2, KeptBlocks DEF PoolInv
<1> QED
  BY <1>1, <1>2, <1>3 DEF PoolInv

\* The pools, after frames are destroyed.
LEMMA PoolDestroy ==
  ASSUME TypeOK, PoolInv, NEW D \in SUBSET Blocks, Destroy(D), thread' = thread,
         \A b \in D : Live(b) /\ frame'[b].state = "none",
         \A b \in Blocks \ D : (frame'[b].state # "none" <=> Live(b)) /\ frame'[b].size = frame[b].size
  PROVE  /\ PoolInv'
         /\ bytes' \in [Blocks -> Nat]
         /\ pool' \in [Threads -> [Classes -> Seq(Blocks)]]
         /\ count' \in [Threads -> [Classes -> Nat]]
<1> PICK kept \in [Classes -> Seq(Blocks)] :
            /\ \A c \in Classes :
                  /\ Distinct(kept[c])
                  /\ Range(kept[c]) \subseteq OfClass(D, c)
                  /\ Len(kept[c]) \in Nat
                  /\ Len(kept[c]) <= MaxFree - count[thread][c]
            /\ pool' = [pool EXCEPT ![thread] = [c \in Classes |-> kept[c] \o pool[thread][c]]]
            /\ count' = [count EXCEPT ![thread] = [c \in Classes |-> count[thread][c] + Len(kept[c])]]
            /\ bytes' = [b \in Blocks |->
                            IF b \in D /\ \A c \in Classes : b \notin Range(kept[c]) THEN 0 ELSE bytes[b]]
  BY Destroyed
<1>0. thread \in Threads
  BY DEF TypeOK
<1>1. /\ \A t \in Threads, c \in Classes : /\ t # thread => pool'[t][c] = pool[t][c] /\ count'[t][c] = count[t][c]
                                           /\ t = thread => /\ pool'[t][c] = kept[c] \o pool[t][c]
                                                            /\ count'[t][c] = count[t][c] + Len(kept[c])
      /\ \A b \in Blocks : bytes'[b] = IF b \in D /\ \A c \in Classes : b \notin Range(kept[c]) THEN 0 ELSE bytes[b]
  BY <1>0 DEF TypeOK
<1>2. bytes' \in [Blocks -> Nat]
  BY DEF TypeOK
<1>3. pool' \in [Threads -> [Classes -> Seq(Blocks)]]
  <2>1. ASSUME NEW c \in Classes
        PROVE  kept[c] \o pool[thread][c] \in Seq(Blocks)
    <3>1. kept[c] \in Seq(Blocks) /\ pool[thread][c] \in Seq(Blocks)
      BY <1>0 DEF TypeOK
    <3> QED
      BY <3>1, ConcatProperties
  <2>2. [c \in Classes |-> kept[c] \o pool[thread][c]] \in [Classes -> Seq(Blocks)]
    BY <2>1
  <2> QED
    BY <1>0, <2>2 DEF TypeOK
<1>4. count' \in [Threads -> [Classes -> Nat]]
  <2>1. [c \in Classes |-> count[thread][c] + Len(kept[c])] \in [Classes -> Nat]
    <3>1. \A c \in Classes : count[thread][c] \in Nat /\ Len(kept[c]) \in Nat
      BY <1>0 DEF TypeOK
    <3> QED
      BY <3>1
  <2> QED
    BY <1>0, <2>1 DEF TypeOK
<1>5. \A b \in Blocks : /\ b \in D => Live(b) /\ ~Live(b)'
                        /\ b \notin D => (Live(b)' <=> Live(b)) /\ frame'[b].size = frame[b].size
  BY DEF Live
<1>6. ASSUME NEW c \in Classes
      PROVE  /\ \A b \in Range(kept[c]) : /\ b \in D /\ c # 0
                                          /\ bytes[b] = c * Granularity
             /\ Distinct(kept[c] \o pool[thread][c])
             /\ Range(kept[c] \o pool[thread][c]) = Range(kept[c]) \cup Kept(thread, c)
             /\ Len(kept[c] \o pool[thread][c]) = Len(kept[c]) + Len(pool[thread][c])
             /\ c = 0 => kept[c] = <<>>
  <2>1. kept[c] \in Seq(Blocks) /\ pool[thread][c] \in Seq(Blocks)
    BY <1>0 DEF TypeOK
  <2>2. ASSUME NEW b \in Range(kept[c])
        PROVE  /\ b \in D /\ c # 0 /\ Live(b)
               /\ bytes[b] = c * Granularity
    <3>1. b \in D /\ IsPooled(frame[b].size) /\ Class(frame[b].size) = c
      BY DEF OfClass
    <3>2. frame[b].size \in Sizes /\ bytes[b] = Rounded(frame[b].size)
      BY <3>1 DEF PoolInv
    <3> QED
      BY <3>1, <3>2, ClassOf DEF Rounded
  <2>3. Range(kept[c]) \cap Kept(thread, c) = {}
    BY <1>0, <2>2 DEF PoolInv
  <2>4. Distinct(pool[thread][c]) /\ Distinct(kept[c])
    BY <1>0 DEF PoolInv
  <2>5. /\ Distinct(kept[c] \o pool[thread][c])
        /\ Range(kept[c] \o pool[thread][c]) = Range(kept[c]) \cup Kept(thread, c)
    BY <2>1, <2>3, <2>4, ConcatElements DEF Kept
  <2>6. Len(kept[c] \o pool[thread][c]) = Len(kept[c]) + Len(pool[thread][c])
    BY <2>1, ConcatProperties
  <2>7. c = 0 => kept[c] = <<>>
    <3> SUFFICES ASSUME c = 0, kept[c] # <<>> PROVE FALSE
      OBVIOUS
    <3>1. Head(kept[c]) \in Range(kept[c])
      BY <2>1, <2>4, TailElements
    <3> QED
      BY <2>2, <3>1
  <2> QED
    BY <2>2, <2>5, <2>6, <2>7
<1>7. \A t \in Threads, c \in Classes :
         /\ t # thread => Kept(t, c)' = Kept(t, c)
         /\ t = thread => Kept(t, c)' = Range(kept[c]) \cup Kept(t, c)
  <2>1. ASSUME NEW t \in Threads, NEW c \in Classes, t # thread
        PROVE  Kept(t, c)' = Kept(t, c)
    BY <1>1, <2>1 DEF Kept
  <2>3. ASSUME NEW c \in Classes, NEW t \in Threads, t = thread
        PROVE  Kept(t, c)' = Range(kept[c]) \cup Kept(t, c)
    <3>1. pool'[t][c] = kept[c] \o pool[t][c]
      BY <1>1, <2>3
    <3>2. Range(kept[c] \o pool[t][c]) = Range(kept[c]) \cup Kept(t, c)
      BY <1>6, <2>3
    <3>3. Range(pool'[t][c]) = Range(kept[c]) \cup Kept(t, c)
      BY <3>1, <3>2
    <3> QED
      BY <3>3 DEF Kept
  <2> QED
    BY <2>1, <2>3
<1>8. ASSUME NEW t \in Threads, NEW c \in Classes
      PROVE  (/\ count[t][c] = Len(pool[t][c]) /\ count[t][c] <= MaxFree
              /\ Distinct(pool[t][c])
              /\ c = 0 => pool[t][c] = <<>>)'
  <2>1. CASE t # thread
    BY <1>1, <2>1 DEF PoolInv
  <2>2. CASE t = thread
    <3>1. count[t][c] \in Nat /\ Len(kept[c]) \in Nat /\ MaxFree \in Nat /\ Len(kept[c]) <= MaxFree - count[t][c]
      BY <2>2, Names DEF TypeOK
    <3>2. count[t][c] = Len(pool[t][c]) /\ (c = 0 => pool[t][c] = <<>>)
      BY DEF PoolInv
    <3>3. c = 0 => kept[c] \o pool[t][c] = <<>>
      BY <1>6, <3>2
    <3>4. /\ pool'[t][c] = kept[c] \o pool[t][c]
          /\ count'[t][c] = count[t][c] + Len(kept[c])
      BY <1>1, <2>2
    <3>5. Distinct(kept[c] \o pool[t][c]) /\ Len(kept[c] \o pool[t][c]) = Len(kept[c]) + Len(pool[t][c])
      BY <1>6, <2>2
    <3>6. count'[t][c] = Len(kept[c] \o pool[t][c]) /\ count'[t][c] <= MaxFree
      BY <3>1, <3>2, <3>4, <3>5
    <3> QED
      BY <3>3, <3>4, <3>5, <3>6
  <2> QED
    BY <2>1, <2>2
<1>9. ASSUME NEW t \in Threads, NEW c \in Classes, NEW b \in Kept(t, c)'
      PROVE  bytes'[b] = c * Granularity /\ ~Live(b)' /\ b \in Blocks
  <2>1. CASE b \in Kept(t, c)
    <3>1. b \in Blocks /\ bytes[b] = c * Granularity /\ ~Live(b)
      BY <2>1, KeptBlocks DEF PoolInv
    <3> QED
      BY <1>1, <1>5, <3>1
  <2>2. CASE b \notin Kept(t, c)
    <3>1. t = thread /\ b \in Range(kept[c])
      BY <1>7, <2>2
    <3>2. b \in D /\ bytes[b] = c * Granularity
      BY <1>6, <3>1
    <3> QED
      BY <1>1, <1>5, <3>1, <3>2
  <2> QED
    BY <2>1, <2>2
<1>10. ASSUME NEW s \in Threads, NEW t \in Threads, NEW c \in Classes, NEW d \in Classes,
              NEW b \in Kept(s, c)' \cap Kept(t, d)'
       PROVE  s = t /\ c = d
  <2>1. CASE b \in D
    <3>1. ASSUME NEW u \in Threads, NEW e \in Classes, b \in Kept(u, e)'
          PROVE  u = thread /\ e = Class(frame[b].size)
      <4>1. b \notin Kept(u, e)
        BY <2>1 DEF PoolInv
      <4>2. u = thread /\ b \in Range(kept[e])
        BY <1>7, <3>1, <4>1
      <4> QED
        BY <4>2 DEF OfClass
    <3> QED
      BY <3>1
  <2>2. CASE b \notin D
    <3>1. b \in Kept(s, c) /\ b \in Kept(t, d)
      BY <1>6, <1>7, <2>2
    <3> QED
      BY <3>1 DEF PoolInv
  <2> QED
    BY <2>1, <2>2
<1>11. ASSUME NEW b \in Blocks, Live(b)'
       PROVE  (frame[b].size \in Sizes /\ bytes[b] = Rounded(frame[b].size))'
  <2>1. b \notin D /\ Live(b) /\ frame'[b].size = frame[b].size
    BY <1>5, <1>11
  <2>2. frame[b].size \in Sizes /\ bytes[b] = Rounded(frame[b].size)
    BY <2>1 DEF PoolInv
  <2>3. Rounded(frame[b].size)' = Rounded(frame[b].size)
    BY <2>1 DEF Rounded, IsPooled, Class
  <2> QED
    BY <1>1, <2>1, <2>2, <2>3
<1>12. ASSUME NEW b \in Blocks, bytes'[b] > 0
       PROVE  (Live(b) \/ \E t \in Threads, c \in Classes : b \in Kept(t, c))'
  <2>1. CASE b \in D
    <3>1. PICK c \in Classes : b \in Range(kept[c])
      BY <1>1, <1>12, <2>1
    <3>2. b \in Kept(thread, c)'
      BY <1>0, <1>7, <3>1
    <3> QED
      BY <1>0, <3>2
  <2>2. CASE b \notin D
    <3>1. Live(b) \/ \E t \in Threads, c \in Classes : b \in Kept(t, c)
      BY <1>1, <1>12, <2>2 DEF PoolInv
    <3> QED
      BY <1>5, <1>7, <2>2, <3>1
  <2> QED
    BY <2>1, <2>2
<1>13. PoolInv'
  <2>1. ASSUME NEW t \in Threads, NEW c \in Classes
        PROVE  (/\ count[t][c] = Len(pool[t][c]) /\ count[t][c] <= MaxFree
                /\ Distinct(pool[t][c])
                /\ c = 0 => pool[t][c] = <<>>
                /\ \A b \in Kept(t, c) : bytes[b] = c * Granularity /\ ~Live(b))'
    BY <1>8, <1>9
  <2>2. (\A s, t \in Threads, c, d \in Classes : Kept(s, c) \cap Kept(t, d) # {} => s = t /\ c = d)'
    BY <1>10
  <2>3. (\A b \in Blocks : bytes[b] > 0 => Live(b) \/ \E t \in Threads, c \in Classes : b \in Kept(t, c))'
    BY <1>12
  <2>4. (\A b \in Blocks : Live(b) => frame[b].size \in Sizes /\ bytes[b] = Rounded(frame[b].size))'
    BY <1>11
  <2>5. (\A t \in Threads, c \in Classes :
          /\ count[t][c] = Len(pool[t][c]) /\ count[t][c] <= MaxFree
          /\ Distinct(pool[t][c])
          /\ c = 0 => pool[t][c] = <<>>
          /\ \A b \in Kept(t, c) : bytes[b] = c * Granularity /\ ~Live(b))'
    BY <2>1
  <2> QED
    BY <2>2, <2>3, <2>4, <2>5 DEF PoolInv
<1> QED
  BY <1>2, <1>3, <1>4, <1>13

\* A new frame gets a block that nothing is in, and that no pool lists any more.
LEMMA NewBlock ==
  ASSUME TypeOK, PoolInv, NEW b \in Blocks, NEW size \in Sizes, b \in NextBlock(size)
  PROVE  ~Live(b)
<1>1. CASE FromPool(size)
  <2>1. Class(size) \in Classes /\ thread \in Threads /\ pool[thread][Class(size)] \in Seq(Blocks)
    BY <1>1, ClassOf DEF FromPool, TypeOK
  <2>2. b = Head(pool[thread][Class(size)]) /\ pool[thread][Class(size)] # <<>>
    BY <1>1 DEF NextBlock, FromPool
  <2>3. b \in Kept(thread, Class(size))
    BY <2>1, <2>2, TailElements DEF PoolInv, Kept
  <2> QED
    BY <2>1, <2>3 DEF PoolInv
<1>2. CASE ~FromPool(size)
  <2>1. bytes[b] = 0
    BY <1>2 DEF NextBlock
  <2> QED
    BY <2>1, ClassOf DEF PoolInv
<1> QED
  BY <1>1, <1>2

Fresh(size, owner, state) == [NoFrame EXCEPT !.state = state, !.size = size, !.owner = owner]

\* What a new frame is.
LEMMA FreshIs ==
  ASSUME NEW size \in Sizes, NEW owner \in Processes \cup Blocks, NEW state \in FrameStates
  PROVE  LET r == Fresh(size, owner, state)
         IN /\ r \in FrameRecords
            /\ r.state = state /\ r.size = size /\ r.owner = owner
            /\ r.continuation = None /\ r.awaits = None
BY DEF FrameRecords, NoFrame, FrameStates, Fresh

\* The frames after a coroutine is called.
LEMMA NewFrame ==
  ASSUME TypeOK, NEW b \in Blocks, NEW size \in Sizes, NEW owner \in Processes \cup Blocks,
         NEW state \in FrameStates, New(b, size, owner, state)
  PROVE  /\ \A c \in Blocks : c # b => frame'[c] = frame[c]
         /\ frame'[b] = Fresh(size, owner, state)
<1> DEFINE r == Fresh(size, owner, state)
<1>1. frame' = [frame EXCEPT ![b] = r]
  BY DEF New, Fresh
<1> HIDE DEF r
<1>2. \A c \in Blocks : frame'[c] = IF c = b THEN r ELSE frame[c]
  BY <1>1 DEF TypeOK
<1> QED
  BY <1>2 DEF r

\* The pools after a coroutine is called.
LEMMA PoolNew ==
  ASSUME TypeOK, PoolInv, NEW b \in Blocks, NEW size \in Sizes, NEW owner \in Processes \cup Blocks,
         NEW state \in {"start", "running"}, New(b, size, owner, state)
  PROVE  PoolInv'
<1>0. thread \in Threads /\ b \in NextBlock(size)
  BY DEF TypeOK, New
<1>1. ~Live(b)
  BY <1>0, NewBlock
<1>2. /\ \A c \in Blocks : c # b => (Live(c)' <=> Live(c)) /\ frame'[c].size = frame[c].size
      /\ Live(b)' /\ frame'[b].size = size
  <2>1. /\ \A c \in Blocks : c # b => frame'[c] = frame[c]
        /\ frame'[b] = Fresh(size, owner, state)
    <3>1. New(b, size, owner, state) /\ state \in FrameStates
      BY DEF FrameStates
    <3> QED
      BY <3>1, NewFrame
  <2> QED
    BY <2>1, FreshIs DEF Live, FrameStates
<1>3. /\ \A t \in Threads, c \in Classes : Kept(t, c)' \subseteq Kept(t, c) \ {b}
      /\ \A t \in Threads, c \in Classes :
            (/\ count[t][c] = Len(pool[t][c]) /\ count[t][c] <= MaxFree
             /\ Distinct(pool[t][c])
             /\ c = 0 => pool[t][c] = <<>>)'
      /\ \A c \in Blocks : c # b => bytes'[c] = bytes[c]
      /\ bytes'[b] = Rounded(size)
      /\ \A t \in Threads, c \in Classes : Kept(t, c) \subseteq Kept(t, c)' \cup {b}
  <2>1. CASE FromPool(size)
    <3> DEFINE d == Class(size)
               s == pool[thread][d]
    <3>1. d \in Classes /\ s \in Seq(Blocks) /\ s # <<>> /\ b = Head(s) /\ Distinct(s)
      BY <1>0, <2>1, ClassOf DEF FromPool, NextBlock, TypeOK, PoolInv
    <3>2. d # 0 /\ IsPooled(size) /\ d * Granularity = Rounded(size)
      BY <2>1, ClassOf DEF FromPool, Rounded
    <3>3. b \in Range(s) /\ Distinct(Tail(s)) /\ Range(Tail(s)) \subseteq Range(s) \ {b}
      BY <3>1, TailElements
    <3>4. Range(s) \subseteq Range(Tail(s)) \cup {b}
      <4>1. DOMAIN s = 1..Len(s) /\ DOMAIN Tail(s) = 1..Len(s) - 1 /\ b = s[1] /\ Len(s) \in Nat
            /\ \A i \in 1..Len(s) - 1 : Tail(s)[i] = s[i + 1]
        BY <3>1, HeadTailProperties, LenProperties
      <4>2. ASSUME NEW i \in 1..Len(s), i # 1
            PROVE  s[i] \in Range(Tail(s))
        <5>1. i - 1 \in 1..Len(s) - 1 /\ Tail(s)[i - 1] = s[i]
          BY <4>1, <4>2
        <5> QED
          BY <4>1, <5>1 DEF Range
      <4> QED
        BY <4>1, <4>2 DEF Range
    <3>5. /\ pool' = [pool EXCEPT ![thread][d] = Tail(s)]
          /\ count' = [count EXCEPT ![thread][d] = count[thread][d] - 1]
          /\ bytes' = bytes
      BY <2>1 DEF New
    <3> HIDE DEF d, s
    <3>6. /\ pool'[thread][d] = Tail(s) /\ count'[thread][d] = count[thread][d] - 1
          /\ \A t \in Threads, c \in Classes : t # thread \/ c # d =>
                pool'[t][c] = pool[t][c] /\ count'[t][c] = count[t][c]
      BY <1>0, <3>1, <3>5 DEF TypeOK
    <3>7. Kept(thread, d) = Range(s)
      BY DEF Kept, s
    <3>8. ASSUME NEW t \in Threads, NEW c \in Classes
          PROVE  /\ Kept(t, c)' \subseteq Kept(t, c) \ {b}
                 /\ Kept(t, c) \subseteq Kept(t, c)' \cup {b}
      <4>1. CASE t = thread /\ c = d
        <5>1. Range(pool'[t][c]) = Range(Tail(s)) /\ Kept(t, c) = Range(s)
          BY <3>6, <3>7, <4>1
        <5> QED
          BY <3>3, <3>4, <5>1 DEF Kept
      <4>2. CASE t # thread \/ c # d
        <5>1. Range(pool'[t][c]) = Kept(t, c)
          BY <3>6, <4>2 DEF Kept
        <5>2. b \notin Kept(t, c)
          BY <1>0, <3>1, <3>3, <3>7, <4>2 DEF PoolInv
        <5> QED
          BY <5>1, <5>2 DEF Kept
      <4> QED
        BY <4>1, <4>2
    <3>9. ASSUME NEW t \in Threads, NEW c \in Classes
          PROVE  (/\ count[t][c] = Len(pool[t][c]) /\ count[t][c] <= MaxFree
                  /\ Distinct(pool[t][c])
                  /\ c = 0 => pool[t][c] = <<>>)'
      <4>0. /\ count[t][c] = Len(pool[t][c]) /\ count[t][c] <= MaxFree
            /\ Distinct(pool[t][c])
            /\ c = 0 => pool[t][c] = <<>>
        BY DEF PoolInv
      <4>1. CASE t = thread /\ c = d
        <5>1. Len(Tail(s)) = Len(s) - 1 /\ Len(s) \in Nat
          BY <3>1, HeadTailProperties, LenProperties
        <5>2. count'[t][c] = count[t][c] - 1 /\ pool'[t][c] = Tail(s) /\ s = pool[t][c]
          BY <3>6, <4>1 DEF s
        <5> QED
          BY <3>2, <3>3, <4>0, <4>1, <5>1, <5>2, Names
      <4>2. CASE t # thread \/ c # d
        BY <3>6, <4>0, <4>2
      <4> QED
        BY <4>1, <4>2
    <3>10. bytes[b] = Rounded(size)
      BY <1>0, <3>1, <3>2, <3>3, <3>7 DEF PoolInv
    <3> QED
      BY <3>5, <3>8, <3>9, <3>10
  <2>2. CASE ~FromPool(size)
    <3>1. bytes' = [bytes EXCEPT ![b] = Rounded(size)] /\ pool' = pool /\ count' = count
      BY <2>2 DEF New, Rounded
    <3>2. /\ \A c \in Blocks : c # b => bytes'[c] = bytes[c]
          /\ bytes'[b] = Rounded(size)
      BY <3>1 DEF TypeOK
    <3>3. bytes[b] = 0
      BY <1>0, <2>2 DEF NextBlock
    <3>4. ASSUME NEW t \in Threads, NEW c \in Classes
          PROVE  b \notin Kept(t, c)
      <4> SUFFICES ASSUME b \in Kept(t, c) PROVE FALSE
        OBVIOUS
      <4>1. c * Granularity = 0 /\ c \in Nat /\ Granularity \in Nat \ {0}
        BY <3>3, TasksAssumption DEF PoolInv, Classes
      <4>2. c = 0
        BY <4>1
      <4>3. pool[t][c] = <<>>
        BY <4>2 DEF PoolInv
      <4> QED
        BY <4>3 DEF Kept, Range
    <3>5. \A t, c : Kept(t, c)' = Kept(t, c)
      BY <3>1 DEF Kept
    <3>6. \A t \in Threads, c \in Classes :
            (/\ count[t][c] = Len(pool[t][c]) /\ count[t][c] <= MaxFree
             /\ Distinct(pool[t][c])
             /\ c = 0 => pool[t][c] = <<>>)'
      BY <3>1 DEF PoolInv
    <3> QED
      BY <3>2, <3>4, <3>5, <3>6
  <2> QED
    BY <2>1, <2>2
<1>4. \A t \in Threads, c \in Classes : \A x \in Kept(t, c)' : x \in Blocks /\ x # b /\ x \in Kept(t, c)
  BY <1>3, KeptBlocks
<1>5. (\A t \in Threads, c \in Classes :
          /\ count[t][c] = Len(pool[t][c]) /\ count[t][c] <= MaxFree
          /\ Distinct(pool[t][c])
          /\ c = 0 => pool[t][c] = <<>>
          /\ \A x \in Kept(t, c) : bytes[x] = c * Granularity /\ ~Live(x))'
  <2>1. ASSUME NEW t \in Threads, NEW c \in Classes, NEW x \in Kept(t, c)'
        PROVE  bytes'[x] = c * Granularity /\ ~Live(x)'
    <3>1. bytes[x] = c * Granularity /\ ~Live(x)
      BY <1>4 DEF PoolInv
    <3> QED
      BY <1>2, <1>3, <1>4, <3>1
  <2> QED
    BY <1>3, <2>1
<1>6. (\A s, t \in Threads, c, d \in Classes : Kept(s, c) \cap Kept(t, d) # {} => s = t /\ c = d)'
  BY <1>3 DEF PoolInv
<1>7. (\A x \in Blocks : Live(x) => frame[x].size \in Sizes /\ bytes[x] = Rounded(frame[x].size))'
  <2>1. \A n : Rounded(n)' = Rounded(n)
    BY DEF Rounded, IsPooled, Class
  <2>2. \A x \in Blocks : x # b /\ Live(x)' => frame'[x].size \in Sizes /\ bytes'[x] = Rounded(frame'[x].size)
    BY <1>2, <1>3 DEF PoolInv
  <2>3. frame'[b].size \in Sizes /\ bytes'[b] = Rounded(frame'[b].size)
    BY <1>2, <1>3
  <2> QED
    BY <2>1, <2>2, <2>3
<1>8. (\A x \in Blocks : bytes[x] > 0 => Live(x) \/ \E t \in Threads, c \in Classes : x \in Kept(t, c))'
  BY <1>2, <1>3 DEF PoolInv
<1> QED
  BY <1>5, <1>6, <1>7, <1>8 DEF PoolInv

\* The pools after a thread ended.
LEMMA PoolEndThread ==
  ASSUME TypeOK, PoolInv, NEW t \in Threads, EndThread(t)
  PROVE  /\ PoolInv'
         /\ bytes' \in [Blocks -> Nat]
         /\ pool' \in [Threads -> [Classes -> Seq(Blocks)]]
         /\ count' \in [Threads -> [Classes -> Nat]]
<1>1. /\ \A u \in Threads, c \in Classes : IF u = t THEN pool'[u][c] = <<>> /\ count'[u][c] = 0
                                           ELSE pool'[u][c] = pool[u][c] /\ count'[u][c] = count[u][c]
      /\ pool' \in [Threads -> [Classes -> Seq(Blocks)]]
      /\ count' \in [Threads -> [Classes -> Nat]]
  <2>1. /\ pool' = [pool EXCEPT ![t] = [c \in Classes |-> <<>>]]
        /\ count' = [count EXCEPT ![t] = [c \in Classes |-> 0]]
    BY DEF EndThread
  <2>2. <<>> \in Seq(Blocks)
    OBVIOUS
  <2>3. [c \in Classes |-> <<>>] \in [Classes -> Seq(Blocks)] /\ [c \in Classes |-> 0] \in [Classes -> Nat]
    BY <2>2
  <2> QED
    BY <2>1, <2>3 DEF TypeOK
<1>2. \A b \in Blocks : bytes'[b] = IF \E c \in Classes : b \in Kept(t, c) THEN 0 ELSE bytes[b]
  <2>1. \A c \in Classes : \A b : Contains(pool[t][c], b) <=> b \in Kept(t, c)
    <3>1. \A c \in Classes : pool[t][c] \in Seq(Blocks)
      BY DEF TypeOK
    <3>2. \A c \in Classes : Kept(t, c) = {pool[t][c][i] : i \in 1..Len(pool[t][c])}
      BY <3>1, RangeEquality DEF Kept
    <3> QED
      BY <3>2 DEF Contains
  <2> QED
    BY <2>1 DEF EndThread
<1>3. bytes' \in [Blocks -> Nat]
  BY DEF EndThread, TypeOK
<1>4. \A u \in Threads, c \in Classes : Kept(u, c)' = IF u = t THEN {} ELSE Kept(u, c)
  <2>1. ASSUME NEW u \in Threads, NEW c \in Classes
        PROVE  Kept(u, c)' = IF u = t THEN {} ELSE Kept(u, c)
    <3>1. Range(<<>>) = {}
      BY DEF Range
    <3>2. Range(pool'[u][c]) = IF u = t THEN {} ELSE Range(pool[u][c])
      BY <1>1, <3>1
    <3> QED
      BY <3>2 DEF Kept
  <2> QED
    BY <2>1
<1>5. \A b \in Blocks : Live(b)' <=> Live(b)
  BY DEF EndThread, Live
<1>6. (\A u \in Threads, c \in Classes :
          /\ count[u][c] = Len(pool[u][c]) /\ count[u][c] <= MaxFree
          /\ Distinct(pool[u][c])
          /\ c = 0 => pool[u][c] = <<>>
          /\ \A x \in Kept(u, c) : bytes[x] = c * Granularity /\ ~Live(x))'
  <2>1. ASSUME NEW u \in Threads, NEW c \in Classes, NEW x \in Kept(u, c)'
        PROVE  bytes'[x] = c * Granularity /\ ~Live(x)'
    <3>1. u # t /\ x \in Kept(u, c) /\ x \in Blocks
      BY <1>4, KeptBlocks
    <3>2. bytes[x] = c * Granularity /\ ~Live(x)
      BY <3>1 DEF PoolInv
    <3>3. \A d \in Classes : x \notin Kept(t, d)
      BY <3>1 DEF PoolInv
    <3> QED
      BY <1>2, <1>5, <3>1, <3>2, <3>3
  <2>2. ASSUME NEW u \in Threads, NEW c \in Classes
        PROVE  (/\ count[u][c] = Len(pool[u][c]) /\ count[u][c] <= MaxFree
                /\ Distinct(pool[u][c])
                /\ c = 0 => pool[u][c] = <<>>)'
    <3>1. CASE u = t
      <4>1. pool'[u][c] = <<>> /\ count'[u][c] = 0
        BY <1>1, <3>1
      <4>2. Len(<<>>) = 0 /\ Distinct(<<>>) /\ 0 <= MaxFree
        BY Names DEF Distinct
      <4> QED
        BY <4>1, <4>2
    <3>2. CASE u # t
      <4>1. pool'[u][c] = pool[u][c] /\ count'[u][c] = count[u][c]
        BY <1>1, <3>2
      <4> QED
        BY <4>1 DEF PoolInv
    <3> QED
      BY <3>1, <3>2
  <2> QED
    BY <2>1, <2>2
<1>7. (\A u, v \in Threads, c, d \in Classes : Kept(u, c) \cap Kept(v, d) # {} => u = v /\ c = d)'
  BY <1>4 DEF PoolInv
<1>8. (\A x \in Blocks : Live(x) => frame[x].size \in Sizes /\ bytes[x] = Rounded(frame[x].size))'
  <2>1. ASSUME NEW x \in Blocks, Live(x)
        PROVE  frame'[x].size \in Sizes /\ bytes'[x] = Rounded(frame'[x].size)
    <3>1. \A c \in Classes : x \notin Kept(t, c)
      BY <2>1 DEF PoolInv
    <3>2. frame'[x] = frame[x]
      BY DEF EndThread
    <3> QED
      BY <1>2, <2>1, <3>1, <3>2 DEF PoolInv
  <2>2. \A n : Rounded(n)' = Rounded(n)
    BY DEF Rounded, IsPooled, Class
  <2> QED
    BY <1>5, <2>1, <2>2
<1>9. (\A x \in Blocks : bytes[x] > 0 => Live(x) \/ \E u \in Threads, c \in Classes : x \in Kept(u, c))'
  <2>1. ASSUME NEW x \in Blocks, bytes'[x] > 0
        PROVE  (Live(x) \/ \E u \in Threads, c \in Classes : x \in Kept(u, c))'
    <3>1. bytes[x] > 0 /\ \A c \in Classes : x \notin Kept(t, c)
      BY <1>2, <2>1
    <3>2. CASE Live(x)
      BY <1>5, <3>2
    <3>3. CASE \E u \in Threads, c \in Classes : x \in Kept(u, c)
      BY <1>4, <3>1, <3>3
    <3> QED
      BY <3>1, <3>2, <3>3 DEF PoolInv
  <2> QED
    BY <2>1
<1>10. PoolInv'
  BY <1>6, <1>7, <1>8, <1>9 DEF PoolInv
<1> QED
  BY <1>1, <1>3, <1>10

(***************************************************************************)
(* Who owns which frame.                                                   *)
(***************************************************************************)
\* What is below the owners after a step.
LEMMA BelowNext ==
  /\ Below(Added)' = Under(frame', Added')
  /\ \A O : Below(O)' = Under(frame', O)
BY DEF Below, Under

\* OwnerInv depends on who owns which frame.
LEMMA OwnerSame ==
  ASSUME TypeOK, OwnerInv, root' = root, Added' = Added, process' \in [Processes -> {"none", "alive", "ended"}],
         \A c \in Blocks : /\ frame'[c].owner = frame[c].owner
                           /\ frame'[c].state # "none" <=> Live(c)
                           /\ ~Live(c) => frame'[c] = frame[c]
  PROVE  /\ OwnerInv'
         /\ \A O : Under(frame', O) = Under(frame, O)
         /\ \A p : Below({p})' = Below({p})
<1>1. \A O : Under(frame', O) = Under(frame, O)
  BY UnderSame
<1>2. Below(Added)' = Under(frame', Added') /\ \A p : Below({p})' = Under(frame', {p})
  BY BelowNext
<1>3. \A c \in Blocks : Live(c)' <=> Live(c)
  BY DEF Live
<1>4. (\A b \in Blocks : Live(b) <=> b \in Below(Added))'
  BY <1>1, <1>2, <1>3, BelowIsUnder DEF OwnerInv
<1>5. (\A b \in Blocks : ~Live(b) => frame[b] = NoFrame)'
  BY <1>3 DEF OwnerInv
<1>6. (\A p \in Processes : root[p] # None => frame[root[p]].owner = p)'
  BY DEF OwnerInv, TypeOK
<1>7. (\A b \in Blocks : frame[b].owner \in Processes => root[frame[b].owner] = b)'
  BY DEF OwnerInv
<1>8. (\A p \in Processes : process[p] = "none" => root[p] = None)'
  BY DEF OwnerInv, Added
<1>9. OwnerInv'
  BY <1>4, <1>5, <1>6, <1>7, <1>8 DEF OwnerInv
<1> QED
  BY <1>1, <1>2, <1>9, BelowIsUnder

\* A Python process that is added owns nothing yet.
LEMMA OwnerAddPy ==
  ASSUME TypeOK, OwnerInv, NEW p \in Processes, process[p] = "none", process' = [process EXCEPT ![p] = "alive"],
         UNCHANGED <<frame, root>>
  PROVE  OwnerInv'
<1>1. root[p] = None
  BY DEF OwnerInv
<1>2. Added' = Added \cup {p}
  BY DEF Added, TypeOK
<1>3. \A c \in Blocks : frame[c].owner # p
  BY <1>1, Names DEF OwnerInv
<1>4. Under(frame, Added \cup {p}) = Under(frame, Added)
  <2>1. ASSUME NEW c \in Blocks, frame[c].owner \in (Added \cup {p}) \cup Under(frame, Added)
        PROVE  c \in Under(frame, Added)
    BY <1>3, <2>1, UnderHas
  <2>2. Under(frame, Added \cup {p}) \subseteq Under(frame, Added)
    BY <2>1, UnderLeast, UnderBlocks
  <2>3. Under(frame, Added) \subseteq Under(frame, Added \cup {p})
    BY UnderTrans
  <2> QED
    BY <2>2, <2>3
<1>5. Below(Added)' = Below(Added)
  <2>1. Below(Added)' = Under(frame', Added')
    BY BelowNext
  <2> QED
    BY <1>2, <1>4, <2>1, BelowIsUnder
<1>6. \A b \in Blocks : Live(b)' <=> Live(b)
  BY DEF Live
<1>7. (\A b \in Blocks : Live(b) <=> b \in Below(Added))'
  BY <1>5, <1>6 DEF OwnerInv
<1>8. (\A q \in Processes : process[q] = "none" => root[q] = None)'
  BY DEF OwnerInv, TypeOK
<1> QED
  BY <1>6, <1>7, <1>8 DEF OwnerInv

\* A new frame.
LEMMA UnderNew ==
  ASSUME TypeOK, OwnerInv, NEW b \in Blocks, ~Live(b), NEW o, o # b,
         \A c \in Blocks : c # b => frame'[c] = frame[c], frame'[b].owner = o
  PROVE  \A O : b \notin O /\ None \notin O =>
            Under(frame', O) = Under(frame, O) \cup (IF o \in O \cup Under(frame, O) THEN {b} ELSE {})
<1>1. \A c \in Blocks : frame[c].owner # b
  <2> SUFFICES ASSUME NEW c \in Blocks, frame[c].owner = b PROVE FALSE
    OBVIOUS
  <2>1. Live(c)
    BY Owners, Names
  <2>2. b \in Added \cup {d \in Blocks : Live(d)}
    BY <2>1, Owners
  <2> QED
    BY <2>2, Names DEF Added
<1>2. ASSUME NEW O, b \notin O, None \notin O
      PROVE  b \notin Under(frame, O)
  <2> SUFFICES ASSUME b \in Under(frame, O) PROVE FALSE
    OBVIOUS
  <2> DEFINE S == Under(frame, O) \ {b}
  <2>1. frame[b].owner = None
    BY Owners
  <2>2. None \in O
    <3>1. None \in O \cup Under(frame, O) /\ Under(frame, O) \subseteq Blocks
      BY <2>1, UnderFrom, UnderBlocks
    <3> QED
      BY <3>1, Names
  <2> QED
    BY <1>2, <2>2
<1> QED
  BY <1>1, <1>2, UnderAdd

\* A new frame belongs to its owner.
LEMMA OwnerNew ==
  ASSUME TypeOK, OwnerInv, NEW b \in Blocks, ~Live(b), NEW o \in Added' \cup {c \in Blocks : Live(c)}, o # b,
         \A c \in Blocks : c # b => frame'[c] = frame[c],
         frame'[b].owner = o, frame'[b].state # "none",
         process' \in [Processes -> {"none", "alive", "ended"}],
         \/ o \in Blocks /\ root' = root /\ process' = process
         \/ /\ o \in Processes /\ root[o] = None /\ root' = [root EXCEPT ![o] = b]
            /\ Added' = Added \cup {o}
  PROVE  OwnerInv'
<1>1. \A c \in Blocks : /\ c # b => (Live(c)' <=> Live(c))
                        /\ Live(b)'
  BY DEF Live
<1>2. /\ None \notin Added' /\ b \notin Added' /\ Added' \subseteq Processes
      /\ Added \subseteq Added' /\ (o \in Blocks => Added' = Added)
      /\ (o \in Processes => Added' = Added \cup {o})
  BY Names DEF Added
<1>3. Under(frame, Added') = Under(frame, Added)
  <2>1. CASE o \in Blocks
    BY <1>2, <2>1
  <2>2. CASE o \in Processes
    <3>1. Added' = Added \cup {o} /\ root[o] = None
      BY <1>2, <2>2, Names
    <3>2. ASSUME NEW c \in Blocks
          PROVE  frame[c].owner # o
      BY <2>2, <3>1, Names DEF OwnerInv
    <3>3. ASSUME NEW c \in Blocks, frame[c].owner \in Added' \cup Under(frame, Added)
          PROVE  c \in Under(frame, Added)
      BY <3>1, <3>2, <3>3, UnderHas
    <3>4. Under(frame, Added') \subseteq Under(frame, Added)
      BY <3>3, UnderLeast, UnderBlocks
    <3>5. Under(frame, Added) \subseteq Under(frame, Added')
      BY <1>2, UnderTrans
    <3> QED
      BY <3>4, <3>5
  <2> QED
    BY <2>1, <2>2 DEF Added
<1>4. Under(frame', Added') = Under(frame, Added) \cup {b}
  <2>1. o \in Added' \cup Under(frame, Added')
    BY <1>3, Owners
  <2> QED
    BY <1>2, <1>3, <2>1, UnderNew
<1>5. (\A c \in Blocks : Live(c) <=> c \in Below(Added))'
  <2>1. ASSUME NEW c \in Blocks
        PROVE  Live(c)' <=> c \in Below(Added)'
    BY <1>1, <1>4, BelowNext, Owners
  <2> QED
    BY <2>1
<1>6. (\A c \in Blocks : ~Live(c) => frame[c] = NoFrame)'
  BY <1>1 DEF OwnerInv
<1>7. (\A p \in Processes : root[p] # None => frame[root[p]].owner = p)'
  <2>1. ASSUME NEW p \in Processes, root[p] # None
        PROVE  root[p] # b /\ frame'[root[p]].owner = p
    <3>1. root[p] \in Blocks /\ frame[root[p]].owner = p
      BY <2>1 DEF OwnerInv, TypeOK
    <3>2. Live(root[p])
      BY <3>1, Owners, Names
    <3> QED
      BY <3>1, <3>2
  <2>2. \A p \in Processes : root'[p] = IF p = o THEN b ELSE root[p]
    BY Names DEF TypeOK
  <2> QED
    BY <2>1, <2>2
<1>8. (\A c \in Blocks : frame[c].owner \in Processes => root[frame[c].owner] = c)'
  <2>1. ASSUME NEW c \in Blocks, c # b, frame[c].owner \in Processes
        PROVE  root'[frame[c].owner] = c
    <3>1. root[frame[c].owner] = c /\ c # None
      BY <2>1, Names DEF OwnerInv
    <3> QED
      BY <2>1, <3>1, Names DEF TypeOK
  <2>2. o \in Processes => root'[o] = b
    BY Names DEF TypeOK
  <2> QED
    BY <2>1, <2>2
<1>9. (\A p \in Processes : process[p] = "none" => root[p] = None)'
  <2>1. ASSUME NEW p \in Processes, process'[p] = "none"
        PROVE  root'[p] = None
    <3>1. p \notin Added'
      BY <2>1 DEF Added
    <3>2. p \notin Added /\ p # o
      BY <1>2, <3>1, Names
    <3>3. process[p] = "none" /\ root[p] = None
      BY <3>2 DEF Added, OwnerInv
    <3> QED
      BY <3>2, <3>3 DEF TypeOK
  <2> QED
    BY <2>1
<1> QED
  BY <1>5, <1>6, <1>7, <1>8, <1>9 DEF OwnerInv

\* Frames go, and all that is below them.
LEMMA UnderGone ==
  ASSUME TypeOK, NEW D, NEW a, Doom(D, a),
         \A c \in Blocks : frame'[c].owner = IF c \in D THEN None ELSE frame[c].owner
  PROVE  \A O : None \notin O /\ O \cap D = {} => Under(frame', O) = Under(frame, O) \ D
<1>1. D \in SUBSET Blocks /\ \A c \in Blocks : frame[c].owner \in D => c \in D
  BY DEF Doom
<1> QED
  BY <1>1, UnderRemove, Names

\* Frames that go together with all that is below them leave nothing behind.
LEMMA OwnerRemove ==
  ASSUME TypeOK, OwnerInv, NEW D, NEW a, Doom(D, a), None \notin D,
         \A c \in Blocks : IF c \in D THEN frame'[c] = NoFrame
                           ELSE /\ frame'[c].owner = frame[c].owner
                                /\ frame'[c].state # "none" <=> Live(c)
                                /\ ~Live(c) => frame'[c] = frame[c],
         \A p \in Processes : root'[p] = IF root[p] \in D THEN None ELSE root[p],
         process' \in [Processes -> {"none", "alive", "ended"}],
         \/ Added' = Added
         \/ \E p \in Processes : Added' = Added \ {p} /\ D = Under(frame, {p})
  PROVE  OwnerInv'
<1>1. D \subseteq Blocks /\ \A c \in Blocks : frame[c].owner \in D => c \in D
  BY DEF Doom
<1>2. \A c \in Blocks : Live(c)' <=> Live(c) /\ c \notin D
  <2>1. NoFrame.state = "none"
    BY DEF NoFrame
  <2> QED
    BY <2>1 DEF Live
<1>3. \A c \in Blocks : frame'[c].owner = IF c \in D THEN None ELSE frame[c].owner
  BY DEF NoFrame
<1>4. None \notin Added' /\ Added' \cap D = {} /\ None \notin Added /\ Added' \subseteq Added /\ Added \cap D = {}
  BY <1>1, Names DEF Added
<1>5. Under(frame', Added') = Under(frame, Added') \ D
  BY <1>3, <1>4, UnderGone
<1>6. Under(frame, Added') \ D = Under(frame, Added) \ D
  <2>1. CASE Added' = Added
    BY <2>1
  <2>2. ASSUME NEW p \in Processes, Added' = Added \ {p}, D = Under(frame, {p})
        PROVE  Under(frame, Added') \ D = Under(frame, Added) \ D
    <3> DEFINE S == Under(frame, Added') \cup D
    <3>1. S \in SUBSET Blocks
      BY <1>1, UnderBlocks
    <3>2. ASSUME NEW c \in Blocks, frame[c].owner \in Added \cup S
          PROVE  c \in S
      <4>1. CASE frame[c].owner = p
        BY <2>2, <4>1, UnderHas
      <4>2. CASE frame[c].owner \in D
        BY <1>1, <4>2
      <4>3. CASE frame[c].owner \in Added' \cup Under(frame, Added')
        BY <4>3, UnderHas
      <4> QED
        BY <2>2, <3>2, <4>1, <4>2, <4>3
    <3> HIDE DEF S
    <3>3. Under(frame, Added) \subseteq S
      BY <3>1, <3>2, UnderLeast
    <3>4. Under(frame, Added') \subseteq Under(frame, Added)
      BY <1>4, UnderTrans
    <3> QED
      BY <3>3, <3>4 DEF S
  <2> QED
    BY <2>1, <2>2
<1>7. (\A c \in Blocks : Live(c) <=> c \in Below(Added))'
  BY <1>2, <1>5, <1>6, BelowNext, Owners
<1>8. (\A c \in Blocks : ~Live(c) => frame[c] = NoFrame)'
  BY <1>2 DEF OwnerInv
<1>9. (\A p \in Processes : root[p] # None => frame[root[p]].owner = p)'
  <2>1. ASSUME NEW p \in Processes, root'[p] # None
        PROVE  frame'[root'[p]].owner = p
    <3>1. root'[p] = root[p] /\ root[p] \notin D /\ root[p] # None
      BY <2>1
    <3>2. root[p] \in Blocks /\ frame[root[p]].owner = p
      BY <3>1 DEF OwnerInv, TypeOK
    <3> QED
      BY <1>3, <3>1, <3>2
  <2> QED
    BY <2>1
<1>10. (\A c \in Blocks : frame[c].owner \in Processes => root[frame[c].owner] = c)'
  <2>1. ASSUME NEW c \in Blocks, frame'[c].owner \in Processes
        PROVE  root'[frame'[c].owner] = c
    <3>1. c \notin D /\ frame'[c].owner = frame[c].owner
      BY <1>3, <2>1, Names
    <3>2. root[frame[c].owner] = c
      BY <2>1, <3>1 DEF OwnerInv
    <3> QED
      BY <2>1, <3>1, <3>2
  <2> QED
    BY <2>1
<1>11. (\A p \in Processes : process[p] = "none" => root[p] = None)'
  <2>1. ASSUME NEW p \in Processes, process'[p] = "none"
        PROVE  root'[p] = None
    <3>1. p \notin Added'
      BY <2>1 DEF Added
    <3>2. CASE p \notin Added
      <4>1. root[p] = None
        BY <3>2 DEF Added, OwnerInv
      <4> QED
        BY <4>1
    <3>3. CASE p \in Added
      <4>1. D = Under(frame, {p})
        BY <3>1, <3>3
      <4>2. root[p] # None => root[p] \in Blocks /\ frame[root[p]].owner = p
        BY DEF OwnerInv, TypeOK
      <4>3. root[p] # None => root[p] \in D
        BY <4>1, <4>2, UnderHas
      <4> QED
        BY <4>3
    <3> QED
      BY <3>2, <3>3
  <2> QED
    BY <2>1
<1> QED
  BY <1>7, <1>8, <1>9, <1>10, <1>11 DEF OwnerInv

(***************************************************************************)
(* Types, pools and owners, over the steps.                                *)
(***************************************************************************)
RestOK ==
    /\ thread \in Threads
    /\ control \in Processes \cup Blocks \cup {None}
    /\ current \in Processes \cup {None}
    /\ process \in [Processes -> {"none", "alive", "ended"}]
    /\ root \in [Processes -> Blocks \cup {None}]
    /\ resumePoint \in [Processes -> Blocks \cup {None}]
    /\ raised \in BOOLEAN
    /\ received \in Blocks \cup {None}

MemoryInv == TypeOK /\ PoolInv /\ OwnerInv

\* A step that neither makes nor destroys frames.
LEMMA Keeps ==
  ASSUME MemoryInv, RestOK', UNCHANGED <<bytes, pool, count, root>>, Added' = Added,
         frame' \in [Blocks -> FrameRecords],
         \A c \in Blocks : /\ frame'[c].owner = frame[c].owner /\ frame'[c].size = frame[c].size
                           /\ frame'[c].state # "none" <=> Live(c)
                           /\ ~Live(c) => frame'[c] = frame[c]
  PROVE  MemoryInv' /\ (\A O : Under(frame', O) = Under(frame, O)) /\ \A p : Below({p})' = Below({p})
<1>1. TypeOK'
  BY DEF RestOK, TypeOK, MemoryInv
<1>2. PoolInv'
  BY PoolSame DEF MemoryInv
<1>3. /\ OwnerInv'
      /\ \A O : Under(frame', O) = Under(frame, O)
      /\ \A p : Below({p})' = Below({p})
  BY OwnerSame DEF MemoryInv, RestOK
<1> QED
  BY <1>1, <1>2, <1>3 DEF MemoryInv

\* A step that destroys and makes nothing keeps types, pools and owners.
LEMMA KeepsAll ==
  ASSUME MemoryInv, RestOK', UNCHANGED <<frame, bytes, pool, count, root>>, Added' = Added
  PROVE  MemoryInv' /\ (\A O : Under(frame', O) = Under(frame, O)) /\ \A p : Below({p})' = Below({p})
BY Keeps DEF Live, MemoryInv, TypeOK

\* A step that makes a frame keeps them.
LEMMA Gives ==
  ASSUME MemoryInv, RestOK', NEW b \in Blocks, NEW size \in Sizes, NEW o \in Processes \cup Blocks,
         NEW state \in {"start", "running"}, New(b, size, o, state), o # b,
         \/ o \in Blocks /\ Live(o) /\ root' = root /\ process' = process
         \/ /\ o \in Processes /\ o \in Added' /\ root[o] = None /\ root' = [root EXCEPT ![o] = b]
            /\ Added' = Added \cup {o}
  PROVE  /\ MemoryInv'
         /\ ~Live(b) /\ frame[b] = NoFrame
         /\ \A c \in Blocks : c # b => frame'[c] = frame[c]
         /\ frame'[b].state = state /\ frame'[b].owner = o
         /\ frame'[b].continuation = None /\ frame'[b].awaits = None
         /\ \A O : b \notin O /\ None \notin O =>
               Under(frame', O) = Under(frame, O) \cup (IF o \in O \cup Under(frame, O) THEN {b} ELSE {})
<1>0. TypeOK /\ PoolInv /\ OwnerInv /\ state \in FrameStates /\ b \in NextBlock(size)
  BY DEF MemoryInv, FrameStates, New
<1>1. ~Live(b) /\ frame[b] = NoFrame
  <2>1. ~Live(b)
    BY <1>0, NewBlock
  <2> QED
    BY <1>0, <2>1 DEF OwnerInv
<1>2. /\ \A c \in Blocks : c # b => frame'[c] = frame[c]
      /\ frame'[b] = Fresh(size, o, state)
  BY <1>0, NewFrame
<1>3. /\ frame'[b].state = state /\ frame'[b].owner = o
      /\ frame'[b].continuation = None /\ frame'[b].awaits = None
  BY <1>0, <1>2, FreshIs
<1>4. PoolInv'
  BY <1>0, PoolNew
<1>5. TypeOK'
  BY <1>0, NewTypes DEF TypeOK, RestOK
<1>6. OwnerInv'
  <2>1. o \in Added' \cup {c \in Blocks : Live(c)}
    OBVIOUS
  <2>2. process' \in [Processes -> {"none", "alive", "ended"}] /\ frame'[b].state # "none"
    BY <1>3 DEF RestOK
  <2> QED
    BY <1>0, <1>1, <1>2, <1>3, <2>1, <2>2, OwnerNew
<1>7. \A O : b \notin O /\ None \notin O =>
         Under(frame', O) = Under(frame, O) \cup (IF o \in O \cup Under(frame, O) THEN {b} ELSE {})
  BY <1>0, <1>1, <1>2, <1>3, UnderNew
<1> QED
  BY <1>1, <1>2, <1>3, <1>4, <1>5, <1>6, <1>7 DEF MemoryInv

\* A step that destroys frames keeps them.
LEMMA Takes ==
  ASSUME MemoryInv, RestOK', NEW D, NEW a, Doom(D, a), Destroy(D), thread' = thread,
         frame' \in [Blocks -> FrameRecords],
         \A c \in Blocks : IF c \in D THEN frame'[c] = NoFrame
                           ELSE /\ frame'[c].owner = frame[c].owner /\ frame'[c].size = frame[c].size
                                /\ frame'[c].state # "none" <=> Live(c)
                                /\ ~Live(c) => frame'[c] = frame[c],
         \A p \in Processes : root'[p] = IF root[p] \in D THEN None ELSE root[p],
         \/ Added' = Added
         \/ \E p \in Processes : Added' = Added \ {p} /\ D = Under(frame, {p})
  PROVE  /\ MemoryInv'
         /\ \A O : None \notin O /\ O \cap D = {} => Under(frame', O) = Under(frame, O) \ D
<1>0. TypeOK /\ PoolInv /\ OwnerInv /\ D \in SUBSET Blocks /\ None \notin D /\ \A c \in D : Live(c)
  BY Names DEF MemoryInv, Doom
<1>1. /\ \A c \in D : Live(c) /\ frame'[c].state = "none"
      /\ \A c \in Blocks \ D : (frame'[c].state # "none" <=> Live(c)) /\ frame'[c].size = frame[c].size
  BY <1>0 DEF NoFrame
<1>2. PoolInv' /\ TypeOK'
  <2>1. /\ PoolInv'
        /\ bytes' \in [Blocks -> Nat]
        /\ pool' \in [Threads -> [Classes -> Seq(Blocks)]]
        /\ count' \in [Threads -> [Classes -> Nat]]
    BY <1>0, <1>1, PoolDestroy
  <2> QED
    BY <2>1 DEF TypeOK, RestOK
<1>3. OwnerInv'
  <2>1. \A c \in Blocks : IF c \in D THEN frame'[c] = NoFrame
                           ELSE /\ frame'[c].owner = frame[c].owner
                                /\ frame'[c].state # "none" <=> Live(c)
                                /\ ~Live(c) => frame'[c] = frame[c]
    OBVIOUS
  <2>2. process' \in [Processes -> {"none", "alive", "ended"}]
    BY DEF RestOK
  <2> QED
    BY <1>0, <2>1, <2>2, OwnerRemove
<1>4. \A O : None \notin O /\ O \cap D = {} => Under(frame', O) = Under(frame, O) \ D
  <2>1. \A c \in Blocks : frame'[c].owner = IF c \in D THEN None ELSE frame[c].owner
    BY DEF NoFrame
  <2> QED
    BY <1>0, <2>1, UnderGone
<1> QED
  BY <1>2, <1>3, <1>4 DEF MemoryInv

\* The parts of the invariant.
LEMMA Parts ==
  ASSUME IInv
  PROVE  MemoryInv /\ TypeOK /\ PoolInv /\ OwnerInv /\ CallInv /\ ControlInv /\ WaitInv /\ RestOK
BY DEF IInv, MemoryInv, TypeOK, RestOK

\* What a step that leaves the frames alone does to what is below a process: nothing.
SameBelow == (\A O : Under(frame', O) = Under(frame, O)) /\ \A p : Below({p})' = Below({p})

\* Steps that touch no frame.
LEMMA QuietSteps ==
  ASSUME IInv,
         \/ \E t \in Threads : HandOver(t)
         \/ \E p \in PyTasks : PyWait(p) \/ PyCatch(p) \/ PyEnd(p) \/ (ResumePy(p) /\ ~IsAwaiting(p))
         \/ \E f \in Blocks : Catch(f) \/ Throw(f)
  PROVE  MemoryInv' /\ SameBelow
<1>1. UNCHANGED <<frame, bytes, pool, count, root>>
  BY DEF HandOver, PyWait, PyCatch, PyEnd, ResumePy, Catch, Throw
<1>2. RestOK'
  BY Parts, Names DEF RestOK, HandOver, PyWait, PyCatch, PyEnd, ResumePy, Catch, Throw
<1>3. Added' = Added
  <2>1. ASSUME NEW p \in PyTasks, PyEnd(p)
        PROVE  Added' = Added
    <3>1. process' = [process EXCEPT ![p] = "ended"] /\ current = p /\ p \in Processes
      BY <2>1, Parts, Names DEF PyEnd, RunsPy, ControlInv
    <3>2. process[p] = "alive"
      BY <3>1, Parts, Names DEF ControlInv
    <3>3. \A q \in Processes : process'[q] # "none" <=> process[q] # "none"
      BY <3>1, <3>2, Parts DEF TypeOK
    <3> QED
      BY <3>3 DEF Added
  <2>2. CASE process' = process
    BY <2>2 DEF Added
  <2> QED
    BY <2>1, <2>2 DEF HandOver, PyWait, PyCatch, ResumePy, Catch, Throw
<1> QED
  BY <1>1, <1>2, <1>3, KeepsAll, Parts DEF SameBelow

\* register of a Python coroutine.
LEMMA AddPyTaskSteps ==
  ASSUME IInv, NEW p \in PyTasks, AddPyTask(p)
  PROVE  MemoryInv'
<1>1. TypeOK'
  BY Parts, Names DEF TypeOK, AddPyTask
<1>2. PoolInv'
  <2>1. UNCHANGED <<bytes, pool, count, frame>>
    BY DEF AddPyTask
  <2> QED
    BY <2>1, PoolSame, Parts DEF Live
<1>3. OwnerInv'
  BY OwnerAddPy, Parts, Names DEF AddPyTask
<1> QED
  BY <1>1, <1>2, <1>3 DEF MemoryInv

\* The end of a thread.
LEMMA EndThreadSteps ==
  ASSUME IInv, NEW t \in Threads, EndThread(t)
  PROVE  MemoryInv' /\ SameBelow
<1>0. UNCHANGED <<frame, thread, control, current, process, root, resumePoint, raised>> /\ received' = None
  BY DEF EndThread
<1>1. PoolInv' /\ TypeOK'
  BY <1>0, PoolEndThread, Parts DEF TypeOK
<1>2. /\ OwnerInv'
      /\ \A O : Under(frame', O) = Under(frame, O)
      /\ \A p : Below({p})' = Below({p})
  <2>1. Added' = Added /\ process' \in [Processes -> {"none", "alive", "ended"}]
    BY <1>0, Parts DEF Added, TypeOK
  <2> QED
    BY <1>0, <2>1, OwnerSame, Parts DEF Live
<1> QED
  BY <1>1, <1>2 DEF MemoryInv, SameBelow

\* A process is resumed where it waits.
LEMMA ResumeSteps ==
  ASSUME IInv, NEW p \in Processes, Waits(p), control = None,
         control' = resumePoint[p], current' = p, frame' = ResumeFrame(frame, resumePoint[p]),
         UNCHANGED <<bytes, pool, count, thread, process, root, resumePoint, raised>>, received' = None
  PROVE  LET r == resumePoint[p]
         IN /\ MemoryInv' /\ SameBelow
            /\ r \in Blocks /\ r \in Below({p}) /\ Active(r)' /\ frame[r].awaits = None
            /\ \/ frame[r].state = "suspended"
               \/ frame[r].state = "start" /\ r = root[p]
            /\ \A c \in Blocks : c # r => frame'[c] = frame[c]
            /\ frame'[r] = [frame[r] EXCEPT !.state = "running"]
            /\ frame'[r].state = "running" /\ frame'[r].owner = frame[r].owner
            /\ frame'[r].continuation = frame[r].continuation /\ frame'[r].awaits = None
<1> DEFINE r == resumePoint[p]
<1>1. /\ r \in Below({p})
      /\ \/ frame[r].state = "suspended"
         \/ frame[r].state = "start" /\ r = root[p]
      /\ frame[r].awaits = None
  BY Parts DEF WaitInv
<1>2. r \in Blocks
  BY <1>1, UnderBlocks, BelowIsUnder
<1>3. /\ frame' \in [Blocks -> FrameRecords]
      /\ \A c \in Blocks : c # r => frame'[c] = frame[c]
      /\ frame'[r] = [frame[r] EXCEPT !.state = "running"]
  BY <1>2, ResumeFrameIs, Parts
<1>4. /\ frame'[r].state = "running" /\ frame'[r].owner = frame[r].owner /\ frame'[r].size = frame[r].size
      /\ frame'[r].continuation = frame[r].continuation /\ frame'[r].awaits = frame[r].awaits
  <2>1. frame[r] \in FrameRecords
    BY <1>2, Parts DEF TypeOK
  <2> QED
    BY <1>3, <2>1 DEF FrameRecords
<1>5. RestOK'
  BY <1>2, Parts DEF RestOK
<1>6. Added' = Added
  BY DEF Added
<1>7. \A c \in Blocks : /\ frame'[c].owner = frame[c].owner /\ frame'[c].size = frame[c].size
                        /\ frame'[c].state # "none" <=> Live(c)
                        /\ ~Live(c) => frame'[c] = frame[c]
  BY <1>1, <1>3, <1>4 DEF Live
<1>8. MemoryInv' /\ SameBelow
  BY <1>3, <1>5, <1>6, <1>7, Keeps, Parts DEF SameBelow
<1> QED
  BY <1>1, <1>2, <1>3, <1>4, <1>8 DEF Active

\* co_await of a task.
LEMMA AwaitSteps ==
  ASSUME IInv, NEW f \in Blocks, NEW b \in Blocks, Await(f, b)
  PROVE  /\ MemoryInv' /\ SameBelow
         /\ f # b /\ frame[b].owner = f /\ frame[b].state = "start" /\ ~raised
         /\ \A c \in Blocks : c # f /\ c # b => frame'[c] = frame[c]
         /\ frame'[f].state = "suspended" /\ frame'[f].owner = frame[f].owner
         /\ frame'[f].continuation = frame[f].continuation /\ frame'[f].awaits = b
         /\ frame'[b].state = "running" /\ frame'[b].owner = f
         /\ frame'[b].continuation = f /\ frame'[b].awaits = frame[b].awaits
<1>1. /\ f # b
      /\ frame' \in [Blocks -> FrameRecords]
      /\ \A c \in Blocks : c # f /\ c # b => frame'[c] = frame[c]
      /\ frame'[f] = [frame[f] EXCEPT !.state = "suspended", !.awaits = b]
      /\ frame'[b] = [frame[b] EXCEPT !.continuation = f, !.state = "running"]
  BY AwaitIs, Parts
<1>2. /\ frame[b].owner = f /\ frame[b].state = "start" /\ ~raised
      /\ frame[f].state = "running" /\ Runs(f)
  <2>1. Runs(f) /\ frame[b].owner = f /\ frame[b].state = "start" /\ ~raised
    BY DEF Await
  <2> QED
    BY <2>1, RunsIs, Parts
<1>3. frame[f] \in FrameRecords /\ frame[b] \in FrameRecords
  BY Parts DEF TypeOK
<1>4. /\ frame'[f].state = "suspended" /\ frame'[f].owner = frame[f].owner /\ frame'[f].size = frame[f].size
      /\ frame'[f].continuation = frame[f].continuation /\ frame'[f].awaits = b
  BY <1>1, <1>3 DEF FrameRecords
<1>5. /\ frame'[b].state = "running" /\ frame'[b].owner = frame[b].owner /\ frame'[b].size = frame[b].size
      /\ frame'[b].continuation = f /\ frame'[b].awaits = frame[b].awaits
  BY <1>1, <1>3 DEF FrameRecords
<1>6. RestOK' /\ UNCHANGED <<bytes, pool, count, root>> /\ Added' = Added
  BY Parts DEF RestOK, Await, Added
<1>7. \A c \in Blocks : /\ frame'[c].owner = frame[c].owner /\ frame'[c].size = frame[c].size
                        /\ frame'[c].state # "none" <=> Live(c)
                        /\ ~Live(c) => frame'[c] = frame[c]
  BY <1>1, <1>2, <1>4, <1>5 DEF Live
<1>8. MemoryInv' /\ SameBelow
  BY <1>1, <1>6, <1>7, Keeps, Parts DEF SameBelow
<1> QED
  BY <1>1, <1>2, <1>4, <1>5, <1>8

\* co_await of a task that is done.
LEMMA AwaitAgainSteps ==
  ASSUME IInv, NEW f \in Blocks, NEW b \in Blocks, AwaitAgain(f, b)
  PROVE  /\ MemoryInv' /\ SameBelow
         /\ \A c \in Blocks : /\ frame'[c].owner = frame[c].owner /\ frame'[c].state = frame[c].state
                              /\ frame'[c].continuation = frame[c].continuation
                              /\ frame'[c].awaits = frame[c].awaits
<1>1. /\ frame' \in [Blocks -> FrameRecords]
      /\ \A c \in Blocks : c # b => frame'[c] = frame[c]
      /\ frame'[b] = Taken(frame[b])
  BY AwaitAgainIs, Parts
<1>2. /\ frame'[b].owner = frame[b].owner /\ frame'[b].state = frame[b].state /\ frame'[b].size = frame[b].size
      /\ frame'[b].continuation = frame[b].continuation /\ frame'[b].awaits = frame[b].awaits
  <2>1. frame[b] \in FrameRecords
    BY Parts DEF TypeOK
  <2> QED
    BY <1>1, <2>1 DEF FrameRecords, Taken
<1>3. RestOK' /\ UNCHANGED <<bytes, pool, count, root>> /\ Added' = Added
  <2>1. UNCHANGED <<bytes, pool, count, thread, control, current, process, root, resumePoint>>
    BY DEF AwaitAgain
  <2>2. raised' = Throws(frame[b]) /\ received' = IF Throws(frame[b]) THEN None ELSE b
    BY DEF AwaitAgain
  <2>3. raised' \in BOOLEAN /\ received' \in Blocks \cup {None}
    BY <2>2 DEF Throws
  <2> QED
    BY <2>1, <2>3, Parts DEF RestOK, Added
<1>4. \A c \in Blocks : /\ frame'[c].owner = frame[c].owner /\ frame'[c].size = frame[c].size
                        /\ frame'[c].state # "none" <=> Live(c)
                        /\ ~Live(c) => frame'[c] = frame[c]
  <2>1. Live(b)
    BY DEF AwaitAgain, Live
  <2> QED
    BY <1>1, <1>2, <2>1 DEF Live
<1>5. MemoryInv' /\ SameBelow
  BY <1>1, <1>3, <1>4, Keeps, Parts DEF SameBelow
<1> QED
  BY <1>1, <1>2, <1>5

\* co_await of a leaf.
LEMMA WaitSteps ==
  ASSUME IInv, NEW f \in Blocks, Wait(f)
  PROVE  /\ MemoryInv' /\ SameBelow
         /\ \A c \in Blocks : /\ frame'[c].owner = frame[c].owner
                              /\ frame'[c].continuation = frame[c].continuation
                              /\ frame'[c].awaits = frame[c].awaits
                              /\ c # f => frame'[c].state = frame[c].state
         /\ frame'[f].state = "suspended"
         /\ \A p \in Processes : resumePoint'[p] = IF p = current THEN f ELSE resumePoint[p]
<1>0. Runs(f) /\ frame[f].state = "running" /\ current \in Processes
  <2>1. Runs(f)
    BY DEF Wait
  <2> QED
    BY <2>1, RunsIs, Parts
<1>1. /\ frame' \in [Blocks -> FrameRecords]
      /\ \A c \in Blocks : c # f => frame'[c] = frame[c]
      /\ frame'[f] = [frame[f] EXCEPT !.state = "suspended"]
      /\ resumePoint' = [resumePoint EXCEPT ![current] = f]
  BY WaitIs, Parts
<1>2. /\ frame'[f].owner = frame[f].owner /\ frame'[f].state = "suspended" /\ frame'[f].size = frame[f].size
      /\ frame'[f].continuation = frame[f].continuation /\ frame'[f].awaits = frame[f].awaits
  <2>1. frame[f] \in FrameRecords
    BY Parts DEF TypeOK
  <2> QED
    BY <1>1, <2>1 DEF FrameRecords
<1>3. RestOK' /\ UNCHANGED <<bytes, pool, count, root>> /\ Added' = Added
  <2>1. /\ UNCHANGED <<bytes, pool, count, thread, process, root, raised>>
        /\ control' = None /\ current' = None /\ received' = None
    BY DEF Wait
  <2>2. resumePoint' \in [Processes -> Blocks \cup {None}]
    BY <1>0, <1>1, Parts DEF RestOK
  <2> QED
    BY <2>1, <2>2, Parts DEF RestOK, Added
<1>4. \A c \in Blocks : /\ frame'[c].owner = frame[c].owner /\ frame'[c].size = frame[c].size
                        /\ frame'[c].state # "none" <=> Live(c)
                        /\ ~Live(c) => frame'[c] = frame[c]
  BY <1>0, <1>1, <1>2 DEF Live
<1>5. MemoryInv' /\ SameBelow
  BY <1>1, <1>3, <1>4, Keeps, Parts DEF SameBelow
<1>6. \A p \in Processes : resumePoint'[p] = IF p = current THEN f ELSE resumePoint[p]
  BY <1>0, <1>1, Parts DEF RestOK
<1> QED
  BY <1>1, <1>2, <1>5, <1>6

(***************************************************************************)
(* Steps that make a frame.                                                *)
(***************************************************************************)
\* What is below a process after a new frame of o.
NewBelow(b, o) ==
    \A p \in Processes :
        Under(frame', {p}) = Under(frame, {p}) \cup (IF o \in {p} \cup Under(frame, {p}) THEN {b} ELSE {})

MakesFrame(b, o, state) ==
    /\ ~Live(b) /\ frame[b] = NoFrame /\ o # b
    /\ \A c \in Blocks : c # b => frame'[c] = frame[c]
    /\ frame'[b].state = state /\ frame'[b].owner = o
    /\ frame'[b].continuation = None /\ frame'[b].awaits = None
    /\ NewBelow(b, o)

\* What a step that makes a frame does to frames and owners.
LEMMA MakesIs ==
  ASSUME NEW b \in Blocks, NEW o, NEW state, ~Live(b), frame[b] = NoFrame, o # b,
         \A c \in Blocks : c # b => frame'[c] = frame[c],
         frame'[b].state = state, frame'[b].owner = o, frame'[b].continuation = None, frame'[b].awaits = None,
         \A O : b \notin O /\ None \notin O =>
            Under(frame', O) = Under(frame, O) \cup (IF o \in O \cup Under(frame, O) THEN {b} ELSE {})
  PROVE  MakesFrame(b, o, state)
<1>1. ASSUME NEW p \in Processes
      PROVE  Under(frame', {p}) = Under(frame, {p}) \cup (IF o \in {p} \cup Under(frame, {p}) THEN {b} ELSE {})
  <2>1. b \notin {p} /\ None \notin {p}
    BY Names
  <2> QED
    BY <2>1
<1> QED
  BY <1>1 DEF MakesFrame, NewBelow

\* register_coro_task and spawn.
LEMMA AddCoroProcessSteps ==
  ASSUME IInv, NEW p \in CoroProcesses, NEW b \in Blocks, NEW size \in Sizes, AddCoroProcess(p, b, size)
  PROVE  MemoryInv' /\ MakesFrame(b, p, "start") /\ root[p] = None /\ root'[p] = b
<1>1. root[p] = None /\ p \in Processes
  BY Parts, Names DEF AddCoroProcess, OwnerInv
<1>2. Added' = Added \cup {p} /\ p \in Added'
  BY <1>1, Parts DEF AddCoroProcess, Added, TypeOK
<1>3. RestOK'
  BY <1>1, Parts DEF AddCoroProcess, RestOK
<1>4. New(b, size, p, "start") /\ root' = [root EXCEPT ![p] = b]
  BY DEF AddCoroProcess
<1>5. p # b
  BY <1>1, Names
<1>6. /\ MemoryInv'
      /\ ~Live(b) /\ frame[b] = NoFrame
      /\ \A c \in Blocks : c # b => frame'[c] = frame[c]
      /\ frame'[b].state = "start" /\ frame'[b].owner = p
      /\ frame'[b].continuation = None /\ frame'[b].awaits = None
      /\ \A O : b \notin O /\ None \notin O =>
            Under(frame', O) = Under(frame, O) \cup (IF p \in O \cup Under(frame, O) THEN {b} ELSE {})
  BY <1>1, <1>2, <1>3, <1>4, <1>5, Gives, Parts
<1>7. MakesFrame(b, p, "start")
  BY <1>5, <1>6, MakesIs
<1> QED
  BY <1>1, <1>4, <1>6, <1>7, Parts DEF TypeOK

\* The call of a coroutine function.
LEMMA CreateSteps ==
  ASSUME IInv, NEW f \in Blocks, NEW b \in Blocks, NEW size \in Sizes, Create(f, b, size)
  PROVE  MemoryInv' /\ MakesFrame(b, f, "start")
<1>1. Runs(f) /\ New(b, size, f, "start") /\ root' = root /\ process' = process
  BY DEF Create
<1>2. Live(f)
  BY <1>1, RunsIs, Parts
<1>3. f # b
  <2>1. b \in NextBlock(size)
    BY <1>1 DEF New
  <2> QED
    BY <1>2, <2>1, NewBlock, Parts
<1>4. RestOK'
  BY Parts DEF Create, RestOK
<1>6. /\ MemoryInv'
      /\ ~Live(b) /\ frame[b] = NoFrame
      /\ \A c \in Blocks : c # b => frame'[c] = frame[c]
      /\ frame'[b].state = "start" /\ frame'[b].owner = f
      /\ frame'[b].continuation = None /\ frame'[b].awaits = None
      /\ \A O : b \notin O /\ None \notin O =>
            Under(frame', O) = Under(frame, O) \cup (IF f \in O \cup Under(frame, O) THEN {b} ELSE {})
  BY <1>1, <1>2, <1>3, <1>4, Gives, Parts
<1>7. MakesFrame(b, f, "start")
  BY <1>3, <1>6, MakesIs
<1> QED
  BY <1>6, <1>7

\* The await of a C++ task in Python.
LEMMA PyAwaitSteps ==
  ASSUME IInv, NEW p \in PyTasks, NEW b \in Blocks, NEW size \in Sizes, PyAwait(p, b, size)
  PROVE  /\ MemoryInv' /\ MakesFrame(b, p, "running") /\ root[p] = None /\ root'[p] = b
         /\ current = p /\ process[p] = "alive"
<1>1. root[p] = None /\ p \in Processes /\ control = p /\ New(b, size, p, "running")
      /\ root' = [root EXCEPT ![p] = b] /\ process' = process
  BY Names DEF PyAwait, RunsPy
<1>2. current = p /\ process[p] = "alive"
  BY <1>1, Parts, Names DEF ControlInv
<1>3. Added' = Added \cup {p} /\ p \in Added'
  BY <1>1, <1>2 DEF Added
<1>4. RestOK'
  <2>1. root' \in [Processes -> Blocks \cup {None}]
    BY <1>1, Parts DEF RestOK
  <2> QED
    BY <2>1, Parts DEF PyAwait, RestOK
<1>5. p # b
  BY <1>1, Names
<1>6. /\ MemoryInv'
      /\ ~Live(b) /\ frame[b] = NoFrame
      /\ \A c \in Blocks : c # b => frame'[c] = frame[c]
      /\ frame'[b].state = "running" /\ frame'[b].owner = p
      /\ frame'[b].continuation = None /\ frame'[b].awaits = None
      /\ \A O : b \notin O /\ None \notin O =>
            Under(frame', O) = Under(frame, O) \cup (IF p \in O \cup Under(frame, O) THEN {b} ELSE {})
  BY <1>1, <1>3, <1>4, <1>5, Gives, Parts
<1>7. MakesFrame(b, p, "running")
  BY <1>5, <1>6, MakesIs
<1> QED
  BY <1>1, <1>2, <1>6, <1>7, Parts DEF TypeOK
(***************************************************************************)
(* Steps that destroy frames.                                              *)
(***************************************************************************)
GoneBelow(D) == \A p \in Processes : Under(frame', {p}) = Under(frame, {p}) \ D

\* What is below a process, after frames went.
LEMMA GoneIs ==
  ASSUME NEW D \in SUBSET Blocks,
         \A O : None \notin O /\ O \cap D = {} => Under(frame', O) = Under(frame, O) \ D
  PROVE  GoneBelow(D)
<1>1. ASSUME NEW p \in Processes
      PROVE  Under(frame', {p}) = Under(frame, {p}) \ D
  <2>1. None \notin {p} /\ {p} \cap D = {}
    BY Names
  <2> QED
    BY <2>1
<1> QED
  BY <1>1 DEF GoneBelow

\* The frames that are left.
LEMMA WithoutIs ==
  ASSUME TypeOK, NEW D \in SUBSET Blocks, frame' = Without(D)
  PROVE  /\ frame' \in [Blocks -> FrameRecords]
         /\ \A c \in Blocks : frame'[c] = IF c \in D THEN NoFrame ELSE frame[c]
BY WithoutType DEF Without

\* What a step that destroys frames does to frames, pools and owners.
LEMMA TakesFrames ==
  ASSUME IInv, RestOK', NEW D, NEW a, Doom(D, a), Destroy(D), thread' = thread, frame' = Without(D),
         \A p \in Processes : root'[p] = IF root[p] \in D THEN None ELSE root[p],
         \/ Added' = Added
         \/ \E p \in Processes : Added' = Added \ {p} /\ D = Under(frame, {p})
  PROVE  /\ MemoryInv' /\ GoneBelow(D)
         /\ \A c \in Blocks : frame'[c] = IF c \in D THEN NoFrame ELSE frame[c]
<1>0. D \in SUBSET Blocks
  BY DEF Doom
<1>1. /\ frame' \in [Blocks -> FrameRecords]
      /\ \A c \in Blocks : frame'[c] = IF c \in D THEN NoFrame ELSE frame[c]
  BY <1>0, WithoutIs, Parts
<1>2. \A c \in Blocks : IF c \in D THEN frame'[c] = NoFrame
                        ELSE /\ frame'[c].owner = frame[c].owner /\ frame'[c].size = frame[c].size
                             /\ frame'[c].state # "none" <=> Live(c)
                             /\ ~Live(c) => frame'[c] = frame[c]
  BY <1>1 DEF Live
<1>3. /\ MemoryInv'
      /\ \A O : None \notin O /\ O \cap D = {} => Under(frame', O) = Under(frame, O) \ D
  BY <1>1, <1>2, Takes, Parts
<1> QED
  BY <1>0, <1>1, <1>3, GoneIs

\* A local variable goes.
LEMMA LeaveSteps ==
  ASSUME IInv, NEW f \in Blocks, NEW b \in Blocks, Leave(f, b)
  PROVE  LET D == {b} \cup Under(frame, {b})
         IN /\ MemoryInv' /\ GoneBelow(D) /\ Doom(D, f) /\ D \subseteq Under(frame, {f}) /\ Runs(f)
            /\ \A c \in Blocks : frame'[c] = IF c \in D THEN NoFrame ELSE frame[c]
<1> DEFINE D == {b} \cup Under(frame, {b})
<1>1. Runs(f) /\ frame[b].owner = f
  BY DEF Leave
<1>2. Live(f)
  BY <1>1, RunsIs, Parts
<1>3. Doom(D, f) /\ D \subseteq Under(frame, {f})
  BY <1>1, <1>2, DoomedWith, Parts
<1>4. Destroy(D) /\ frame' = Without(D)
  <2>1. D = {b} \cup Below({b})
    BY BelowIsUnder
  <2> HIDE DEF D
  <2> QED
    BY <2>1 DEF Leave
<1>5. RestOK' /\ thread' = thread /\ Added' = Added
  BY Parts DEF Leave, RestOK, Added
<1>6. \A p \in Processes : root'[p] = IF root[p] \in D THEN None ELSE root[p]
  <2>1. root' = root
    BY DEF Leave
  <2>2. ASSUME NEW p \in Processes, root[p] \in D
        PROVE  FALSE
    <3>1. root[p] \in Blocks /\ frame[root[p]].owner = p
      BY <1>3, <2>2, Parts, Names DEF OwnerInv, Doom
    <3> HIDE DEF D
    <3> QED
      BY <1>3, <2>2, <3>1, Names DEF Doom
  <2> QED
    BY <2>1, <2>2
<1> HIDE DEF D
<1>7. /\ MemoryInv' /\ GoneBelow(D)
      /\ \A c \in Blocks : frame'[c] = IF c \in D THEN NoFrame ELSE frame[c]
  BY <1>3, <1>4, <1>5, <1>6, TakesFrames
<1> QED
  BY <1>1, <1>3, <1>7 DEF D

\* Python lets go of an awaitable.
LEMMA PyDropSteps ==
  ASSUME IInv, NEW p \in PyTasks, PyDrop(p)
  PROVE  LET D == {root[p]} \cup Under(frame, {root[p]})
         IN /\ MemoryInv' /\ GoneBelow(D) /\ Doom(D, p) /\ control = p /\ current = p /\ root[p] \in Blocks
            /\ D \subseteq Under(frame, {p})
            /\ \A c \in Blocks : frame'[c] = IF c \in D THEN NoFrame ELSE frame[c]
            /\ \A q \in Processes : root'[q] = IF q = p THEN None ELSE root[q]
<1> DEFINE b == root[p]
           D == {b} \cup Under(frame, {b})
<1>1. control = p /\ current = p /\ p \in Processes /\ b \in Blocks /\ frame[b].owner = p
  BY Parts, Names DEF PyDrop, RunsPy, ControlInv, OwnerInv, TypeOK
<1>2. Doom(D, p) /\ D \subseteq Under(frame, {p})
  BY <1>1, DoomedWith, Parts
<1>3. Destroy(D) /\ frame' = Without(D)
  <2>1. D = {root[p]} \cup Below({root[p]})
    BY BelowIsUnder
  <2> HIDE DEF D
  <2> QED
    BY <2>1 DEF PyDrop
<1>4. root' = [root EXCEPT ![p] = None] /\ UNCHANGED <<thread, control, current, process, resumePoint, raised>>
      /\ received' = None
  BY DEF PyDrop
<1>5. RestOK' /\ thread' = thread /\ Added' = Added
  BY <1>4, Parts DEF RestOK, Added
<1>6. \A q \in Processes : root'[q] = IF q = p THEN None ELSE root[q]
  BY <1>4, Parts DEF TypeOK
<1>7. \A q \in Processes : root'[q] = IF root[q] \in D THEN None ELSE root[q]
  <2>1. ASSUME NEW q \in Processes, q # p, root[q] \in D
        PROVE  FALSE
    <3>1. root[q] \in Blocks /\ frame[root[q]].owner = q
      BY <1>2, <2>1, Parts, Names DEF OwnerInv, Doom
    <3> HIDE DEF D
    <3> QED
      BY <1>2, <2>1, <3>1, Names DEF Doom
  <2> QED
    BY <1>6, <2>1
<1>8. /\ MemoryInv' /\ GoneBelow(D)
      /\ \A c \in Blocks : frame'[c] = IF c \in D THEN NoFrame ELSE frame[c]
  <2> HIDE DEF D
  <2> QED
    BY <1>2, <1>3, <1>5, <1>7, TakesFrames
<1> QED
  BY <1>1, <1>2, <1>6, <1>8

\* remove_process().
LEMMA RemoveProcessSteps ==
  ASSUME IInv, NEW p \in Processes, RemoveProcess(p)
  PROVE  LET D == Under(frame, {p})
         IN /\ MemoryInv' /\ GoneBelow(D) /\ Doom(D, p)
            /\ control = None /\ control' = None /\ current' = current /\ raised' = raised
            /\ \A c \in Blocks : frame'[c] = IF c \in D THEN NoFrame ELSE frame[c]
            /\ \A q \in Processes : /\ root'[q] = IF q = p THEN None ELSE root[q]
                                    /\ resumePoint'[q] = IF q = p THEN None ELSE resumePoint[q]
                                    /\ process'[q] = IF q = p THEN "none" ELSE process[q]
<1> DEFINE D == Under(frame, {p})
<1>1. Doom(D, p)
  BY DoomedBelow, Parts
<1>2. Destroy(D) /\ frame' = Without(D)
  <2>1. D = Below({p})
    BY BelowIsUnder
  <2> HIDE DEF D
  <2> QED
    BY <2>1 DEF RemoveProcess
<1>3. /\ process' = [process EXCEPT ![p] = "none"]
      /\ root' = [root EXCEPT ![p] = None]
      /\ resumePoint' = [resumePoint EXCEPT ![p] = None]
      /\ UNCHANGED <<thread, control, current, raised>> /\ received' = None /\ control = None
  BY DEF RemoveProcess
<1>4. RestOK' /\ thread' = thread
  BY <1>3, Parts DEF RestOK
<1>5. \A q \in Processes : /\ root'[q] = IF q = p THEN None ELSE root[q]
                           /\ resumePoint'[q] = IF q = p THEN None ELSE resumePoint[q]
                           /\ process'[q] = IF q = p THEN "none" ELSE process[q]
  BY <1>3, Parts DEF TypeOK
<1>6. Added' = Added \ {p}
  BY <1>5 DEF Added
<1>7. \A q \in Processes : root'[q] = IF root[q] \in D THEN None ELSE root[q]
  <2>1. ASSUME NEW q \in Processes, q # p, root[q] \in D
        PROVE  FALSE
    <3>1. root[q] \in Blocks /\ frame[root[q]].owner = q
      BY <1>1, <2>1, Parts, Names DEF OwnerInv, Doom
    <3> HIDE DEF D
    <3> QED
      BY <1>1, <2>1, <3>1, Names DEF Doom
  <2>2. root[p] # None => root[p] \in D
    BY UnderHas, Parts DEF OwnerInv, TypeOK
  <2> QED
    BY <1>5, <2>1, <2>2
<1>8. /\ MemoryInv' /\ GoneBelow(D)
      /\ \A c \in Blocks : frame'[c] = IF c \in D THEN NoFrame ELSE frame[c]
  <2>1. \E q \in Processes : Added' = Added \ {q} /\ D = Under(frame, {q})
    BY <1>6
  <2> HIDE DEF D
  <2> QED
    BY <1>1, <1>2, <1>4, <1>7, <2>1, TakesFrames
<1> QED
  BY <1>1, <1>3, <1>5, <1>8

(***************************************************************************)
(* The end of a coroutine.                                                 *)
(***************************************************************************)
\* Who has the frames below one that is live takes them along.
LEMMA EndTakes ==
  ASSUME IInv, NEW f \in Blocks, Live(f), NEW D, D = Under(frame, {f}), Destroy(D), RestOK', thread' = thread,
         root' = root, Added' = Added, frame' \in [Blocks -> FrameRecords],
         \A c \in Blocks : IF c \in D THEN frame'[c] = NoFrame
                           ELSE /\ frame'[c].owner = frame[c].owner /\ frame'[c].size = frame[c].size
                                /\ frame'[c].state # "none" <=> Live(c)
                                /\ ~Live(c) => frame'[c] = frame[c]
  PROVE  MemoryInv' /\ GoneBelow(D) /\ Doom(D, f)
<1>1. Doom(D, f)
  BY DoomedBelow, Parts
<1>2. D \in SUBSET Blocks
  BY <1>1 DEF Doom
<1>3. \A p \in Processes : root'[p] = IF root[p] \in D THEN None ELSE root[p]
  <2>1. ASSUME NEW p \in Processes, root[p] \in D
        PROVE  FALSE
    <3>1. root[p] \in Blocks /\ frame[root[p]].owner = p
      BY <1>2, <2>1, Parts, Names DEF OwnerInv
    <3> QED
      BY <1>1, <2>1, <3>1, Names DEF Doom
  <2> QED
    BY <2>1
<1>4. /\ MemoryInv'
      /\ \A O : None \notin O /\ O \cap D = {} => Under(frame', O) = Under(frame, O) \ D
  BY <1>1, <1>3, Takes, Parts
<1> QED
  BY <1>1, <1>2, <1>4, GoneIs

\* A coroutine ends, and the one that awaits it goes on.
LEMMA ToAwaiterSteps ==
  ASSUME IInv, NEW f \in Blocks, Runs(f), NEW promise, IsPromise(f, promise), ToAwaiter(f, promise)
  PROVE  LET g == frame[f].continuation
             D == Under(frame, {f})
             done == [promise EXCEPT !.state = "done"]
         IN /\ MemoryInv' /\ GoneBelow(D) /\ Doom(D, f)
            /\ g \in Blocks /\ g # f /\ g \notin D /\ f \notin D
            /\ frame[f].owner = g /\ frame[g].awaits = f /\ frame[g].state = "suspended"
            /\ \A c \in Blocks : c # f /\ c # g => frame'[c] = IF c \in D THEN NoFrame ELSE frame[c]
            /\ frame'[f].state = "done" /\ frame'[f].owner = g
            /\ frame'[f].continuation = g /\ frame'[f].awaits = frame[f].awaits
            /\ frame'[g].state = "running" /\ frame'[g].owner = frame[g].owner
            /\ frame'[g].continuation = frame[g].continuation /\ frame'[g].awaits = None
            /\ raised' = Throws(done)
            /\ received' = IF Throws(done) THEN None ELSE f
            /\ control' = g
            /\ UNCHANGED <<thread, current, process, root, resumePoint>>
<1> DEFINE g == frame[f].continuation
           D == Under(frame, {f})
           done == [promise EXCEPT !.state = "done"]
<1>0. frame[f].state = "running" /\ Live(f)
  BY RunsIs, Parts
<1>1. /\ g \in Blocks /\ g # f /\ g \notin D /\ f \notin D
      /\ frame[f].owner = g /\ frame[g].awaits = f /\ frame[g].state = "suspended"
      /\ Destroy(D)
      /\ frame' \in [Blocks -> FrameRecords]
      /\ \A c \in Blocks : c # f /\ c # g => frame'[c] = IF c \in D THEN NoFrame ELSE frame[c]
      /\ frame'[f] = Taken(done)
      /\ frame'[g] = [frame[g] EXCEPT !.state = "running", !.awaits = None]
      /\ raised' = Throws(done)
      /\ received' = IF Throws(done) THEN None ELSE f
      /\ control' = g
      /\ UNCHANGED <<thread, current, process, root, resumePoint>>
  BY ToAwaiterIs, Parts
<1>2. /\ promise \in FrameRecords
      /\ promise.owner = frame[f].owner /\ promise.continuation = frame[f].continuation
      /\ promise.awaits = frame[f].awaits /\ promise.size = frame[f].size
  BY PromiseIs, Parts
<1>3. /\ frame'[f].state = "done" /\ frame'[f].owner = g /\ frame'[f].size = frame[f].size
      /\ frame'[f].continuation = g /\ frame'[f].awaits = frame[f].awaits
  <2>1. Taken(done).state = "done" /\ Taken(done).owner = promise.owner /\ Taken(done).size = promise.size
        /\ Taken(done).continuation = promise.continuation /\ Taken(done).awaits = promise.awaits
    BY <1>2 DEF FrameRecords, Taken
  <2> QED
    BY <1>1, <1>2, <2>1
<1>4. /\ frame'[g].state = "running" /\ frame'[g].owner = frame[g].owner /\ frame'[g].size = frame[g].size
      /\ frame'[g].continuation = frame[g].continuation /\ frame'[g].awaits = None
  <2>1. frame[g] \in FrameRecords
    BY <1>1, Parts DEF TypeOK
  <2> QED
    BY <1>1, <2>1 DEF FrameRecords
<1>5. RestOK'
  <2>1. raised' \in BOOLEAN
    BY <1>1 DEF Throws
  <2>2. received' \in Blocks \cup {None}
    BY <1>1
  <2>3. control' \in Blocks
    BY <1>1
  <2> QED
    BY <1>1, <2>1, <2>2, <2>3, Parts DEF RestOK
<1> HIDE DEF g, D, done
<1>6. \A c \in Blocks : IF c \in D THEN frame'[c] = NoFrame
                        ELSE /\ frame'[c].owner = frame[c].owner /\ frame'[c].size = frame[c].size
                             /\ frame'[c].state # "none" <=> Live(c)
                             /\ ~Live(c) => frame'[c] = frame[c]
  BY <1>0, <1>1, <1>3, <1>4 DEF Live
<1>7. MemoryInv' /\ GoneBelow(D) /\ Doom(D, f)
  <2>1. D = Under(frame, {f}) /\ Added' = Added
    BY <1>1 DEF D, Added
  <2> QED
    BY <1>0, <1>1, <1>5, <1>6, <2>1, EndTakes
<1> QED
  BY <1>1, <1>3, <1>4, <1>7 DEF g, D, done

\* A coroutine that nobody awaits is the root of its process.
LEMMA EndsRoot ==
  ASSUME IInv, NEW f \in Blocks, Runs(f), frame[f].continuation = None
  PROVE  frame[f].owner = current /\ root[current] = f
<1>1. /\ frame[f].state = "running" /\ Live(f) /\ Active(f)
      /\ current \in Processes /\ f \in Under(frame, {current})
  BY RunsIs, Parts
<1>2. frame[f].owner \notin Blocks
  BY <1>1, Parts, Names DEF CallInv
<1>3. frame[f].owner = current
  BY <1>1, <1>2, UnderFrom, UnderBlocks
<1> QED
  BY <1>1, <1>3, Parts DEF OwnerInv

EndsAlone(f, D) ==
    /\ MemoryInv' /\ GoneBelow(D) /\ Doom(D, f) /\ f \notin D
    /\ frame[f].owner = current /\ root[current] = f
    /\ \A c \in Blocks : c # f => frame'[c] = IF c \in D THEN NoFrame ELSE frame[c]
    /\ frame'[f].state = "done" /\ frame'[f].owner = current
    /\ frame'[f].continuation = None /\ frame'[f].awaits = frame[f].awaits

\* A coroutine ends that nobody awaits.
LEMMA EndSteps ==
  ASSUME IInv, NEW f \in Blocks, Runs(f), NEW promise, IsPromise(f, promise), Successor(f) = None,
         Destroy(Below({f})), frame' = [Without(Below({f})) EXCEPT ![f] = [promise EXCEPT !.state = "done"]],
         RestOK', thread' = thread, root' = root, Added' = Added
  PROVE  EndsAlone(f, Under(frame, {f}))
<1> DEFINE D == Under(frame, {f})
           done == [promise EXCEPT !.state = "done"]
<1>0. frame[f].state = "running" /\ Live(f)
  BY RunsIs, Parts
<1>1. frame[f].continuation = None /\ frame[f].owner = current /\ root[current] = f
  BY EndsRoot DEF Successor
<1>2. f \notin D /\ D \in SUBSET Blocks
  BY <1>0, Owners, UnderBlocks, Parts
<1>3. Destroy(D) /\ frame' = [Without(D) EXCEPT ![f] = [promise EXCEPT !.state = "done"]]
  BY BelowIsUnder
<1>4. /\ frame' \in [Blocks -> FrameRecords]
      /\ \A c \in Blocks : c # f => frame'[c] = IF c \in D THEN NoFrame ELSE frame[c]
      /\ frame'[f] = done
  <2> HIDE DEF D
  <2> QED
    BY <1>2, <1>3, EndIs, Parts
<1>5. /\ frame'[f].state = "done" /\ frame'[f].owner = current /\ frame'[f].size = frame[f].size
      /\ frame'[f].continuation = None /\ frame'[f].awaits = frame[f].awaits
  <2>1. /\ promise \in FrameRecords
        /\ promise.owner = frame[f].owner /\ promise.continuation = frame[f].continuation
        /\ promise.awaits = frame[f].awaits /\ promise.size = frame[f].size
    BY PromiseIs, Parts
  <2>2. done.state = "done" /\ done.owner = promise.owner /\ done.size = promise.size
        /\ done.continuation = promise.continuation /\ done.awaits = promise.awaits
    BY <2>1 DEF FrameRecords
  <2> QED
    BY <1>1, <1>4, <2>1, <2>2
<1>6. MemoryInv' /\ GoneBelow(D) /\ Doom(D, f)
  <2>1. D = Under(frame, {f})
    OBVIOUS
  <2> HIDE DEF D, done
  <2>2. \A c \in Blocks : IF c \in D THEN frame'[c] = NoFrame
                          ELSE /\ frame'[c].owner = frame[c].owner /\ frame'[c].size = frame[c].size
                               /\ frame'[c].state # "none" <=> Live(c)
                               /\ ~Live(c) => frame'[c] = frame[c]
    BY <1>0, <1>1, <1>2, <1>4, <1>5 DEF Live
  <2> QED
    BY <1>0, <1>3, <1>4, <2>1, <2>2, EndTakes
<1> HIDE DEF D
<1>7. EndsAlone(f, D)
  BY <1>1, <1>2, <1>4, <1>5, <1>6 DEF EndsAlone
<1> QED
  BY <1>7 DEF D

\* The coroutine of a C++ process ends.
LEMMA ToProcessSteps ==
  ASSUME IInv, NEW f \in Blocks, Runs(f), NEW promise, IsPromise(f, promise), ToProcess(f, promise)
  PROVE  /\ EndsAlone(f, Under(frame, {f}))
         /\ current \in CoroProcesses /\ process' = [process EXCEPT ![current] = "ended"]
         /\ control' = None /\ current' = None /\ raised' = FALSE /\ root' = root /\ resumePoint' = resumePoint
<1>1. /\ Successor(f) = None /\ current \in CoroProcesses /\ process' = [process EXCEPT ![current] = "ended"]
      /\ control' = None /\ current' = None /\ raised' = FALSE /\ received' = None
      /\ UNCHANGED <<thread, root, resumePoint>>
      /\ Destroy(Below({f})) /\ frame' = [Without(Below({f})) EXCEPT ![f] = [promise EXCEPT !.state = "done"]]
  BY DEF ToProcess
<1>2. current \in Processes /\ process[current] = "alive"
  BY RunsIs, Parts
<1>3. RestOK'
  BY <1>1, <1>2, Parts DEF RestOK
<1>4. Added' = Added
  <2>1. \A q \in Processes : process'[q] # "none" <=> process[q] # "none"
    BY <1>1, <1>2, Parts DEF TypeOK
  <2> QED
    BY <2>1 DEF Added
<1> QED
  BY <1>1, <1>3, <1>4, EndSteps

\* The task that a Python coroutine awaits ends.
LEMMA ToPythonSteps ==
  ASSUME IInv, NEW f \in Blocks, Runs(f), NEW promise, IsPromise(f, promise), ToPython(f, promise)
  PROVE  /\ EndsAlone(f, Under(frame, {f}))
         /\ current \in PyTasks /\ control' = current /\ received' = IF raised THEN None ELSE f
         /\ UNCHANGED <<current, process, root, resumePoint, raised>>
<1>1. /\ Successor(f) = None /\ current \in PyTasks /\ control' = current
      /\ received' = IF raised THEN None ELSE root[current]
      /\ UNCHANGED <<thread, current, process, root, resumePoint, raised>>
      /\ Destroy(Below({f})) /\ frame' = [Without(Below({f})) EXCEPT ![f] = [promise EXCEPT !.state = "done"]]
  BY DEF ToPython
<1>2. RestOK'
  <2>1. current \in Processes /\ root[current] \in Blocks
    BY RunsIs, Parts
  <2>2. received' \in Blocks \cup {None}
    BY <1>1, <2>1
  <2> QED
    BY <1>1, <2>1, <2>2, Parts DEF RestOK
<1>3. Added' = Added
  BY <1>1 DEF Added
<1>4. EndsAlone(f, Under(frame, {f}))
  BY <1>1, <1>2, <1>3, EndSteps
<1>5. root[current] = f
  BY <1>4 DEF EndsAlone
<1> QED
  BY <1>1, <1>4, <1>5

(***************************************************************************)
(* Calls, control and where processes wait, over the steps.                *)
(***************************************************************************)
FlowInv == CallInv /\ ControlInv /\ WaitInv

\* The three, over what is below a process.
LEMMA FlowNow ==
  ASSUME IInv
  PROVE  /\ control \in Blocks => /\ control \in Under(frame, {current})
                                  /\ root[current] # None /\ Active(root[current])
         /\ \A p \in Processes : Waits(p) =>
               /\ resumePoint[p] \in Under(frame, {p}) /\ resumePoint[p] \in Blocks
               /\ \/ frame[resumePoint[p]].state = "suspended"
                  \/ frame[resumePoint[p]].state = "start" /\ resumePoint[p] = root[p]
               /\ frame[resumePoint[p]].awaits = None
<1>1. control \in Blocks => /\ control \in Under(frame, {current})
                            /\ root[current] # None /\ Active(root[current])
  BY Parts, BelowIsUnder DEF ControlInv
<1>2. ASSUME NEW p \in Processes, Waits(p)
      PROVE  /\ resumePoint[p] \in Under(frame, {p}) /\ resumePoint[p] \in Blocks
             /\ \/ frame[resumePoint[p]].state = "suspended"
                \/ frame[resumePoint[p]].state = "start" /\ resumePoint[p] = root[p]
             /\ frame[resumePoint[p]].awaits = None
  <2>1. resumePoint[p] \in Below({p})
    BY <1>2, Parts DEF WaitInv
  <2> QED
    BY <1>2, <2>1, Parts, BelowIsUnder, UnderBlocks DEF WaitInv
<1> QED
  BY <1>1, <1>2

\* ControlInv after a step, over what is below the current process.
LEMMA ControlNext ==
  ASSUME (current = None <=> control = None)',
         (current # None => process[current] = "alive")',
         (control = None => ~raised)',
         (control \in Processes => control = current /\ control \in PyTasks /\ ~IsAwaiting(control))',
         (\A b \in Blocks : frame[b].state = "running" <=> control = b)',
         (control \in Blocks => control \in Under(frame, {current}) /\ root[current] # None /\ Active(root[current]))'
  PROVE  ControlInv'
<1>1. Below({current})' = Under(frame', {current'})
  BY DEF Below, Under
<1> QED
  BY <1>1 DEF ControlInv, Under

\* WaitInv after a step, over what is below each process.
LEMMA WaitNext ==
  ASSUME (\A p \in CoroProcesses : process[p] = "alive" =>
            root[p] # None /\ frame[root[p]].state \in {"start", "running", "suspended"})',
         \A p \in Processes : Waits(p)' =>
            /\ resumePoint'[p] \in Under(frame', {p})
            /\ \/ frame'[resumePoint'[p]].state = "suspended"
               \/ frame'[resumePoint'[p]].state = "start" /\ resumePoint'[p] = root'[p]
            /\ frame'[resumePoint'[p]].awaits = None
  PROVE  WaitInv'
<1>1. \A p \in Processes : Waits(p)' => (/\ resumePoint[p] \in Below({p})
                                         /\ \/ frame[resumePoint[p]].state = "suspended"
                                            \/ frame[resumePoint[p]].state = "start" /\ resumePoint[p] = root[p]
                                         /\ frame[resumePoint[p]].awaits = None)'
  <2>1. \A p \in Processes : Below({p})' = Under(frame', {p})
    BY BelowNext
  <2> QED
    BY <2>1
<1> QED
  BY <1>1 DEF WaitInv

\* Steps that touch no frame.
LEMMA QuietFlow ==
  ASSUME IInv,
         \/ \E t \in Threads : HandOver(t) \/ EndThread(t)
         \/ \E p \in PyTasks : \/ PyWait(p) \/ PyCatch(p) \/ PyEnd(p) \/ AddPyTask(p)
                               \/ ResumePy(p) /\ ~IsAwaiting(p)
         \/ \E f \in Blocks : Catch(f) \/ Throw(f)
  PROVE  FlowInv'
<1>1. UNCHANGED <<frame, root, resumePoint>>
  BY DEF HandOver, EndThread, PyWait, PyCatch, PyEnd, ResumePy, Catch, Throw, AddPyTask
<1>2. CallInv'
  BY <1>1, Parts DEF CallInv, Active
<1>3. ControlInv'
  <2>1. /\ \A O : Under(frame', O) = Under(frame, O)
        /\ \A p : IsAwaiting(p)' <=> IsAwaiting(p)
        /\ \A b : Active(b)' <=> Active(b)
    BY <1>1 DEF IsAwaiting, Active
  <2>2. CASE UNCHANGED <<control, current, process, raised>>
    BY <1>1, <2>1, <2>2, Parts, FlowNow, ControlNext DEF ControlInv
  <2>3. ASSUME NEW p \in PyTasks, AddPyTask(p)
        PROVE  ControlInv'
    <3>1. control = None /\ current = None /\ control' = None /\ current' = None /\ raised' = raised
      BY <2>3, Parts DEF AddPyTask, ControlInv
    <3> QED
      BY <1>1, <3>1, Parts, Names, ControlNext DEF ControlInv
  <2>4. ASSUME NEW p \in PyTasks, PyWait(p) \/ PyEnd(p)
        PROVE  ControlInv'
    <3>1. control = p /\ control' = None /\ current' = None /\ ~raised' /\ p \notin Blocks
      BY <2>4, Names DEF PyWait, PyEnd, RunsPy
    <3> QED
      BY <1>1, <3>1, Parts, Names, ControlNext DEF ControlInv
  <2>5. ASSUME NEW p \in PyTasks, ResumePy(p), ~IsAwaiting(p)
        PROVE  ControlInv'
    <3>1. /\ control = None /\ control' = p /\ current' = p /\ raised' = raised /\ p \notin Blocks
          /\ process'[p] = "alive" /\ p \in Processes /\ p # None
      BY <2>5, Names DEF ResumePy
    <3>2. ~IsAwaiting(p)'
      BY <2>1, <2>5
    <3>3. (current # None => process[current] = "alive")'
      BY <3>1
    <3>4. (control \in Processes => control = current /\ control \in PyTasks /\ ~IsAwaiting(control))'
      BY <2>1, <2>5, <3>1
    <3>5. (\A b \in Blocks : frame[b].state = "running" <=> control = b)'
      BY <1>1, <3>1, Parts, Names DEF ControlInv
    <3> QED
      BY <3>1, <3>3, <3>4, <3>5, ControlNext
  <2>6. ASSUME NEW p \in PyTasks, PyCatch(p)
        PROVE  ControlInv'
    <3>1. control = p /\ p # None /\ control' = p /\ current' = current /\ process' = process /\ p \notin Blocks
      BY <2>6, Names DEF PyCatch, RunsPy
    <3> QED
      BY <1>1, <2>1, <3>1, Parts, ControlNext DEF ControlInv
  <2>7. ASSUME NEW f \in Blocks, Catch(f) \/ Throw(f)
        PROVE  ControlInv'
    <3>1. control = f /\ f # None /\ control' = f /\ current' = current /\ process' = process
      BY <2>7, Names DEF Catch, Throw, Runs
    <3> QED
      BY <1>1, <2>1, <3>1, Parts, FlowNow, ControlNext DEF ControlInv
  <2> QED
    BY <2>2, <2>3, <2>4, <2>5, <2>6, <2>7 DEF HandOver, EndThread
<1>4. WaitInv'
  <2>1. /\ \A O : Under(frame', O) = Under(frame, O)
        /\ \A p : IsAwaiting(p)' <=> IsAwaiting(p)
    BY <1>1 DEF IsAwaiting
  <2>2. \A p \in CoroProcesses : process'[p] = "alive" => process[p] = "alive"
    BY Parts, Names DEF HandOver, EndThread, PyWait, PyCatch, PyEnd, ResumePy, Catch, Throw, AddPyTask, TypeOK
  <2>3. ASSUME NEW q \in Processes, Waits(q)'
        PROVE  Waits(q)
    <3>1. CASE UNCHANGED <<process, current>>
      BY <2>1, <2>3, <3>1 DEF Waits
    <3>2. ASSUME NEW p \in PyTasks, PyWait(p) \/ PyEnd(p)
          PROVE  Waits(q)
      <4>1. control = p /\ current = p /\ ~IsAwaiting(p) /\ p \in Processes /\ p \notin CoroProcesses
        BY <3>2, Parts, Names DEF PyWait, PyEnd, RunsPy, ControlInv
      <4>2. q # p
        BY <2>1, <2>3, <4>1 DEF Waits
      <4>3. process[q] = "alive"
        BY <2>3, <3>2, <4>2, Parts DEF Waits, PyWait, PyEnd, TypeOK
      <4> QED
        BY <2>1, <2>3, <4>1, <4>2, <4>3 DEF Waits
    <3>3. ASSUME NEW p \in PyTasks, ResumePy(p)
          PROVE  Waits(q)
      <4>1. process' = process /\ current = None
        BY <3>3, Parts DEF ResumePy, ControlInv
      <4> QED
        BY <2>1, <2>3, <4>1, Names DEF Waits
    <3>4. ASSUME NEW p \in PyTasks, AddPyTask(p)
          PROVE  Waits(q)
      <4>1. /\ process' = [process EXCEPT ![p] = "alive"] /\ current' = current /\ root[p] = None
            /\ p \notin CoroProcesses /\ p \in Processes
        BY <3>4, Parts, Names DEF AddPyTask, OwnerInv
      <4>2. ~IsAwaiting(p)
        BY <4>1 DEF IsAwaiting
      <4>3. q # p
        BY <2>1, <2>3, <4>1, <4>2 DEF Waits
      <4>4. process[q] = "alive"
        BY <2>3, <4>1, <4>3, Parts DEF Waits, TypeOK
      <4> QED
        BY <2>1, <2>3, <4>1, <4>4 DEF Waits
    <3> QED
      BY <3>1, <3>2, <3>3, <3>4 DEF HandOver, EndThread, PyCatch, Catch, Throw
  <2>4. \A p \in Processes : Waits(p)' =>
            /\ resumePoint'[p] \in Under(frame', {p})
            /\ \/ frame'[resumePoint'[p]].state = "suspended"
               \/ frame'[resumePoint'[p]].state = "start" /\ resumePoint'[p] = root'[p]
            /\ frame'[resumePoint'[p]].awaits = None
    BY <1>1, <2>1, <2>3, FlowNow
  <2>5. (\A p \in CoroProcesses : process[p] = "alive" =>
            root[p] # None /\ frame[root[p]].state \in {"start", "running", "suspended"})'
    BY <1>1, <2>2, Parts DEF WaitInv
  <2> QED
    BY <2>4, <2>5, WaitNext
<1> QED
  BY <1>2, <1>3, <1>4 DEF FlowInv

\* Two processes have no frame in common.
LEMMA Apart ==
  ASSUME NEW p \in Processes, NEW q \in Processes, p # q
  PROVE  Under(frame, {p}) \cap Under(frame, {q}) = {}
BY UnderDisjoint, Names

\* Control, and what awaits and starts.
LEMMA Flow ==
  ASSUME IInv
  PROVE  /\ \A b \in Blocks : frame[b].continuation # None => frame[b].continuation = frame[b].owner
         /\ \A b \in Blocks : Active(b) /\ frame[b].owner \in Blocks =>
               frame[b].continuation = frame[b].owner /\ frame[frame[b].owner].awaits = b
         /\ \A b \in Blocks : frame[b].awaits # None =>
               /\ frame[b].state = "suspended" /\ Active(frame[b].awaits) /\ frame[frame[b].awaits].owner = b
               /\ frame[b].awaits \in Blocks
         /\ \A b \in Blocks : frame[b].state = "start" =>
               /\ frame[b].continuation = None
               /\ frame[b].owner \in Processes =>
                     /\ frame[b].owner \in CoroProcesses /\ resumePoint[frame[b].owner] = b
                     /\ root[frame[b].owner] = b
         /\ \A b \in Blocks : frame[b].state = "running" <=> control = b
         /\ \A p \in Processes : root[p] # None => /\ root[p] \in Blocks /\ frame[root[p]].owner = p
                                                   /\ root[p] \in Under(frame, {p}) /\ Live(root[p])
         /\ \A b \in Blocks : frame[b].state \in FrameStates
<1>1. \A b \in Blocks : frame[b].awaits # None =>
        /\ frame[b].state = "suspended" /\ Active(frame[b].awaits) /\ frame[frame[b].awaits].owner = b
        /\ frame[b].awaits \in Blocks
  BY Parts, FrameFields DEF CallInv, TypeOK
<1>2. \A b \in Blocks : frame[b].state = "start" =>
               /\ frame[b].continuation = None
               /\ frame[b].owner \in Processes =>
                     /\ frame[b].owner \in CoroProcesses /\ resumePoint[frame[b].owner] = b
                     /\ root[frame[b].owner] = b
  BY Parts DEF CallInv, OwnerInv
<1>3. ASSUME NEW p \in Processes, root[p] # None
      PROVE  /\ root[p] \in Blocks /\ frame[root[p]].owner = p
             /\ root[p] \in Under(frame, {p}) /\ Live(root[p])
  <2>1. root[p] \in Blocks /\ frame[root[p]].owner = p
    BY <1>3, Parts DEF OwnerInv, TypeOK
  <2> QED
    BY <2>1, UnderHas, Owners, Names, Parts
<1>4. \A b \in Blocks : frame[b].state \in FrameStates
  BY Parts, FrameFields DEF TypeOK
<1> QED
  BY <1>1, <1>2, <1>3, <1>4, Parts DEF CallInv, ControlInv

\* A process is resumed where it waits.
LEMMA ResumeFlow ==
  ASSUME IInv, NEW p \in Processes, Waits(p), control = None,
         control' = resumePoint[p], current' = p, frame' = ResumeFrame(frame, resumePoint[p]),
         UNCHANGED <<bytes, pool, count, thread, process, root, resumePoint, raised>>, received' = None
  PROVE  FlowInv'
<1> DEFINE r == resumePoint[p]
<1>1. /\ SameBelow
      /\ r \in Blocks /\ r \in Below({p}) /\ frame[r].awaits = None
      /\ \/ frame[r].state = "suspended"
         \/ frame[r].state = "start" /\ r = root[p]
      /\ \A c \in Blocks : c # r => frame'[c] = frame[c]
      /\ frame'[r].state = "running" /\ frame'[r].owner = frame[r].owner
      /\ frame'[r].continuation = frame[r].continuation /\ frame'[r].awaits = None
  BY ResumeSteps
<1>2. r \in Under(frame, {p}) /\ \A O : Under(frame', O) = Under(frame, O)
  BY <1>1, BelowIsUnder DEF SameBelow
<1>3. process[p] = "alive" /\ p # None
  BY Names DEF Waits
<1> HIDE DEF r
<1>4. CallInv'
  <2>1. (\A b \in Blocks : frame[b].continuation # None => frame[b].continuation = frame[b].owner)'
    BY <1>1, Flow
  <2>2. (\A b \in Blocks : Active(b) /\ frame[b].owner \in Blocks =>
            frame[b].continuation = frame[b].owner /\ frame[frame[b].owner].awaits = b)'
    <3>1. ASSUME NEW b \in Blocks, Active(b)', frame'[b].owner \in Blocks
          PROVE  frame'[b].continuation = frame'[b].owner /\ frame'[frame'[b].owner].awaits = b
      <4>1. frame[b].owner = frame'[b].owner /\ frame[b].continuation = frame'[b].continuation
        BY <1>1
      <4>2. Active(b)
        <5>1. CASE b = r
          <6>1. frame[r].state # "start"
            BY <1>1, <3>1, <4>1, <5>1, Flow, Names
          <6> QED
            BY <1>1, <5>1, <6>1 DEF Active
        <5>2. CASE b # r
          BY <1>1, <3>1, <5>2 DEF Active
        <5> QED
          BY <5>1, <5>2
      <4> QED
        BY <1>1, <3>1, <4>1, <4>2, Flow
    <3> QED
      BY <3>1
  <2>3. (\A b \in Blocks : frame[b].awaits # None =>
            /\ frame[b].state = "suspended" /\ Active(frame[b].awaits) /\ frame[frame[b].awaits].owner = b)'
    <3>1. ASSUME NEW b \in Blocks, frame'[b].awaits # None
          PROVE  frame'[b].state = "suspended" /\ Active(frame[b].awaits)' /\ frame'[frame'[b].awaits].owner = b
      <4>1. b # r /\ frame'[b] = frame[b]
        BY <1>1, <3>1
      <4>2. /\ frame[b].state = "suspended" /\ Active(frame[b].awaits) /\ frame[frame[b].awaits].owner = b
            /\ frame[b].awaits \in Blocks
        BY <3>1, <4>1, Flow
      <4>3. frame'[frame[b].awaits].state \in {"running", "suspended"} /\ frame'[frame[b].awaits].owner = b
        BY <1>1, <4>2 DEF Active
      <4> QED
        BY <4>1, <4>2, <4>3 DEF Active
    <3> QED
      BY <3>1
  <2>4. (\A b \in Blocks : frame[b].state = "start" =>
            /\ frame[b].continuation = None
            /\ frame[b].owner \in Processes => /\ frame[b].owner \in CoroProcesses
                                               /\ resumePoint[frame[b].owner] = b)'
    BY <1>1, Flow
  <2> QED
    BY <2>1, <2>2, <2>3, <2>4 DEF CallInv
<1>5. ControlInv'
  <2>1. (\A b \in Blocks : frame[b].state = "running" <=> control = b)'
    <3>1. \A b \in Blocks : frame[b].state # "running"
      BY Flow, Names
    <3> QED
      BY <1>1, <3>1 DEF r
  <2>2. root[p] # None /\ frame[root[p]].state # "done"
    <3>1. CASE p \in CoroProcesses
      BY <1>3, <3>1, Parts DEF WaitInv
    <3>2. CASE IsAwaiting(p)
      BY <3>2 DEF IsAwaiting
    <3> QED
      BY <3>1, <3>2 DEF Waits
  <2>3. Active(root[p])'
    <3>1. CASE root[p] = r
      BY <1>1, <3>1 DEF Active
    <3>2. CASE root[p] # r
      <4>1. root[p] \in Blocks /\ frame[root[p]].owner = p /\ Live(root[p])
        BY <2>2, Flow
      <4>2. frame[root[p]].state # "start"
        <5>1. frame[root[p]].state = "start" => resumePoint[p] = root[p]
          BY <4>1, Flow
        <5> QED
          BY <3>2, <5>1 DEF r
      <4>3. Active(root[p])
        BY <2>2, <4>1, <4>2, Flow DEF Active, Live, FrameStates
      <4> QED
        BY <1>1, <3>2, <4>1, <4>3 DEF Active
    <3> QED
      BY <3>1, <3>2
  <2>4. control' = r /\ current' = p /\ r # None /\ r \notin Processes /\ process'[p] = "alive" /\ root' = root
    BY <1>1, <1>3, Names DEF r
  <2>5. (control \in Blocks => control \in Under(frame, {current}) /\ root[current] # None /\ Active(root[current]))'
    BY <1>2, <2>2, <2>3, <2>4
  <2> QED
    BY <1>3, <2>1, <2>4, <2>5, ControlNext
<1>6. WaitInv'
  <2>1. (\A q \in CoroProcesses : process[q] = "alive" =>
            root[q] # None /\ frame[root[q]].state \in {"start", "running", "suspended"})'
    <3>1. ASSUME NEW q \in CoroProcesses, process[q] = "alive"
          PROVE  root[q] # None /\ frame'[root[q]].state \in {"start", "running", "suspended"}
      <4>1. root[q] # None /\ frame[root[q]].state \in {"start", "running", "suspended"} /\ root[q] \in Blocks
        BY <3>1, Parts, Flow, Names DEF WaitInv
      <4> QED
        BY <1>1, <4>1
    <3> QED
      BY <3>1
  <2>2. ASSUME NEW q \in Processes, Waits(q)'
        PROVE  /\ resumePoint'[q] \in Under(frame', {q})
               /\ \/ frame'[resumePoint'[q]].state = "suspended"
                  \/ frame'[resumePoint'[q]].state = "start" /\ resumePoint'[q] = root'[q]
               /\ frame'[resumePoint'[q]].awaits = None
    <3>1. q # p
      BY <2>2 DEF Waits
    <3>2. Waits(q)
      <4>1. IsAwaiting(q)' => IsAwaiting(q)
        <5>1. ASSUME root[q] # None, frame[root[q]].state = "done"
              PROVE  frame'[root[q]].state = "done"
          <6>1. root[q] # r /\ root[q] \in Blocks
            BY <1>1, <5>1, Flow
          <6> QED
            BY <1>1, <5>1, <6>1
        <5> QED
          BY <5>1 DEF IsAwaiting
      <4>2. current = None
        BY Parts DEF ControlInv
      <4> QED
        BY <2>2, <4>1, <4>2, Names DEF Waits
    <3>3. /\ resumePoint[q] \in Under(frame, {q}) /\ resumePoint[q] \in Blocks
          /\ \/ frame[resumePoint[q]].state = "suspended"
             \/ frame[resumePoint[q]].state = "start" /\ resumePoint[q] = root[q]
          /\ frame[resumePoint[q]].awaits = None
      BY <3>2, FlowNow
    <3>4. resumePoint[q] # r
      BY <1>2, <3>1, <3>3, Apart
    <3>5. frame'[resumePoint[q]] = frame[resumePoint[q]]
      BY <1>1, <3>3, <3>4
    <3> QED
      BY <1>2, <3>3, <3>5
  <2> QED
    BY <2>1, <2>2, WaitNext
<1> QED
  BY <1>4, <1>5, <1>6 DEF FlowInv

\* CallInv after a step, field by field.
LEMMA CallNext ==
  ASSUME \A b \in Blocks : frame'[b].continuation # None => frame'[b].continuation = frame'[b].owner,
         \A b \in Blocks : frame'[b].state \in {"running", "suspended"} /\ frame'[b].owner \in Blocks =>
            frame'[b].continuation = frame'[b].owner /\ frame'[frame'[b].owner].awaits = b,
         \A b \in Blocks : frame'[b].awaits # None =>
            /\ frame'[b].state = "suspended" /\ frame'[frame'[b].awaits].state \in {"running", "suspended"}
            /\ frame'[frame'[b].awaits].owner = b,
         \A b \in Blocks : frame'[b].state = "start" =>
            /\ frame'[b].continuation = None
            /\ frame'[b].owner \in Processes => /\ frame'[b].owner \in CoroProcesses
                                                /\ resumePoint'[frame'[b].owner] = b
  PROVE  CallInv'
BY DEF CallInv, Active

\* The roots of the C++ processes, and where the others wait, in a step of the process p.
LEMMA OthersWait ==
  ASSUME IInv, NEW p \in Processes,
         \A q \in Processes : /\ q # p => /\ process'[q] = process[q] /\ resumePoint'[q] = resumePoint[q]
                                          /\ root'[q] = root[q] /\ q # current
                                          /\ Under(frame, {q}) \subseteq Under(frame', {q}),
         \A q \in Processes : q # p => \A c \in Under(frame, {q}) :
            /\ frame'[c].state = frame[c].state
            /\ frame'[c].awaits = frame[c].awaits,
         p \in CoroProcesses /\ process'[p] = "alive" =>
            root'[p] # None /\ frame'[root'[p]].state \in {"start", "running", "suspended"},
         Waits(p)' =>
            /\ resumePoint'[p] \in Under(frame', {p})
            /\ \/ frame'[resumePoint'[p]].state = "suspended"
               \/ frame'[resumePoint'[p]].state = "start" /\ resumePoint'[p] = root'[p]
            /\ frame'[resumePoint'[p]].awaits = None
  PROVE  WaitInv'
<1>1. (\A q \in CoroProcesses : process[q] = "alive" =>
            root[q] # None /\ frame[root[q]].state \in {"start", "running", "suspended"})'
  <2>1. ASSUME NEW q \in CoroProcesses, process'[q] = "alive", q # p
        PROVE  root'[q] # None /\ frame'[root'[q]].state \in {"start", "running", "suspended"}
    <3>1. q \in Processes /\ process[q] = "alive" /\ root'[q] = root[q]
      BY <2>1, Names
    <3>2. root[q] # None /\ frame[root[q]].state \in {"start", "running", "suspended"}
      BY <2>1, <3>1, Parts DEF WaitInv
    <3>3. root[q] \in Under(frame, {q})
      BY <3>1, <3>2, Flow
    <3>4. frame'[root[q]].state = frame[root[q]].state
      BY <2>1, <3>1, <3>3
    <3> QED
      BY <3>1, <3>2, <3>4
  <2> QED
    BY <2>1
<1>2. ASSUME NEW q \in Processes, Waits(q)'
      PROVE  /\ resumePoint'[q] \in Under(frame', {q})
             /\ \/ frame'[resumePoint'[q]].state = "suspended"
                \/ frame'[resumePoint'[q]].state = "start" /\ resumePoint'[q] = root'[q]
             /\ frame'[resumePoint'[q]].awaits = None
  <2>1. CASE q = p
    BY <1>2, <2>1
  <2>2. CASE q # p
    <3>1. Waits(q)
      <4>1. IsAwaiting(q)' => IsAwaiting(q)
        <5>1. ASSUME root[q] # None, frame[root[q]].state = "done"
              PROVE  frame'[root[q]].state = "done"
          <6>1. root[q] \in Under(frame, {q})
            BY <5>1, Flow
          <6> QED
            BY <2>2, <5>1, <6>1
        <5> QED
          BY <2>2, <5>1 DEF IsAwaiting
      <4> QED
        BY <1>2, <2>2, <4>1 DEF Waits
    <3>2. /\ resumePoint[q] \in Under(frame, {q}) /\ resumePoint[q] \in Blocks
          /\ \/ frame[resumePoint[q]].state = "suspended"
             \/ frame[resumePoint[q]].state = "start" /\ resumePoint[q] = root[q]
          /\ frame[resumePoint[q]].awaits = None
      BY <3>1, FlowNow
    <3>3. /\ frame'[resumePoint[q]].state = frame[resumePoint[q]].state
          /\ frame'[resumePoint[q]].awaits = frame[resumePoint[q]].awaits
      BY <2>2, <3>2
    <3>4. /\ resumePoint'[q] = resumePoint[q] /\ root'[q] = root[q]
          /\ Under(frame, {q}) \subseteq Under(frame', {q})
      BY <2>2
    <3> QED
      BY <3>2, <3>3, <3>4
  <2> QED
    BY <2>1, <2>2
<1> QED
  BY <1>1, <1>2, WaitNext

\* What runs, where nothing is awaited.
LEMMA Running ==
  ASSUME IInv, NEW f \in Blocks, Runs(f)
  PROVE  /\ control = f /\ frame[f].state = "running" /\ Live(f) /\ f # None /\ f \notin Processes
         /\ current \in Processes /\ current # None /\ process[current] = "alive"
         /\ f \in Under(frame, {current})
         /\ root[current] \in Blocks /\ root[current] # None
         /\ frame[root[current]].state \in {"running", "suspended"} /\ frame[root[current]].owner = current
         /\ frame[f].awaits = None
         /\ \A b \in Blocks : b # f => frame[b].state # "running"
<1>1. /\ control = f /\ frame[f].state = "running" /\ Live(f)
      /\ current \in Processes /\ process[current] = "alive"
      /\ f \in Under(frame, {current})
      /\ root[current] \in Blocks /\ Active(root[current])
  BY RunsIs, Parts
<1>2. frame[f].awaits = None
  BY <1>1, Flow
<1>3. \A b \in Blocks : b # f => frame[b].state # "running"
  BY <1>1, Flow
<1> QED
  BY <1>1, <1>2, <1>3, Names, Flow DEF Active

\* co_await of a task.
LEMMA AwaitFlow ==
  ASSUME IInv, NEW f \in Blocks, NEW b \in Blocks, Await(f, b)
  PROVE  FlowInv'
<1>0. Runs(f) /\ control' = b /\ UNCHANGED <<current, process, root, resumePoint, raised>>
  BY DEF Await
<1>1. /\ SameBelow
      /\ f # b /\ frame[b].owner = f /\ frame[b].state = "start" /\ ~raised
      /\ \A c \in Blocks : c # f /\ c # b => frame'[c] = frame[c]
      /\ frame'[f].state = "suspended" /\ frame'[f].owner = frame[f].owner
      /\ frame'[f].continuation = frame[f].continuation /\ frame'[f].awaits = b
      /\ frame'[b].state = "running" /\ frame'[b].owner = f
      /\ frame'[b].continuation = f /\ frame'[b].awaits = frame[b].awaits
  BY AwaitSteps
<1>2. /\ control = f /\ frame[f].state = "running" /\ Live(f) /\ f # None /\ f \notin Processes
      /\ current \in Processes /\ current # None /\ process[current] = "alive"
      /\ f \in Under(frame, {current})
      /\ root[current] \in Blocks /\ root[current] # None
      /\ frame[root[current]].state \in {"running", "suspended"} /\ frame[root[current]].owner = current
      /\ frame[f].awaits = None
      /\ \A c \in Blocks : c # f => frame[c].state # "running"
  BY <1>0, Running
<1>3. frame[b].awaits = None
  BY <1>1, Flow
<1>4. \A O : Under(frame', O) = Under(frame, O)
  BY <1>1 DEF SameBelow
<1>5. b \in Under(frame, {current})
  BY <1>1, <1>2, UnderHas
<1>6. CallInv'
  <2>1. \A c \in Blocks : frame'[c].continuation # None => frame'[c].continuation = frame'[c].owner
    BY <1>1, Flow
  <2>2. ASSUME NEW c \in Blocks, frame'[c].state \in {"running", "suspended"}, frame'[c].owner \in Blocks
        PROVE  frame'[c].continuation = frame'[c].owner /\ frame'[frame'[c].owner].awaits = c
    <3>1. CASE c = b
      BY <1>1, <3>1
    <3>2. CASE c # b
      <4>1. Active(c) /\ frame'[c].owner = frame[c].owner /\ frame'[c].continuation = frame[c].continuation
        BY <1>1, <1>2, <2>2, <3>2 DEF Active
      <4>2. frame[c].continuation = frame[c].owner /\ frame[frame[c].owner].awaits = c
        BY <2>2, <4>1, Flow
      <4>3. frame[c].owner # f /\ frame[c].owner # b /\ frame[c].owner \in Blocks
        BY <1>2, <1>3, <2>2, <4>1, <4>2, Names
      <4> QED
        BY <1>1, <4>1, <4>2, <4>3
    <3> QED
      BY <3>1, <3>2
  <2>3. ASSUME NEW c \in Blocks, frame'[c].awaits # None
        PROVE  /\ frame'[c].state = "suspended" /\ frame'[frame'[c].awaits].state \in {"running", "suspended"}
               /\ frame'[frame'[c].awaits].owner = c
    <3>1. CASE c = f
      BY <1>1, <3>1
    <3>2. CASE c # f
      <4>1. c # b /\ frame'[c] = frame[c] /\ frame[c].awaits # None
        BY <1>1, <1>3, <2>3, <3>2
      <4>2. /\ frame[c].state = "suspended" /\ Active(frame[c].awaits) /\ frame[frame[c].awaits].owner = c
            /\ frame[c].awaits \in Blocks
        BY <4>1, Flow
      <4>3. frame[c].awaits # b
        BY <1>1, <3>2, <4>2
      <4>4. frame'[frame[c].awaits].state \in {"running", "suspended"} /\ frame'[frame[c].awaits].owner = c
        BY <1>1, <4>2, <4>3 DEF Active
      <4> QED
        BY <4>1, <4>2, <4>4
    <3> QED
      BY <3>1, <3>2
  <2>4. \A c \in Blocks : frame'[c].state = "start" =>
            /\ frame'[c].continuation = None
            /\ frame'[c].owner \in Processes => /\ frame'[c].owner \in CoroProcesses
                                                /\ resumePoint'[frame'[c].owner] = c
    BY <1>0, <1>1, Flow
  <2> QED
    BY <2>1, <2>2, <2>3, <2>4, CallNext
<1>7. ControlInv'
  <2>1. (\A c \in Blocks : frame[c].state = "running" <=> control = c)'
    BY <1>0, <1>1, <1>2
  <2>2. Active(root[current])'
    <3>1. root[current] # b
      BY <1>1, <1>2
    <3>2. frame'[root[current]].state \in {"running", "suspended"}
      BY <1>1, <1>2, <3>1
    <3> QED
      BY <1>0, <3>2 DEF Active
  <2>3. (control \in Blocks => control \in Under(frame, {current}) /\ root[current] # None /\ Active(root[current]))'
    BY <1>0, <1>2, <1>4, <1>5, <2>2
  <2> QED
    BY <1>0, <1>2, <2>1, <2>3, Names, ControlNext
<1>8. WaitInv'
  <2>1. \A q \in Processes : q # current => \A c \in Under(frame, {q}) :
            /\ frame'[c].state = frame[c].state
            /\ frame'[c].awaits = frame[c].awaits
    <3>1. ASSUME NEW q \in Processes, q # current, NEW c \in Under(frame, {q})
          PROVE  c # f /\ c # b /\ c \in Blocks
      BY <1>2, <1>5, <3>1, Apart, UnderBlocks
    <3> QED
      BY <1>1, <3>1
  <2>2. current \in CoroProcesses /\ process'[current] = "alive" =>
            root'[current] # None /\ frame'[root'[current]].state \in {"start", "running", "suspended"}
    BY <1>0, <1>1, <1>2
  <2>3. ~Waits(current)'
    BY <1>0 DEF Waits
  <2> QED
    BY <1>0, <1>2, <1>4, <2>1, <2>2, <2>3, OthersWait
<1> QED
  BY <1>6, <1>7, <1>8 DEF FlowInv

\* co_await of a task that is done.
LEMMA AwaitAgainFlow ==
  ASSUME IInv, NEW f \in Blocks, NEW b \in Blocks, AwaitAgain(f, b)
  PROVE  FlowInv'
<1>0. Runs(f) /\ UNCHANGED <<control, current, process, root, resumePoint>>
  BY DEF AwaitAgain
<1>1. /\ SameBelow
      /\ \A c \in Blocks : /\ frame'[c].owner = frame[c].owner /\ frame'[c].state = frame[c].state
                           /\ frame'[c].continuation = frame[c].continuation
                           /\ frame'[c].awaits = frame[c].awaits
  BY AwaitAgainSteps
<1>2. /\ control = f /\ f # None /\ f \notin Processes /\ current \in Processes /\ current # None
      /\ f \in Under(frame, {current}) /\ process[current] = "alive"
      /\ root[current] \in Blocks /\ root[current] # None
      /\ frame[root[current]].state \in {"running", "suspended"}
  BY <1>0, Running
<1>3. \A O : Under(frame', O) = Under(frame, O)
  BY <1>1 DEF SameBelow
<1>4. CallInv'
  <2>1. \A c \in Blocks : frame'[c].continuation # None => frame'[c].continuation = frame'[c].owner
    BY <1>1, Flow
  <2>2. \A c \in Blocks : frame'[c].state \in {"running", "suspended"} /\ frame'[c].owner \in Blocks =>
            frame'[c].continuation = frame'[c].owner /\ frame'[frame'[c].owner].awaits = c
    BY <1>1, Flow DEF Active
  <2>3. \A c \in Blocks : frame'[c].awaits # None =>
               /\ frame'[c].state = "suspended" /\ frame'[frame'[c].awaits].state \in {"running", "suspended"}
               /\ frame'[frame'[c].awaits].owner = c
    BY <1>1, Flow DEF Active
  <2>4. \A c \in Blocks : frame'[c].state = "start" =>
            /\ frame'[c].continuation = None
            /\ frame'[c].owner \in Processes => /\ frame'[c].owner \in CoroProcesses
                                                /\ resumePoint'[frame'[c].owner] = c
    BY <1>0, <1>1, Flow
  <2> QED
    BY <2>1, <2>2, <2>3, <2>4, CallNext
<1>5. ControlInv'
  <2>1. (\A c \in Blocks : frame[c].state = "running" <=> control = c)'
    BY <1>0, <1>1, Flow
  <2>2. Active(root[current])'
    BY <1>0, <1>1, <1>2 DEF Active
  <2>3. (control \in Blocks => control \in Under(frame, {current}) /\ root[current] # None /\ Active(root[current]))'
    BY <1>0, <1>2, <1>3, <2>2
  <2> QED
    BY <1>0, <1>2, <2>1, <2>3, ControlNext
<1>6. WaitInv'
  <2>1. \A q \in Processes : q # current => \A c \in Under(frame, {q}) :
            /\ frame'[c].state = frame[c].state
            /\ frame'[c].awaits = frame[c].awaits
    BY <1>1, UnderBlocks
  <2>2. current \in CoroProcesses /\ process'[current] = "alive" =>
            root'[current] # None /\ frame'[root'[current]].state \in {"start", "running", "suspended"}
    BY <1>0, <1>1, <1>2
  <2>3. ~Waits(current)'
    BY <1>0 DEF Waits
  <2> QED
    BY <1>0, <1>2, <1>3, <2>1, <2>2, <2>3, OthersWait
<1> QED
  BY <1>4, <1>5, <1>6 DEF FlowInv

\* co_await of a leaf.
LEMMA WaitFlow ==
  ASSUME IInv, NEW f \in Blocks, Wait(f)
  PROVE  FlowInv'
<1>0. Runs(f) /\ ~raised /\ control' = None /\ current' = None /\ UNCHANGED <<process, root, raised>>
  BY DEF Wait
<1>1. /\ SameBelow
      /\ \A c \in Blocks : /\ frame'[c].owner = frame[c].owner
                           /\ frame'[c].continuation = frame[c].continuation
                           /\ frame'[c].awaits = frame[c].awaits
                           /\ c # f => frame'[c].state = frame[c].state
      /\ frame'[f].state = "suspended"
      /\ \A p \in Processes : resumePoint'[p] = IF p = current THEN f ELSE resumePoint[p]
  BY WaitSteps
<1>2. /\ control = f /\ f # None /\ f \notin Processes /\ current \in Processes /\ current # None
      /\ f \in Under(frame, {current}) /\ process[current] = "alive"
      /\ root[current] \in Blocks /\ root[current] # None
      /\ frame[root[current]].state \in {"running", "suspended"}
      /\ frame[f].state = "running" /\ frame[f].awaits = None
      /\ \A b \in Blocks : b # f => frame[b].state # "running"
  BY <1>0, Running
<1>3. \A O : Under(frame', O) = Under(frame, O)
  BY <1>1 DEF SameBelow
<1>4. CallInv'
  <2>1. \A c \in Blocks : frame'[c].continuation # None => frame'[c].continuation = frame'[c].owner
    BY <1>1, Flow
  <2>0. \A c \in Blocks : frame'[c].state \in {"running", "suspended"} <=> Active(c)
    BY <1>1, <1>2 DEF Active
  <2>2. \A c \in Blocks : frame'[c].state \in {"running", "suspended"} /\ frame'[c].owner \in Blocks =>
            frame'[c].continuation = frame'[c].owner /\ frame'[frame'[c].owner].awaits = c
    BY <1>1, <2>0, Flow
  <2>3. ASSUME NEW c \in Blocks, frame'[c].awaits # None
        PROVE  /\ frame'[c].state = "suspended" /\ frame'[frame'[c].awaits].state \in {"running", "suspended"}
               /\ frame'[frame'[c].awaits].owner = c
    <3>1. frame'[c].awaits = frame[c].awaits /\ frame[c].awaits # None
      BY <1>1, <2>3
    <3>2. /\ frame[c].state = "suspended" /\ Active(frame[c].awaits) /\ frame[frame[c].awaits].owner = c
          /\ frame[c].awaits \in Blocks
      BY <3>1, Flow
    <3> QED
      BY <1>1, <2>0, <3>1, <3>2
  <2>4. ASSUME NEW c \in Blocks, frame'[c].state = "start"
        PROVE  /\ frame'[c].continuation = None
               /\ frame'[c].owner \in Processes => /\ frame'[c].owner \in CoroProcesses
                                                   /\ resumePoint'[frame'[c].owner] = c
    <3>1. frame[c].state = "start"
      BY <1>1, <2>4
    <3>2. frame[c].owner \in Processes => frame[c].owner # current
      BY <1>2, <3>1, Flow
    <3> QED
      BY <1>1, <3>1, <3>2, Flow
  <2> QED
    BY <2>1, <2>2, <2>3, <2>4, CallNext
<1>5. ControlInv'
  <2>1. (\A c \in Blocks : frame[c].state = "running" <=> control = c)'
    BY <1>0, <1>1, <1>2, Names
  <2> QED
    BY <1>0, <2>1, Names, ControlNext
<1>6. WaitInv'
  <2>1. \A q \in Processes : q # current => \A c \in Under(frame, {q}) :
            /\ frame'[c].state = frame[c].state
            /\ frame'[c].awaits = frame[c].awaits
    <3>1. ASSUME NEW q \in Processes, q # current, NEW c \in Under(frame, {q})
          PROVE  c # f /\ c \in Blocks
      BY <1>2, <3>1, Apart, UnderBlocks
    <3> QED
      BY <1>1, <3>1
  <2>2. current \in CoroProcesses /\ process'[current] = "alive" =>
            root'[current] # None /\ frame'[root'[current]].state \in {"start", "running", "suspended"}
    BY <1>0, <1>1, <1>2
  <2>3. /\ resumePoint'[current] \in Under(frame', {current})
        /\ frame'[resumePoint'[current]].state = "suspended"
        /\ frame'[resumePoint'[current]].awaits = None
    BY <1>1, <1>2, <1>3
  <2>4. \A q \in Processes :
           q # current => /\ process'[q] = process[q] /\ resumePoint'[q] = resumePoint[q]
                          /\ root'[q] = root[q]
                          /\ Under(frame, {q}) \subseteq Under(frame', {q})
    BY <1>0, <1>1, <1>3
  <2> QED
    BY <1>2, <2>1, <2>2, <2>3, <2>4, OthersWait
<1> QED
  BY <1>4, <1>5, <1>6 DEF FlowInv
(***************************************************************************)
(* New frames.                                                             *)
(***************************************************************************)
\* Nothing refers to a block that has no frame.
LEMMA Unknown ==
  ASSUME IInv, NEW b \in Blocks, ~Live(b)
  PROVE  /\ \A c \in Blocks : frame[c].owner # b /\ frame[c].awaits # b
         /\ \A p \in Processes : root[p] # b
         /\ \A O : None \notin O => b \notin Under(frame, O)
<1>1. ASSUME NEW c \in Blocks
      PROVE  frame[c].owner # b /\ frame[c].awaits # b
  <2>1. frame[c].owner # b
    BY Owners, Parts, Names DEF Added
  <2>2. frame[c].awaits # b
    BY Flow, Names DEF Active, Live
  <2> QED
    BY <2>1, <2>2
<1>2. ASSUME NEW p \in Processes, root[p] = b
      PROVE  FALSE
  <2>1. root[p] # None
    BY <1>2, Names
  <2>2. Live(root[p])
    BY <2>1, Flow
  <2> QED
    BY <1>2, <2>2
<1>3. ASSUME NEW O, None \notin O, b \in Under(frame, O)
      PROVE  FALSE
  <2>1. frame[b].owner \in O \cup Under(frame, O) /\ frame[b].owner = None
    BY <1>3, UnderFrom, Owners, Parts
  <2> QED
    BY <1>3, <2>1, UnderBlocks, Names
<1> QED
  BY <1>1, <1>2, <1>3

\* A new frame is called by nobody yet.
LEMMA NewCalls ==
  ASSUME IInv, NEW b \in Blocks, NEW o \in Processes \cup Blocks, NEW state \in {"start", "running"}, MakesFrame(b, o, state),
         state = "running" => o \in Processes,
         state = "start" /\ o \in Processes => o \in CoroProcesses /\ resumePoint'[o] = b,
         \A c \in Blocks : frame[c].owner \in Processes => resumePoint'[frame[c].owner] = resumePoint[frame[c].owner]
  PROVE  CallInv'
<1>1. /\ ~Live(b) /\ frame[b] = NoFrame /\ o # b
      /\ \A c \in Blocks : c # b => frame'[c] = frame[c]
      /\ frame'[b].state = state /\ frame'[b].owner = o
      /\ frame'[b].continuation = None /\ frame'[b].awaits = None
  BY DEF MakesFrame
<1>2. \A c \in Blocks : frame[c].owner # b /\ frame[c].awaits # b
  BY <1>1, Unknown
<1>3. \A c \in Blocks : frame'[c].continuation # None => frame'[c].continuation = frame'[c].owner
  BY <1>1, Flow
<1>4. \A c \in Blocks : frame'[c].state \in {"running", "suspended"} /\ frame'[c].owner \in Blocks =>
            frame'[c].continuation = frame'[c].owner /\ frame'[frame'[c].owner].awaits = c
  BY <1>1, <1>2, Flow, Names DEF Active
<1>5. \A c \in Blocks : frame'[c].awaits # None =>
            /\ frame'[c].state = "suspended" /\ frame'[frame'[c].awaits].state \in {"running", "suspended"}
            /\ frame'[frame'[c].awaits].owner = c
  BY <1>1, <1>2, Flow DEF Active
<1>6. \A c \in Blocks : frame'[c].state = "start" =>
            /\ frame'[c].continuation = None
            /\ frame'[c].owner \in Processes => /\ frame'[c].owner \in CoroProcesses
                                                /\ resumePoint'[frame'[c].owner] = c
  BY <1>1, Flow
<1> QED
  BY <1>3, <1>4, <1>5, <1>6, CallNext

\* register_coro_task and spawn.
LEMMA AddCoroProcessFlow ==
  ASSUME IInv, NEW p \in CoroProcesses, NEW b \in Blocks, NEW size \in Sizes, AddCoroProcess(p, b, size)
  PROVE  FlowInv'
<1>0. /\ control = None /\ current = None /\ control' = None /\ current' = None /\ ~raised' /\ p \in Processes
      /\ \A q \in Processes : /\ process'[q] = IF q = p THEN "alive" ELSE process[q]
                              /\ root'[q] = IF q = p THEN b ELSE root[q]
                              /\ resumePoint'[q] = IF q = p THEN b ELSE resumePoint[q]
  BY Parts, Names DEF AddCoroProcess, ControlInv, TypeOK
<1>1. MakesFrame(b, p, "start") /\ root[p] = None
  BY AddCoroProcessSteps
<1>2. /\ ~Live(b)
      /\ \A c \in Blocks : c # b => frame'[c] = frame[c]
      /\ frame'[b].state = "start" /\ frame'[b].owner = p
      /\ frame'[b].continuation = None /\ frame'[b].awaits = None
      /\ \A q \in Processes :
            Under(frame', {q}) = Under(frame, {q}) \cup (IF p \in {q} \cup Under(frame, {q}) THEN {b} ELSE {})
  BY <1>1 DEF MakesFrame, NewBelow
<1>3. CallInv'
  <2>1. \A c \in Blocks : frame[c].owner \in Processes => resumePoint'[frame[c].owner] = resumePoint[frame[c].owner]
    <3>1. \A c \in Blocks : frame[c].owner # p
      BY <1>0, <1>1, Parts, Names DEF OwnerInv
    <3> QED
      BY <1>0, <3>1
  <2> QED
    BY <1>0, <1>1, <2>1, NewCalls
<1>4. ControlInv'
  <2>1. (\A c \in Blocks : frame[c].state = "running" <=> control = c)'
    BY <1>0, <1>2, Flow, Names
  <2> QED
    BY <1>0, <2>1, Names, ControlNext
<1>5. WaitInv'
  <2>1. \A q \in Processes : q # p => \A c \in Under(frame, {q}) :
            /\ frame'[c].state = frame[c].state
            /\ frame'[c].awaits = frame[c].awaits
    <3>1. ASSUME NEW q \in Processes, NEW c \in Under(frame, {q})
          PROVE  c # b /\ c \in Blocks
      BY <1>2, Unknown, UnderBlocks, Names
    <3> QED
      BY <1>2, <3>1
  <2>2. root'[p] # None /\ frame'[root'[p]].state = "start"
    BY <1>0, <1>2, Names
  <2>3. /\ resumePoint'[p] \in Under(frame', {p})
        /\ frame'[resumePoint'[p]].state = "start" /\ resumePoint'[p] = root'[p]
        /\ frame'[resumePoint'[p]].awaits = None
    BY <1>0, <1>2
  <2>4. \A q \in Processes :
           q # p => /\ process'[q] = process[q] /\ resumePoint'[q] = resumePoint[q]
                    /\ root'[q] = root[q] /\ q # current
                    /\ Under(frame, {q}) \subseteq Under(frame', {q})
    BY <1>0, <1>2, Names
  <2> QED
    BY <1>0, <2>1, <2>2, <2>3, <2>4, OthersWait
<1> QED
  BY <1>3, <1>4, <1>5 DEF FlowInv

\* The call of a coroutine function.
LEMMA CreateFlow ==
  ASSUME IInv, NEW f \in Blocks, NEW b \in Blocks, NEW size \in Sizes, Create(f, b, size)
  PROVE  FlowInv'
<1>0. Runs(f) /\ UNCHANGED <<control, current, process, root, resumePoint, raised>>
  BY DEF Create
<1>1. MakesFrame(b, f, "start")
  BY CreateSteps
<1>2. /\ ~Live(b)
      /\ \A c \in Blocks : c # b => frame'[c] = frame[c]
      /\ frame'[b].state = "start"
      /\ \A q \in Processes :
            Under(frame', {q}) = Under(frame, {q}) \cup (IF f \in {q} \cup Under(frame, {q}) THEN {b} ELSE {})
  BY <1>1 DEF MakesFrame, NewBelow
<1>3. /\ control = f /\ f # None /\ f \notin Processes /\ current \in Processes /\ current # None
      /\ f \in Under(frame, {current}) /\ process[current] = "alive" /\ Live(f)
      /\ root[current] \in Blocks /\ root[current] # None
      /\ frame[root[current]].state \in {"running", "suspended"}
  BY <1>0, Running
<1>4. CallInv'
  BY <1>0, <1>1, <1>3, NewCalls
<1>5. ControlInv'
  <2>1. (\A c \in Blocks : frame[c].state = "running" <=> control = c)'
    BY <1>0, <1>2, <1>3, Flow
  <2>2. Active(root[current])'
    BY <1>0, <1>2, <1>3 DEF Active, Live
  <2>3. (control \in Blocks => control \in Under(frame, {current}) /\ root[current] # None /\ Active(root[current]))'
    BY <1>0, <1>2, <1>3, <2>2
  <2> QED
    BY <1>0, <1>3, <2>1, <2>3, ControlNext
<1>6. WaitInv'
  <2>1. \A q \in Processes : q # current => \A c \in Under(frame, {q}) :
            /\ frame'[c].state = frame[c].state
            /\ frame'[c].awaits = frame[c].awaits
    <3>1. ASSUME NEW q \in Processes, NEW c \in Under(frame, {q})
          PROVE  c # b /\ c \in Blocks
      BY <1>2, Unknown, UnderBlocks, Names
    <3> QED
      BY <1>2, <3>1
  <2>2. root'[current] # None /\ frame'[root'[current]].state \in {"start", "running", "suspended"}
    BY <1>0, <1>2, <1>3 DEF Live
  <2>3. ~Waits(current)'
    BY <1>0 DEF Waits
  <2>4. \A q \in Processes :
           q # current => /\ process'[q] = process[q] /\ resumePoint'[q] = resumePoint[q]
                          /\ root'[q] = root[q]
                          /\ Under(frame, {q}) \subseteq Under(frame', {q})
    BY <1>0, <1>2
  <2> QED
    BY <1>0, <1>3, <2>1, <2>2, <2>3, <2>4, OthersWait
<1> QED
  BY <1>4, <1>5, <1>6 DEF FlowInv

\* The await of a C++ task in Python.
LEMMA PyAwaitFlow ==
  ASSUME IInv, NEW p \in PyTasks, NEW b \in Blocks, NEW size \in Sizes, PyAwait(p, b, size)
  PROVE  FlowInv'
<1>0. /\ control = p /\ control' = b /\ UNCHANGED <<current, process, resumePoint, raised>>
      /\ p \in Processes /\ p \notin CoroProcesses
      /\ \A q \in Processes : root'[q] = IF q = p THEN b ELSE root[q]
  BY Parts, Names DEF PyAwait, RunsPy, TypeOK
<1>1. MakesFrame(b, p, "running") /\ root[p] = None /\ root'[p] = b /\ current = p /\ process[p] = "alive"
  BY PyAwaitSteps
<1>2. /\ ~Live(b)
      /\ \A c \in Blocks : c # b => frame'[c] = frame[c]
      /\ frame'[b].state = "running"
      /\ \A q \in Processes :
            Under(frame', {q}) = Under(frame, {q}) \cup (IF p \in {q} \cup Under(frame, {q}) THEN {b} ELSE {})
  BY <1>1 DEF MakesFrame, NewBelow
<1>3. CallInv'
  BY <1>0, <1>1, NewCalls
<1>4. ControlInv'
  <2>1. (\A c \in Blocks : frame[c].state = "running" <=> control = c)'
    BY <1>0, <1>2, Flow, Names
  <2>2. Active(root[current])'
    BY <1>0, <1>1, <1>2 DEF Active
  <2>3. b \in Under(frame', {p}) /\ b # None /\ p # None /\ b \notin Processes
    BY <1>0, <1>2, Names
  <2>4. (control \in Blocks => control \in Under(frame, {current}) /\ root[current] # None /\ Active(root[current]))'
    BY <1>0, <1>1, <2>2, <2>3
  <2> QED
    BY <1>0, <1>1, <2>1, <2>3, <2>4, ControlNext
<1>5. WaitInv'
  <2>1. \A q \in Processes : q # p => \A c \in Under(frame, {q}) :
            /\ frame'[c].state = frame[c].state
            /\ frame'[c].awaits = frame[c].awaits
    <3>1. ASSUME NEW q \in Processes, NEW c \in Under(frame, {q})
          PROVE  c # b /\ c \in Blocks
      BY <1>2, Unknown, UnderBlocks, Names
    <3> QED
      BY <1>2, <3>1
  <2>3. ~Waits(p)'
    BY <1>0, <1>1 DEF Waits
  <2>4. \A q \in Processes :
           q # p => /\ process'[q] = process[q] /\ resumePoint'[q] = resumePoint[q]
                    /\ root'[q] = root[q] /\ q # current
                    /\ Under(frame, {q}) \subseteq Under(frame', {q})
    BY <1>0, <1>1, <1>2
  <2> QED
    BY <1>0, <2>1, <2>3, <2>4, OthersWait
<1> QED
  BY <1>3, <1>4, <1>5 DEF FlowInv

(***************************************************************************)
(* Frames that go.                                                         *)
(***************************************************************************)
\* Frames that go together: no other process has its root among them.
LEMMA DoomIs ==
  ASSUME IInv, NEW D, NEW a, Doom(D, a)
  PROVE  /\ D \subseteq Blocks /\ a \notin D /\ None \notin D
         /\ \A c \in Blocks : frame[c].owner \in D => c \in D
         /\ \A c \in D : Live(c) /\ frame[c].owner \in D \cup {a}
         /\ \A p \in Processes : p # a /\ root[p] # None => root[p] \notin D
<1>1. D \subseteq Blocks /\ a \notin D /\ None \notin D
  BY Names DEF Doom
<1>2. ASSUME NEW p \in Processes, p # a, root[p] # None, root[p] \in D
      PROVE  FALSE
  <2>1. frame[root[p]].owner = p
    BY <1>2, Flow
  <2> QED
    BY <1>1, <1>2, <2>1, Names DEF Doom
<1> QED
  BY <1>1, <1>2 DEF Doom

\* No call leads to a frame that goes.
LEMMA RemoveCalls ==
  ASSUME IInv, NEW D, NEW a, Doom(D, a), a \in Blocks => frame[a].awaits = None,
         \A c \in Blocks : frame'[c] = IF c \in D THEN NoFrame ELSE frame[c],
         \A c \in Blocks \ D : frame[c].owner \in Processes => resumePoint'[frame[c].owner] = resumePoint[frame[c].owner]
  PROVE  CallInv'
<1>0. /\ D \subseteq Blocks /\ a \notin D /\ None \notin D
      /\ \A c \in Blocks : frame[c].owner \in D => c \in D
      /\ \A c \in D : Live(c) /\ frame[c].owner \in D \cup {a}
  BY DoomIs
<1>1. /\ \A c \in Blocks : c \notin D => frame'[c] = frame[c]
      /\ \A c \in D : frame'[c].state = "none" /\ frame'[c].continuation = None /\ frame'[c].awaits = None
  BY <1>0 DEF NoFrame
<1>2. \A c \in Blocks : frame'[c].continuation # None => frame'[c].continuation = frame'[c].owner
  BY <1>1, Flow
<1>3. ASSUME NEW c \in Blocks, frame'[c].state \in {"running", "suspended"}, frame'[c].owner \in Blocks
      PROVE  frame'[c].continuation = frame'[c].owner /\ frame'[frame'[c].owner].awaits = c
  <2>1. c \notin D /\ frame'[c] = frame[c]
    BY <1>1, <1>3
  <2>2. frame[c].continuation = frame[c].owner /\ frame[frame[c].owner].awaits = c
    BY <1>3, <2>1, Flow DEF Active
  <2>3. frame[c].owner \notin D
    BY <1>0, <2>1
  <2> QED
    BY <1>1, <1>3, <2>1, <2>2, <2>3
<1>4. ASSUME NEW c \in Blocks, frame'[c].awaits # None
      PROVE  /\ frame'[c].state = "suspended" /\ frame'[frame'[c].awaits].state \in {"running", "suspended"}
             /\ frame'[frame'[c].awaits].owner = c
  <2>1. c \notin D /\ frame'[c] = frame[c]
    BY <1>1, <1>4
  <2>2. /\ frame[c].state = "suspended" /\ Active(frame[c].awaits) /\ frame[frame[c].awaits].owner = c
        /\ frame[c].awaits \in Blocks
    BY <1>4, <2>1, Flow
  <2>3. c # a
    BY <1>4, <2>1
  <2>4. frame[c].awaits \notin D
    BY <1>0, <2>1, <2>2, <2>3
  <2> QED
    BY <1>1, <2>1, <2>2, <2>4 DEF Active
<1>5. \A c \in Blocks : frame'[c].state = "start" =>
            /\ frame'[c].continuation = None
            /\ frame'[c].owner \in Processes => /\ frame'[c].owner \in CoroProcesses
                                                /\ resumePoint'[frame'[c].owner] = c
  BY <1>1, Flow
<1> QED
  BY <1>2, <1>3, <1>4, <1>5, CallNext

\* What the others have is not among the frames that go.
LEMMA OthersKeep ==
  ASSUME IInv, NEW p \in Processes, NEW D, D \subseteq Under(frame, {p}), GoneBelow(D)
  PROVE  \A q \in Processes : q # p => /\ Under(frame, {q}) \subseteq Under(frame', {q})
                                       /\ Under(frame, {q}) \cap D = {}
                                       /\ Under(frame, {q}) \subseteq Blocks
BY Apart, UnderBlocks DEF GoneBelow

\* A local variable goes.
LEMMA LeaveFlow ==
  ASSUME IInv, NEW f \in Blocks, NEW b \in Blocks, Leave(f, b)
  PROVE  FlowInv'
<1> DEFINE D == {b} \cup Under(frame, {b})
<1>0. UNCHANGED <<control, current, process, root, resumePoint, raised>>
  BY DEF Leave
<1>1. /\ GoneBelow(D) /\ Doom(D, f) /\ D \subseteq Under(frame, {f}) /\ Runs(f)
      /\ \A c \in Blocks : frame'[c] = IF c \in D THEN NoFrame ELSE frame[c]
  BY LeaveSteps
<1> HIDE DEF D
<1>2. /\ control = f /\ f # None /\ f \notin Processes /\ current \in Processes /\ current # None
      /\ f \in Under(frame, {current}) /\ process[current] = "alive"
      /\ root[current] \in Blocks /\ root[current] # None
      /\ frame[root[current]].state \in {"running", "suspended"}
      /\ frame[f].awaits = None /\ frame[f].state = "running"
      /\ \A c \in Blocks : c # f => frame[c].state # "running"
  BY <1>1, Running
<1>3. /\ D \subseteq Blocks /\ f \notin D /\ root[current] \notin D
  BY <1>1, <1>2, DoomIs
<1>4. D \subseteq Under(frame, {current})
  BY <1>1, <1>2, UnderTrans
<1>5. CallInv'
  BY <1>0, <1>1, <1>2, RemoveCalls
<1>6. ControlInv'
  <2>1. (\A c \in Blocks : frame[c].state = "running" <=> control = c)'
    BY <1>0, <1>1, <1>2, <1>3 DEF NoFrame
  <2>2. Active(root[current])'
    BY <1>0, <1>1, <1>2, <1>3 DEF Active
  <2>3. (control \in Blocks => control \in Under(frame, {current}) /\ root[current] # None /\ Active(root[current]))'
    BY <1>0, <1>1, <1>2, <1>3, <2>2 DEF GoneBelow
  <2> QED
    BY <1>0, <1>2, <2>1, <2>3, ControlNext
<1>7. WaitInv'
  <2>1. \A q \in Processes : q # current => \A c \in Under(frame, {q}) :
            /\ frame'[c].state = frame[c].state
            /\ frame'[c].awaits = frame[c].awaits
    <3>1. ASSUME NEW q \in Processes, q # current, NEW c \in Under(frame, {q})
          PROVE  c \notin D /\ c \in Blocks
      BY <1>1, <1>2, <1>4, <3>1, OthersKeep
    <3> QED
      BY <1>1, <3>1
  <2>2. root'[current] # None /\ frame'[root'[current]].state \in {"start", "running", "suspended"}
    BY <1>0, <1>1, <1>2, <1>3
  <2>3. ~Waits(current)'
    BY <1>0 DEF Waits
  <2>4. \A q \in Processes :
           q # current => /\ process'[q] = process[q] /\ resumePoint'[q] = resumePoint[q]
                          /\ root'[q] = root[q]
                          /\ Under(frame, {q}) \subseteq Under(frame', {q})
    BY <1>0, <1>1, <1>2, <1>4, OthersKeep
  <2> QED
    BY <1>0, <1>2, <2>1, <2>2, <2>3, <2>4, OthersWait
<1> QED
  BY <1>5, <1>6, <1>7 DEF FlowInv

\* Python lets go of an awaitable.
LEMMA PyDropFlow ==
  ASSUME IInv, NEW p \in PyTasks, PyDrop(p)
  PROVE  FlowInv'
<1> DEFINE D == {root[p]} \cup Under(frame, {root[p]})
<1>0. UNCHANGED <<control, current, process, resumePoint, raised>> /\ p \in Processes /\ p \notin Blocks /\ p # None
      /\ p \notin CoroProcesses
  BY Names DEF PyDrop
<1>1. /\ GoneBelow(D) /\ Doom(D, p) /\ control = p /\ current = p
      /\ D \subseteq Under(frame, {p})
      /\ \A c \in Blocks : frame'[c] = IF c \in D THEN NoFrame ELSE frame[c]
      /\ \A q \in Processes : root'[q] = IF q = p THEN None ELSE root[q]
  BY PyDropSteps
<1> HIDE DEF D
<1>2. CallInv'
  BY <1>0, <1>1, RemoveCalls
<1>3. ControlInv'
  <2>1. (\A c \in Blocks : frame[c].state = "running" <=> control = c)'
    BY <1>0, <1>1, Flow DEF NoFrame
  <2>2. ~IsAwaiting(p)'
    BY <1>0, <1>1 DEF IsAwaiting
  <2>3. process[p] = "alive"
    BY <1>0, <1>1, Parts DEF ControlInv
  <2>4. (control \in Processes => control = current /\ control \in PyTasks /\ ~IsAwaiting(control))'
    BY <1>0, <1>1, <2>2
  <2> QED
    BY <1>0, <1>1, <2>1, <2>3, <2>4, ControlNext
<1>4. WaitInv'
  <2>1. \A q \in Processes : q # p => \A c \in Under(frame, {q}) :
            /\ frame'[c].state = frame[c].state
            /\ frame'[c].awaits = frame[c].awaits
    <3>1. ASSUME NEW q \in Processes, q # p, NEW c \in Under(frame, {q})
          PROVE  c \notin D /\ c \in Blocks
      BY <1>0, <1>1, <3>1, OthersKeep
    <3> QED
      BY <1>1, <3>1
  <2>3. ~Waits(p)'
    BY <1>0, <1>1 DEF Waits
  <2>4. \A q \in Processes :
           q # p => /\ process'[q] = process[q] /\ resumePoint'[q] = resumePoint[q]
                    /\ root'[q] = root[q] /\ q # current
                    /\ Under(frame, {q}) \subseteq Under(frame', {q})
    BY <1>0, <1>1, OthersKeep
  <2> QED
    BY <1>0, <2>1, <2>3, <2>4, OthersWait
<1> QED
  BY <1>2, <1>3, <1>4 DEF FlowInv

\* remove_process().
LEMMA RemoveProcessFlow ==
  ASSUME IInv, NEW p \in Processes, RemoveProcess(p)
  PROVE  FlowInv'
<1> DEFINE D == Under(frame, {p})
<1>1. /\ GoneBelow(D) /\ Doom(D, p)
      /\ control = None /\ control' = None /\ current' = current /\ raised' = raised
      /\ \A c \in Blocks : frame'[c] = IF c \in D THEN NoFrame ELSE frame[c]
      /\ \A q \in Processes : /\ root'[q] = IF q = p THEN None ELSE root[q]
                              /\ resumePoint'[q] = IF q = p THEN None ELSE resumePoint[q]
                              /\ process'[q] = IF q = p THEN "none" ELSE process[q]
  BY RemoveProcessSteps
<1>2. current = None /\ ~raised /\ \A q \in Processes : q # current
  BY <1>1, Parts, Names DEF ControlInv
<1>3. p \notin Blocks /\ D \subseteq Under(frame, {p}) /\ D \subseteq Blocks
      /\ \A c \in Blocks : frame[c].owner = p => c \in D
  BY Names, UnderBlocks, UnderHas
<1> HIDE DEF D
<1>4. CallInv'
  <2>1. \A c \in Blocks \ D : frame[c].owner \in Processes =>
           resumePoint'[frame[c].owner] = resumePoint[frame[c].owner]
    BY <1>1, <1>3
  <2> QED
    BY <1>1, <1>3, <2>1, RemoveCalls
<1>5. ControlInv'
  <2>1. (\A c \in Blocks : frame[c].state = "running" <=> control = c)'
    BY <1>1, Flow, Names DEF NoFrame
  <2> QED
    BY <1>1, <1>2, <2>1, Names, ControlNext
<1>6. WaitInv'
  <2>1. \A q \in Processes : q # p => \A c \in Under(frame, {q}) :
            /\ frame'[c].state = frame[c].state
            /\ frame'[c].awaits = frame[c].awaits
    <3>1. ASSUME NEW q \in Processes, q # p, NEW c \in Under(frame, {q})
          PROVE  c \notin D /\ c \in Blocks
      BY <1>1, <1>3, <3>1, OthersKeep
    <3> QED
      BY <1>1, <3>1
  <2>2. process'[p] # "alive"
    BY <1>1
  <2>3. ~Waits(p)'
    BY <2>2 DEF Waits
  <2>4. \A q \in Processes :
           q # p => /\ process'[q] = process[q] /\ resumePoint'[q] = resumePoint[q]
                    /\ root'[q] = root[q] /\ q # current
                    /\ Under(frame, {q}) \subseteq Under(frame', {q})
    BY <1>1, <1>2, <1>3, OthersKeep
  <2> QED
    BY <2>1, <2>2, <2>3, <2>4, OthersWait
<1> QED
  BY <1>4, <1>5, <1>6 DEF FlowInv
(***************************************************************************)
(* The end of a coroutine.                                                 *)
(***************************************************************************)
\* A coroutine ends, and the one that awaits it goes on.
LEMMA ToAwaiterFlow ==
  ASSUME IInv, NEW f \in Blocks, Runs(f), NEW promise, IsPromise(f, promise), ToAwaiter(f, promise)
  PROVE  FlowInv'
<1> DEFINE g == frame[f].continuation
           D == Under(frame, {f})
<1>1. /\ GoneBelow(D) /\ Doom(D, f)
      /\ g \in Blocks /\ g # f /\ g \notin D /\ f \notin D
      /\ frame[f].owner = g /\ frame[g].awaits = f /\ frame[g].state = "suspended"
      /\ \A c \in Blocks : c # f /\ c # g => frame'[c] = IF c \in D THEN NoFrame ELSE frame[c]
      /\ frame'[f].state = "done" /\ frame'[f].owner = g
      /\ frame'[f].continuation = g /\ frame'[f].awaits = frame[f].awaits
      /\ frame'[g].state = "running" /\ frame'[g].owner = frame[g].owner
      /\ frame'[g].continuation = frame[g].continuation /\ frame'[g].awaits = None
      /\ control' = g
      /\ UNCHANGED <<thread, current, process, root, resumePoint>>
  BY ToAwaiterSteps
<1> HIDE DEF g, D
<1>2. /\ control = f /\ f # None /\ f \notin Processes /\ current \in Processes /\ current # None
      /\ f \in Under(frame, {current}) /\ process[current] = "alive"
      /\ root[current] \in Blocks /\ root[current] # None /\ frame[root[current]].owner = current
      /\ frame[root[current]].state \in {"running", "suspended"}
      /\ frame[f].awaits = None /\ frame[f].state = "running"
      /\ \A c \in Blocks : c # f => frame[c].state # "running"
  BY Running
<1>3. /\ D \subseteq Blocks /\ None \notin D
      /\ \A c \in Blocks : frame[c].owner \in D => c \in D
      /\ \A c \in D : Live(c) /\ frame[c].owner \in D \cup {f}
      /\ root[current] \notin D
  BY <1>1, <1>2, DoomIs
<1>4. \A c \in Blocks : frame[c].owner = f => c \in D
  BY UnderHas DEF D
<1>5. g \in Under(frame, {current}) /\ g # None /\ g \notin Processes
  <2>1. g \in {current} \cup Under(frame, {current})
    BY <1>1, <1>2, UnderFrom
  <2> QED
    BY <1>1, <1>2, <2>1, Names
<1>6. D \subseteq Under(frame, {current})
  BY <1>2, UnderTrans DEF D
<1>7. /\ \A c \in Blocks : c \notin D /\ c # f /\ c # g => frame'[c] = frame[c]
      /\ \A c \in D : frame'[c].state = "none" /\ frame'[c].continuation = None /\ frame'[c].awaits = None
  BY <1>1, <1>3 DEF NoFrame
<1>8. CallInv'
  <2>1. \A c \in Blocks : frame'[c].continuation # None => frame'[c].continuation = frame'[c].owner
    BY <1>1, <1>7, Flow
  <2>2. ASSUME NEW c \in Blocks, frame'[c].state \in {"running", "suspended"}, frame'[c].owner \in Blocks
        PROVE  frame'[c].continuation = frame'[c].owner /\ frame'[frame'[c].owner].awaits = c
    <3>1. c \notin D /\ c # f
      BY <1>1, <1>7, <2>2
    <3>2. Active(c) /\ frame'[c].owner = frame[c].owner /\ frame'[c].continuation = frame[c].continuation
      BY <1>1, <1>7, <2>2, <3>1 DEF Active
    <3>3. frame[c].continuation = frame[c].owner /\ frame[frame[c].owner].awaits = c
      BY <2>2, <3>2, Flow
    <3>4. frame[c].owner \notin D /\ frame[c].owner # f /\ frame[c].owner # g
      BY <1>1, <1>3, <1>4, <3>1, <3>3
    <3> QED
      BY <1>7, <2>2, <3>2, <3>3, <3>4
  <2>3. ASSUME NEW c \in Blocks, frame'[c].awaits # None
        PROVE  /\ frame'[c].state = "suspended" /\ frame'[frame'[c].awaits].state \in {"running", "suspended"}
               /\ frame'[frame'[c].awaits].owner = c
    <3>1. c \notin D /\ c # f /\ c # g /\ frame'[c] = frame[c]
      BY <1>1, <1>2, <1>7, <2>3
    <3>2. /\ frame[c].state = "suspended" /\ Active(frame[c].awaits) /\ frame[frame[c].awaits].owner = c
          /\ frame[c].awaits \in Blocks
      BY <2>3, <3>1, Flow
    <3>3. frame[c].awaits \notin D /\ frame[c].awaits # f
      BY <1>1, <1>3, <3>1, <3>2
    <3>4. frame'[frame[c].awaits].state \in {"running", "suspended"} /\ frame'[frame[c].awaits].owner = c
      BY <1>1, <1>7, <3>2, <3>3 DEF Active
    <3> QED
      BY <3>1, <3>2, <3>4
  <2>4. \A c \in Blocks : frame'[c].state = "start" =>
            /\ frame'[c].continuation = None
            /\ frame'[c].owner \in Processes => /\ frame'[c].owner \in CoroProcesses
                                                /\ resumePoint'[frame'[c].owner] = c
    BY <1>1, <1>7, Flow
  <2> QED
    BY <2>1, <2>2, <2>3, <2>4, CallNext
<1>9. ControlInv'
  <2>1. (\A c \in Blocks : frame[c].state = "running" <=> control = c)'
    BY <1>1, <1>2, <1>7
  <2>2. Active(root[current])'
    <3>1. root[current] # f
      BY <1>1, <1>2, Names
    <3>2. frame'[root[current]].state \in {"running", "suspended"}
      BY <1>1, <1>2, <1>3, <1>7, <3>1
    <3> QED
      BY <1>1, <3>2 DEF Active
  <2>3. (control \in Blocks => control \in Under(frame, {current}) /\ root[current] # None /\ Active(root[current]))'
    BY <1>1, <1>2, <1>5, <2>2 DEF GoneBelow
  <2> QED
    BY <1>1, <1>2, <1>5, <2>1, <2>3, ControlNext
<1>10. WaitInv'
  <2>1. \A q \in Processes : q # current => \A c \in Under(frame, {q}) :
            /\ frame'[c].state = frame[c].state
            /\ frame'[c].awaits = frame[c].awaits
    <3>1. ASSUME NEW q \in Processes, q # current, NEW c \in Under(frame, {q})
          PROVE  c \notin D /\ c # f /\ c # g /\ c \in Blocks
      <4>1. Under(frame, {q}) \cap Under(frame, {current}) = {}
        BY <1>2, <3>1, Apart
      <4> QED
        BY <1>2, <1>5, <1>6, <4>1, UnderBlocks
    <3> QED
      BY <1>7, <3>1
  <2>2. root'[current] # None /\ frame'[root'[current]].state \in {"start", "running", "suspended"}
    <3>1. root[current] # f
      BY <1>1, <1>2, Names
    <3> QED
      BY <1>1, <1>2, <1>3, <1>7, <3>1
  <2>3. ~Waits(current)'
    BY <1>1 DEF Waits
  <2>4. \A q \in Processes :
           q # current => /\ process'[q] = process[q] /\ resumePoint'[q] = resumePoint[q]
                          /\ root'[q] = root[q]
                          /\ Under(frame, {q}) \subseteq Under(frame', {q})
    BY <1>1, <1>2, <1>6, OthersKeep
  <2> QED
    BY <1>1, <1>2, <2>1, <2>2, <2>3, <2>4, OthersWait
<1> QED
  BY <1>8, <1>9, <1>10 DEF FlowInv

\* A coroutine ends that nobody awaits.
LEMMA EndsAloneFlow ==
  ASSUME IInv, NEW f \in Blocks, Runs(f), NEW D, D = Under(frame, {f}), EndsAlone(f, D),
         root' = root, resumePoint' = resumePoint,
         \A q \in Processes : q # current => process'[q] = process[q],
         \/ /\ current \in CoroProcesses /\ process'[current] = "ended"
            /\ control' = None /\ current' = None /\ ~raised'
         \/ /\ current \in PyTasks /\ control' = current /\ process' = process /\ current' = current
  PROVE  FlowInv'
<1>1. /\ GoneBelow(D) /\ Doom(D, f) /\ f \notin D
      /\ frame[f].owner = current /\ root[current] = f
      /\ \A c \in Blocks : c # f => frame'[c] = IF c \in D THEN NoFrame ELSE frame[c]
      /\ frame'[f].state = "done" /\ frame'[f].owner = current
      /\ frame'[f].continuation = None /\ frame'[f].awaits = frame[f].awaits
  BY DEF EndsAlone
<1>2. /\ control = f /\ f # None /\ f \notin Processes /\ current \in Processes /\ current # None
      /\ f \in Under(frame, {current}) /\ process[current] = "alive"
      /\ frame[f].awaits = None /\ frame[f].state = "running"
      /\ \A c \in Blocks : c # f => frame[c].state # "running"
  BY Running
<1>3. /\ D \subseteq Blocks /\ None \notin D
      /\ \A c \in Blocks : frame[c].owner \in D => c \in D
      /\ \A c \in D : Live(c) /\ frame[c].owner \in D \cup {f}
  BY <1>1, <1>2, DoomIs
<1>4. \A c \in Blocks : frame[c].owner = f => c \in D
  BY UnderHas
<1>6. D \subseteq Under(frame, {current})
  BY <1>2, UnderTrans
<1>7. /\ \A c \in Blocks : c \notin D /\ c # f => frame'[c] = frame[c]
      /\ \A c \in D : frame'[c].state = "none" /\ frame'[c].continuation = None /\ frame'[c].awaits = None
  <2>1. ASSUME NEW c \in D
        PROVE  frame'[c] = NoFrame
    BY <1>1, <1>3
  <2>2. NoFrame.state = "none" /\ NoFrame.continuation = None /\ NoFrame.awaits = None
    BY DEF NoFrame
  <2> QED
    BY <1>1, <2>1, <2>2
<1>8. CallInv'
  <2>1. \A c \in Blocks : frame'[c].continuation # None => frame'[c].continuation = frame'[c].owner
    BY <1>1, <1>7, Flow
  <2>2. ASSUME NEW c \in Blocks, frame'[c].state \in {"running", "suspended"}, frame'[c].owner \in Blocks
        PROVE  frame'[c].continuation = frame'[c].owner /\ frame'[frame'[c].owner].awaits = c
    <3>1. c \notin D /\ c # f /\ frame'[c] = frame[c]
      BY <1>1, <1>7, <2>2
    <3>3. frame[c].continuation = frame[c].owner /\ frame[frame[c].owner].awaits = c
      BY <2>2, <3>1, Flow DEF Active
    <3>4. frame[c].owner \notin D /\ frame[c].owner # f
      BY <1>1, <1>3, <1>4, <3>1
    <3> QED
      BY <1>7, <2>2, <3>1, <3>3, <3>4
  <2>3. ASSUME NEW c \in Blocks, frame'[c].awaits # None
        PROVE  /\ frame'[c].state = "suspended" /\ frame'[frame'[c].awaits].state \in {"running", "suspended"}
               /\ frame'[frame'[c].awaits].owner = c
    <3>1. c \notin D /\ c # f /\ frame'[c] = frame[c]
      BY <1>1, <1>2, <1>7, <2>3
    <3>2. /\ frame[c].state = "suspended" /\ Active(frame[c].awaits) /\ frame[frame[c].awaits].owner = c
          /\ frame[c].awaits \in Blocks
      BY <2>3, <3>1, Flow
    <3>3. frame[c].awaits \notin D /\ frame[c].awaits # f
      <4>1. frame[c].awaits = f => c = current
        BY <1>1, <3>2
      <4>2. c # current
        BY <1>2, Names
      <4> QED
        BY <1>3, <3>1, <3>2, <4>1, <4>2
    <3>4. frame'[frame[c].awaits].state \in {"running", "suspended"} /\ frame'[frame[c].awaits].owner = c
      BY <1>7, <3>2, <3>3 DEF Active
    <3> QED
      BY <3>1, <3>2, <3>4
  <2>4. \A c \in Blocks : frame'[c].state = "start" =>
            /\ frame'[c].continuation = None
            /\ frame'[c].owner \in Processes => /\ frame'[c].owner \in CoroProcesses
                                                /\ resumePoint'[frame'[c].owner] = c
    BY <1>1, <1>7, Flow
  <2> QED
    BY <2>1, <2>2, <2>3, <2>4, CallNext
<1>9. ControlInv'
  <2>1. (\A c \in Blocks : frame[c].state = "running" <=> control = c)'
    BY <1>1, <1>2, <1>7, Names
  <2>2. CASE current \in CoroProcesses /\ control' = None /\ current' = None /\ ~raised'
    BY <2>1, <2>2, Names, ControlNext
  <2>3. CASE current \in PyTasks /\ control' = current /\ process' = process /\ current' = current
    <3>1. ~IsAwaiting(current)'
      BY <1>1, <2>3 DEF IsAwaiting
    <3>2. (control \in Processes => control = current /\ control \in PyTasks /\ ~IsAwaiting(control))'
      BY <2>3, <3>1
    <3> QED
      BY <1>2, <2>1, <2>3, <3>2, Names, ControlNext
  <2> QED
    BY <2>2, <2>3
<1>10. WaitInv'
  <2>1. \A q \in Processes : q # current => \A c \in Under(frame, {q}) :
            /\ frame'[c].state = frame[c].state
            /\ frame'[c].awaits = frame[c].awaits
    <3>1. ASSUME NEW q \in Processes, q # current, NEW c \in Under(frame, {q})
          PROVE  c \notin D /\ c # f /\ c \in Blocks
      <4>1. Under(frame, {q}) \cap Under(frame, {current}) = {}
        BY <1>2, <3>1, Apart
      <4> QED
        BY <1>2, <1>6, <4>1, UnderBlocks
    <3> QED
      BY <1>7, <3>1
  <2>2. ~(current \in CoroProcesses /\ process'[current] = "alive")
    BY Names
  <2> DEFINE p == current
  <2>3. ASSUME NEW q \in Processes, q = current
        PROVE  ~Waits(q)'
    <3>1. CASE current \in CoroProcesses /\ process'[current] = "ended"
      BY <2>3, <3>1 DEF Waits
    <3>2. CASE current' = current
      BY <2>3, <3>2 DEF Waits
    <3> QED
      BY <3>1, <3>2
  <2>4. \A q \in Processes :
           q # current => /\ process'[q] = process[q] /\ resumePoint'[q] = resumePoint[q]
                          /\ root'[q] = root[q]
                          /\ Under(frame, {q}) \subseteq Under(frame', {q})
    BY <1>1, <1>2, <1>6, OthersKeep
  <2>5. PICK q \in Processes : q = current
    BY <1>2
  <2>6. ~Waits(q)'
    BY <2>3, <2>5
  <2> QED
    BY <2>1, <2>2, <2>4, <2>5, <2>6, OthersWait
<1> QED
  BY <1>8, <1>9, <1>10 DEF FlowInv

(***************************************************************************)
(* The invariant.                                                          *)
(***************************************************************************)
\* A context without processes has the invariant.
LEMMA InitInvariant == Init => IInv
<1> SUFFICES ASSUME Init PROVE IInv
  OBVIOUS
<1> USE DEF Init
<1>0. /\ \A b \in Blocks : frame[b] = NoFrame
      /\ \A b \in Blocks : frame[b].state = "none" /\ frame[b].owner = None /\ frame[b].continuation = None
                           /\ frame[b].awaits = None
  BY DEF NoFrame
<1>1. TypeOK
  <2>1. <<>> \in Seq(Blocks) /\ 0 \in Nat
    OBVIOUS
  <2>2. pool \in [Threads -> [Classes -> Seq(Blocks)]]
    BY <2>1
  <2>3. count \in [Threads -> [Classes -> Nat]] /\ bytes \in [Blocks -> Nat]
    BY <2>1
  <2>4. frame \in [Blocks -> FrameRecords]
    BY FrameFields
  <2> QED
    BY <2>2, <2>3, <2>4 DEF TypeOK
<1>2. PoolInv
  <2>1. Len(<<>>) = 0 /\ Distinct(<<>>) /\ Range(<<>>) = {} /\ 0 <= MaxFree
    BY Names DEF Distinct, Range
  <2>2. \A t \in Threads, c \in Classes : Kept(t, c) = {}
    BY <2>1 DEF Kept
  <2>3. \A t \in Threads, c \in Classes : pool[t][c] = <<>> /\ count[t][c] = 0
    OBVIOUS
  <2>4. \A b \in Blocks : ~Live(b) /\ ~(bytes[b] > 0)
    BY <1>0 DEF Live
  <2>5. ASSUME NEW t \in Threads, NEW c \in Classes
        PROVE  /\ count[t][c] = Len(pool[t][c]) /\ count[t][c] <= MaxFree
               /\ Distinct(pool[t][c])
               /\ c = 0 => pool[t][c] = <<>>
               /\ \A b \in Kept(t, c) : bytes[b] = c * Granularity /\ ~Live(b)
    BY <2>1, <2>2, <2>3
  <2> QED
    BY <2>2, <2>4, <2>5 DEF PoolInv
<1>3. OwnerInv
  <2>1. Added = {}
    BY DEF Added
  <2>2. Under(frame, Added) \subseteq {}
    BY <1>0, <2>1, UnderLeast, Names
  <2>3. \A b \in Blocks : Live(b) <=> b \in Below(Added)
    BY <1>0, <2>2, BelowIsUnder DEF Live
  <2> QED
    BY <1>0, <2>3, Names DEF OwnerInv
<1>4. CallInv
  BY <1>0 DEF CallInv, Active
<1>5. ControlInv
  BY <1>0, Names DEF ControlInv
<1>6. WaitInv
  BY Names DEF WaitInv, Waits
<1> QED
  BY <1>1, <1>2, <1>3, <1>4, <1>5, <1>6 DEF IInv

\* The two halves of the invariant.
LEMMA Combine == MemoryInv' /\ FlowInv' => IInv'
BY DEF MemoryInv, FlowInv, IInv

\* A C++ process, and the task that a Python process awaits, are resumed where they wait.
LEMMA ResumeCoroIs ==
  ASSUME IInv, NEW p \in CoroProcesses, ResumeCoro(p)
  PROVE  /\ p \in Processes /\ Waits(p) /\ control = None
         /\ control' = resumePoint[p] /\ current' = p /\ frame' = ResumeFrame(frame, resumePoint[p])
         /\ UNCHANGED <<bytes, pool, count, thread, process, root, resumePoint, raised>> /\ received' = None
<1>1. p \in Processes /\ control = None /\ current = None
  BY Parts, Names DEF ResumeCoro, ControlInv
<1> QED
  BY <1>1, Names DEF ResumeCoro, Waits

\* A Python process whose await has not ended.
LEMMA ResumePyIs ==
  ASSUME IInv, NEW p \in PyTasks, ResumePy(p), IsAwaiting(p)
  PROVE  /\ p \in Processes /\ Waits(p) /\ control = None
         /\ control' = resumePoint[p] /\ current' = p /\ frame' = ResumeFrame(frame, resumePoint[p])
         /\ UNCHANGED <<bytes, pool, count, thread, process, root, resumePoint, raised>> /\ received' = None
<1>1. p \in Processes /\ control = None /\ current = None
  BY Parts, Names DEF ResumePy, ControlInv
<1> QED
  BY <1>1, Names DEF ResumePy, Waits

\* The end of a coroutine, whoever goes on.
LEMMA EndInvariant ==
  ASSUME IInv, NEW f \in Blocks, Return(f) \/ Unwind(f)
  PROVE  IInv'
<1>1. Runs(f)
  BY DEF Return, Unwind
<1>2. PICK promise \in {Returned(frame[f]), Unhandled(frame[f])} : End(f, promise)
  BY DEF Return, Unwind
<1>3. IsPromise(f, promise)
  BY DEF IsPromise
<1>4. CASE ToAwaiter(f, promise)
  <2>1. MemoryInv'
    BY <1>1, <1>3, <1>4, ToAwaiterSteps
  <2>2. FlowInv'
    BY <1>1, <1>3, <1>4, ToAwaiterFlow
  <2> QED
    BY <2>1, <2>2, Combine
<1>5. CASE ToProcess(f, promise)
  <2>1. /\ EndsAlone(f, Under(frame, {f}))
        /\ current \in CoroProcesses /\ process' = [process EXCEPT ![current] = "ended"]
        /\ control' = None /\ current' = None /\ raised' = FALSE /\ root' = root /\ resumePoint' = resumePoint
    BY <1>1, <1>3, <1>5, ToProcessSteps
  <2>2. process'[current] = "ended" /\ \A q \in Processes : q # current => process'[q] = process[q]
    BY <2>1, Parts, Names DEF TypeOK
  <2>3. FlowInv'
    BY <1>1, <2>1, <2>2, EndsAloneFlow
  <2> QED
    BY <2>1, <2>3, Combine DEF EndsAlone
<1>6. CASE ToPython(f, promise)
  <2>1. /\ EndsAlone(f, Under(frame, {f}))
        /\ current \in PyTasks /\ control' = current
        /\ UNCHANGED <<current, process, root, resumePoint, raised>>
    BY <1>1, <1>3, <1>6, ToPythonSteps
  <2>2. FlowInv'
    BY <1>1, <2>1, EndsAloneFlow
  <2> QED
    BY <2>1, <2>2, Combine DEF EndsAlone
<1> QED
  BY <1>2, <1>4, <1>5, <1>6 DEF End

\* Every step keeps the invariant.
LEMMA StepInvariant == IInv /\ [Next]_vars => IInv'
<1> SUFFICES ASSUME IInv, [Next]_vars PROVE IInv'
  OBVIOUS
<1>1. CASE \/ \E t \in Threads : HandOver(t)
           \/ \E p \in PyTasks : PyWait(p) \/ PyCatch(p) \/ PyEnd(p) \/ (ResumePy(p) /\ ~IsAwaiting(p))
           \/ \E f \in Blocks : Catch(f) \/ Throw(f)
  BY <1>1, QuietSteps, QuietFlow, Combine
<1>2. ASSUME NEW t \in Threads, EndThread(t)
      PROVE  IInv'
  BY <1>2, EndThreadSteps, QuietFlow, Combine
<1>3. ASSUME NEW p \in PyTasks, AddPyTask(p)
      PROVE  IInv'
  BY <1>3, AddPyTaskSteps, QuietFlow, Combine
<1>4. ASSUME NEW p \in CoroProcesses, NEW b \in Blocks, NEW size \in Sizes, AddCoroProcess(p, b, size)
      PROVE  IInv'
  BY <1>4, AddCoroProcessSteps, AddCoroProcessFlow, Combine
<1>5. ASSUME NEW p \in CoroProcesses, ResumeCoro(p)
      PROVE  IInv'
  <2>1. /\ p \in Processes /\ Waits(p) /\ control = None
        /\ control' = resumePoint[p] /\ current' = p /\ frame' = ResumeFrame(frame, resumePoint[p])
        /\ UNCHANGED <<bytes, pool, count, thread, process, root, resumePoint, raised>> /\ received' = None
    BY <1>5, ResumeCoroIs
  <2>2. MemoryInv'
    BY <2>1, ResumeSteps
  <2>3. FlowInv'
    BY <2>1, ResumeFlow
  <2> QED
    BY <2>2, <2>3, Combine
<1>6. ASSUME NEW p \in PyTasks, ResumePy(p), IsAwaiting(p)
      PROVE  IInv'
  <2>1. /\ p \in Processes /\ Waits(p) /\ control = None
        /\ control' = resumePoint[p] /\ current' = p /\ frame' = ResumeFrame(frame, resumePoint[p])
        /\ UNCHANGED <<bytes, pool, count, thread, process, root, resumePoint, raised>> /\ received' = None
    BY <1>6, ResumePyIs
  <2>2. MemoryInv'
    BY <2>1, ResumeSteps
  <2>3. FlowInv'
    BY <2>1, ResumeFlow
  <2> QED
    BY <2>2, <2>3, Combine
<1>7. ASSUME NEW p \in PyTasks, NEW b \in Blocks, NEW size \in Sizes, PyAwait(p, b, size)
      PROVE  IInv'
  BY <1>7, PyAwaitSteps, PyAwaitFlow, Combine
<1>8. ASSUME NEW p \in PyTasks, PyDrop(p)
      PROVE  IInv'
  BY <1>8, PyDropSteps, PyDropFlow, Combine
<1>9. ASSUME NEW p \in Processes, RemoveProcess(p)
      PROVE  IInv'
  BY <1>9, RemoveProcessSteps, RemoveProcessFlow, Combine
<1>10. ASSUME NEW f \in Blocks, NEW b \in Blocks, Await(f, b)
       PROVE  IInv'
  BY <1>10, AwaitSteps, AwaitFlow, Combine
<1>11. ASSUME NEW f \in Blocks, NEW b \in Blocks, AwaitAgain(f, b)
       PROVE  IInv'
  BY <1>11, AwaitAgainSteps, AwaitAgainFlow, Combine
<1>12. ASSUME NEW f \in Blocks, NEW b \in Blocks, Leave(f, b)
       PROVE  IInv'
  BY <1>12, LeaveSteps, LeaveFlow, Combine
<1>13. ASSUME NEW f \in Blocks, NEW b \in Blocks, NEW size \in Sizes, Create(f, b, size)
       PROVE  IInv'
  BY <1>13, CreateSteps, CreateFlow, Combine
<1>14. ASSUME NEW f \in Blocks, Wait(f)
       PROVE  IInv'
  BY <1>14, WaitSteps, WaitFlow, Combine
<1>15. ASSUME NEW f \in Blocks, Return(f) \/ Unwind(f)
       PROVE  IInv'
  BY <1>15, EndInvariant
<1>16. CASE UNCHANGED vars
  <2>1. \A b : Live(b)' <=> Live(b)
    BY <1>16 DEF vars, Live
  <2>2. TypeOK'
    BY <1>16, Parts DEF vars, TypeOK
  <2>3. PoolInv'
    BY <1>16, <2>1, PoolSame, Parts DEF vars, Live
  <2>4. OwnerInv'
    BY <1>16, <2>1, OwnerSame, Parts DEF vars, TypeOK, Live, Added
  <2>5. CallInv'
    BY <1>16, Parts DEF vars, CallInv, Active
  <2>6. ControlInv' /\ WaitInv'
    BY <1>16, Parts DEF vars, ControlInv, WaitInv, Waits, IsAwaiting, Active, Below
  <2> QED
    BY <2>2, <2>3, <2>4, <2>5, <2>6 DEF IInv
<1> QED
  BY <1>1, <1>2, <1>3, <1>4, <1>5, <1>6, <1>7, <1>8, <1>9, <1>10, <1>11, <1>12, <1>13, <1>14, <1>15, <1>16 DEF Next

\* In every state of every run the frames, the pools and the processes agree with each other.
THEOREM TasksCorrect == Spec => []IInv
BY InitInvariant, StepInvariant, PTL DEF Spec

\* Every variable keeps its type; in particular the count of a free list, which is unsigned in the
\* code and decremented with each frame that allocate() takes from the list, never goes below 0.
THEOREM TasksTypeCorrect == Spec => []TypeOK
<1>1. IInv => TypeOK
  BY DEF IInv
<1> QED
  BY <1>1, TasksCorrect, PTL

\* A sequence without repetitions has as many elements as places.
LEMMA DistinctLength ==
  ASSUME NEW S, NEW s \in Seq(S), Distinct(s)
  PROVE  Cardinality(Range(s)) = Len(s)
<1>1. Len(s) \in Nat /\ DOMAIN s = 1..Len(s) /\ s \in [1..Len(s) -> Range(s)]
  <2>1. Len(s) \in Nat /\ DOMAIN s = 1..Len(s) /\ s \in [1..Len(s) -> S]
    BY LenProperties
  <2> QED
    BY <2>1 DEF Range
<1>2. s \in Bijection(1..Len(s), Range(s))
  <2>1. s \in Injection(1..Len(s), Range(s))
    BY <1>1 DEF Distinct, Injection, IsInjective
  <2>2. \A r \in Range(s) : \E i \in 1..Len(s) : s[i] = r
    BY <1>1 DEF Range
  <2>3. s \in Surjection(1..Len(s), Range(s))
    BY <1>1, <2>2 DEF Surjection
  <2> QED
    BY <2>1, <2>3 DEF Bijection
<1>3. ExistsBijection(1..Len(s), Range(s))
  BY <1>2 DEF ExistsBijection
<1> QED
  BY <1>1, <1>3, FS_CountingElements

\* The invariant says that the pools are sound.
LEMMA PoolHolds == IInv => PoolIsSound
<1> SUFFICES ASSUME IInv PROVE PoolIsSound
  OBVIOUS
<1>0. TypeOK /\ PoolInv /\ OwnerInv
  BY Parts
<1>1. ASSUME NEW t \in Threads, NEW c \in Classes
      PROVE  /\ count[t][c] = Len(pool[t][c]) /\ count[t][c] <= MaxFree
             /\ Cardinality(Kept(t, c)) = Len(pool[t][c])
             /\ \A b \in Kept(t, c) : bytes[b] = c * Granularity /\ frame[b] = NoFrame
  <2>1. pool[t][c] \in Seq(Blocks) /\ Distinct(pool[t][c])
    BY <1>0 DEF TypeOK, PoolInv
  <2>2. Cardinality(Kept(t, c)) = Len(pool[t][c])
    BY <2>1, DistinctLength DEF Kept
  <2>3. ASSUME NEW b \in Kept(t, c)
        PROVE  bytes[b] = c * Granularity /\ frame[b] = NoFrame
    <3>1. b \in Blocks /\ bytes[b] = c * Granularity /\ ~Live(b)
      BY <1>0, KeptBlocks DEF PoolInv
    <3> QED
      BY <1>0, <3>1 DEF OwnerInv
  <2> QED
    BY <1>0, <2>2, <2>3 DEF PoolInv
<1>2. \A s, t \in Threads, c, d \in Classes : <<s, c>> # <<t, d>> => Kept(s, c) \cap Kept(t, d) = {}
  BY <1>0 DEF PoolInv
<1> DEFINE kept == UNION {Kept(t, c) : t \in Threads, c \in Classes}
           owned == Below({p \in Processes : process[p] # "none"})
<1>3. ASSUME NEW b \in Blocks
      PROVE  /\ frame[b].size <= bytes[b]
             /\ frame[b].state # "none" <=> b \in owned
             /\ bytes[b] > 0 <=> b \in owned \cup kept
  <2>1. Live(b) <=> b \in owned
    BY <1>0 DEF OwnerInv, Added
  <2>2. b \in kept <=> \E t \in Threads, c \in Classes : b \in Kept(t, c)
    OBVIOUS
  <2> HIDE DEF kept, owned
  <2>3. CASE Live(b)
    <3>1. frame[b].size \in Sizes /\ bytes[b] = Rounded(frame[b].size)
      BY <1>0, <2>3 DEF PoolInv
    <3>2. Rounded(frame[b].size) >= frame[b].size /\ Rounded(frame[b].size) > 0
      BY <3>1, ClassOf
    <3> QED
      BY <2>1, <2>3, <3>1, <3>2, ClassOf, Names DEF Live
  <2>4. CASE ~Live(b)
    <3>1. frame[b].size = 0 /\ bytes[b] \in Nat /\ b \notin owned /\ frame[b].state = "none"
      BY <1>0, <2>1, <2>4, Owners DEF TypeOK, Live
    <3>2. bytes[b] > 0 => b \in kept
      BY <1>0, <2>2, <2>4 DEF PoolInv
    <3>3. ASSUME NEW t \in Threads, NEW c \in Classes, b \in Kept(t, c)
          PROVE  bytes[b] > 0
      <4>1. bytes[b] = c * Granularity /\ c \in Nat /\ Granularity \in Nat \ {0}
        BY <1>0, <3>3, TasksAssumption DEF PoolInv, Classes
      <4>2. c # 0
        <5> SUFFICES ASSUME c = 0 PROVE FALSE
          OBVIOUS
        <5>1. pool[t][c] = <<>>
          BY <1>0 DEF PoolInv
        <5> QED
          BY <3>3, <5>1 DEF Kept, Range
      <4>3. c * Granularity > 0
        BY <4>1, <4>2
      <4> QED
        BY <4>1, <4>3
    <3> QED
      BY <2>2, <3>1, <3>2, <3>3
  <2> QED
    BY <2>3, <2>4
<1> QED
  BY <1>1, <1>2, <1>3 DEF PoolIsSound

(***************************************************************************)
(* operator new and operator delete of a promise (coro.cpp): no block is   *)
(* in use twice, listed twice, listed under another size, or lost, however *)
(* coroutines end and in whatever order their variables are destroyed.     *)
(***************************************************************************)
THEOREM PoolsAreSound == Spec => []PoolIsSound
BY TasksCorrect, PoolHolds, PTL
(***************************************************************************)
(* The calls of a process.                                                 *)
(***************************************************************************)
\* Frames continue frames.
LEMMA FramesContinue == IInv => Continues(frame)
BY Parts, FrameFields DEF Continues, TypeOK

\* No call goes through what is below it.
LEMMA UpAvoids ==
  ASSUME IInv, NEW x \in Blocks, NEW T, x \notin T, \A c \in Blocks : frame[c].owner \in T => c \in T
  PROVE  Up(frame, x) \cap T = {}
<1> DEFINE S == Blocks \ T
<1>1. S \in SUBSET Blocks /\ x \in S
  OBVIOUS
<1>2. ASSUME NEW d \in S, frame[d].continuation # None
      PROVE  frame[d].continuation \in S
  <2>1. frame[d].continuation = frame[d].owner /\ frame[d].continuation \in Blocks
    BY <1>2, Flow, FramesContinue DEF Continues
  <2> QED
    BY <2>1
<1> HIDE DEF S
<1>3. Up(frame, x) \subseteq S
  BY <1>1, <1>2, UpLeast
<1> QED
  BY <1>3 DEF S

\* The calls of a process are below it.
LEMMA UpUnder ==
  ASSUME IInv, NEW p \in Processes, NEW x \in Under(frame, {p})
  PROVE  Up(frame, x) \subseteq Under(frame, {p})
<1> DEFINE S == Under(frame, {p})
<1>1. S \in SUBSET Blocks /\ x \in S
  BY UnderBlocks
<1>2. ASSUME NEW d \in S, frame[d].continuation # None
      PROVE  frame[d].continuation \in S
  <2>1. frame[d].continuation = frame[d].owner /\ frame[d].continuation \in Blocks
    BY <1>1, <1>2, Flow, FramesContinue DEF Continues
  <2>2. frame[d].owner \in {p} \cup S
    BY UnderFrom
  <2> QED
    BY <2>1, <2>2, Names
<1> HIDE DEF S
<1>3. Up(frame, x) \subseteq S
  BY <1>1, <1>2, UpLeast
<1> QED
  BY <1>3 DEF S

IsStack(s, p, b) ==
    /\ s \in Seq(Blocks) /\ Len(s) >= 1 /\ s[1] = root[p] /\ s[Len(s)] = b
    /\ \A i \in 1..Len(s) : s[i] \in Under(frame, {p})
    /\ \A i \in 1..Len(s) - 1 : frame[s[i]].state = "suspended"

\* The calls of a root are the root alone.
LEMMA ChainOfRoot ==
  ASSUME IInv, NEW p \in Processes, NEW b \in Blocks, frame[b].owner = p
  PROVE  Chain(frame, b) = <<b>> /\ IsStack(Chain(frame, b), p, b)
<1>1. frame[b].continuation = None
  <2>1. frame[b].continuation \in Blocks \cup {None}
    BY FramesContinue DEF Continues
  <2> QED
    BY <2>1, Flow, Names
<1>2. Chain(frame, b) = <<b>>
  BY <1>1, ChainRoot
<1>3. root[p] = b /\ b \in Under(frame, {p})
  BY UnderHas, Parts DEF OwnerInv
<1>4. <<b>> \in Seq(Blocks) /\ Len(<<b>>) = 1 /\ <<b>>[1] = b
  OBVIOUS
<1> QED
  BY <1>2, <1>3, <1>4 DEF IsStack

\* A coroutine that waits, or runs, is called by its owner.
LEMMA ChainOfCall ==
  ASSUME IInv, NEW g \in Blocks, NEW b \in Blocks, frame[b].owner = g, frame[b].continuation = g
  PROVE  Chain(frame, b) = Append(Chain(frame, g), b) /\ Depths(frame, g) \in Nat
<1> DEFINE T == {b} \cup Under(frame, {b})
<1>1. Live(b)
  BY Owners, Parts, Names
<1>2. g \notin T
  <2>1. g # b /\ b \notin Under(frame, {b})
    BY <1>1, Owners, Parts
  <2> QED
    BY <2>1, UnderHas
<1>3. \A c \in Blocks : frame[c].owner \in T => c \in T
  BY UnderHas
<1> HIDE DEF T
<1>4. Up(frame, g) \cap T = {}
  BY <1>2, <1>3, UpAvoids
<1>5. b \notin Up(frame, g)
  BY <1>4 DEF T
<1> QED
  BY <1>5, ChainPush, FramesContinue, Names

\* Whatever runs or waits below a process is called from its root.
LEMMA ChainIsStack ==
  ASSUME IInv, NEW p \in Processes
  PROVE  \A b \in Under(frame, {p}) : Active(b) => IsStack(Chain(frame, b), p, b)
<1> DEFINE S == {b \in Under(frame, {p}) : Active(b) => IsStack(Chain(frame, b), p, b)}
<1>1. S \in SUBSET Blocks
  BY UnderBlocks
<1>2. ASSUME NEW b \in Blocks, frame[b].owner \in {p} \cup S
      PROVE  b \in S
  <2>1. b \in Under(frame, {p})
    BY <1>2, UnderHas
  <2>2. CASE frame[b].owner = p
    BY <2>1, <2>2, ChainOfRoot
  <2>3. ASSUME frame[b].owner \in S, Active(b)
        PROVE  IsStack(Chain(frame, b), p, b)
    <3> DEFINE g == frame[b].owner
               s == Chain(frame, g)
    <3>1. g \in Blocks /\ g \in Under(frame, {p}) /\ (Active(g) => IsStack(s, p, g))
      BY <1>1, <2>3
    <3>2. frame[b].continuation = g /\ frame[g].awaits = b /\ frame[g].state = "suspended"
      BY <2>3, <3>1, Flow, Names
    <3>3. IsStack(s, p, g)
      BY <3>1, <3>2 DEF Active
    <3>4. Chain(frame, b) = Append(s, b)
      BY <3>1, <3>2, ChainOfCall
    <3> HIDE DEF g, s
    <3>5. s \in Seq(Blocks) /\ Len(s) \in Nat /\ Len(s) >= 1
      BY <3>3, LenProperties DEF IsStack
    <3> DEFINE n == Len(s)
               t == Append(s, b)
    <3>6. /\ t \in Seq(Blocks) /\ Len(t) = n + 1
          /\ \A i \in 1..n : t[i] = s[i]
          /\ t[n + 1] = b
      BY <3>5, AppendProperties
    <3>7. n \in Nat /\ n >= 1
      BY <3>5
    <3>8. s[1] = root[p] /\ s[n] = g /\ (\A i \in 1..n : s[i] \in Under(frame, {p}))
          /\ \A i \in 1..n - 1 : frame[s[i]].state = "suspended"
      BY <3>3 DEF IsStack
    <3> HIDE DEF n, t
    <3>9. \A i \in 1..Len(t) : t[i] \in Under(frame, {p})
      <4>1. \A i \in 1..n + 1 : i \in 1..n \/ i = n + 1
        BY <3>7
      <4> QED
        BY <2>1, <3>6, <3>8, <4>1
    <3>10. \A i \in 1..Len(t) - 1 : frame[t[i]].state = "suspended"
      <4>1. \A i \in 1..(n + 1) - 1 : i \in 1..n /\ (i \in 1..n - 1 \/ i = n)
        BY <3>7
      <4> QED
        BY <3>2, <3>6, <3>8, <4>1
    <3>11. t[1] = root[p] /\ t[Len(t)] = b /\ Len(t) >= 1
      <4>1. 1 \in 1..n
        BY <3>7
      <4> QED
        BY <3>6, <3>7, <3>8, <4>1
    <3>12. IsStack(t, p, b)
      BY <3>6, <3>9, <3>10, <3>11 DEF IsStack
    <3> QED
      BY <3>4, <3>12 DEF t
  <2> QED
    BY <1>2, <2>1, <2>2, <2>3
<1> HIDE DEF S
<1>3. Under(frame, {p}) \subseteq S
  BY <1>1, <1>2, UnderLeast
<1> QED
  BY <1>3 DEF S

\* What a process runs, or will be resumed at.
LEMMA InnermostIs ==
  ASSUME IInv, NEW p \in Processes
  PROVE  \/ Innermost(p) = None
         \/ LET x == Innermost(p)
            IN /\ x \in Blocks /\ x \in Under(frame, {p}) /\ x # None
               /\ frame[x].state \in IF current = p THEN {"running"} ELSE {"start", "suspended"}
               /\ Active(x) \/ frame[x].owner = p
               /\ IsStack(Chain(frame, x), p, x)
<1>1. CASE current = p /\ control \in Blocks
  <2>1. Innermost(p) = control
    BY <1>1 DEF Innermost
  <2>2. control \in Under(frame, {p}) /\ frame[control].state = "running"
    BY <1>1, FlowNow, Flow
  <2> QED
    BY <1>1, <2>1, <2>2, ChainIsStack, Names DEF Active
<1>2. CASE current # p /\ process[p] = "alive" /\ (p \in CoroProcesses \/ IsAwaiting(p))
  <2>1. Innermost(p) = resumePoint[p] /\ Waits(p)
    BY <1>2 DEF Innermost, Waits
  <2> DEFINE r == resumePoint[p]
  <2>2. /\ r \in Under(frame, {p}) /\ r \in Blocks
        /\ \/ frame[r].state = "suspended"
           \/ frame[r].state = "start" /\ r = root[p]
    BY <2>1, FlowNow
  <2>3. Active(r) \/ frame[r].owner = p
    <3>1. r = root[p] => frame[r].owner = p
      BY <2>2, Flow, Names
    <3> QED
      BY <2>2, <3>1 DEF Active
  <2>4. IsStack(Chain(frame, r), p, r)
    BY <2>2, <2>3, ChainIsStack, ChainOfRoot
  <2> QED
    BY <1>2, <2>1, <2>2, <2>3, <2>4, Names
<1>3. CASE ~(current = p /\ control \in Blocks)
           /\ ~(current # p /\ process[p] = "alive" /\ (p \in CoroProcesses \/ IsAwaiting(p)))
  BY <1>3 DEF Innermost
<1> QED
  BY <1>1, <1>2, <1>3

\* The calls of a process: frames below it that wait, but for the last one.
LEMMA CallsIs ==
  ASSUME IInv, NEW p \in Processes
  PROVE  /\ Calls(p) \in Seq(Blocks)
         /\ Innermost(p) = None => Calls(p) = <<>>
         /\ Innermost(p) # None => /\ Calls(p) = Chain(frame, Innermost(p))
                                   /\ IsStack(Calls(p), p, Innermost(p))
                                   /\ Calls(p) # <<>>
         /\ \A b \in Range(Calls(p)) :
               /\ b \in Under(frame, {p})
               /\ frame[b].state \in {"start", "running", "suspended"}
               /\ frame[b].state = "start" => b = root[p]
         /\ \A i \in 1..Len(Calls(p)) : Calls(p)[i] \in Range(Calls(p))
<1>1. CASE Innermost(p) = None
  <2>1. Calls(p) = <<>>
    BY <1>1 DEF Calls
  <2>2. Range(<<>>) = {} /\ <<>> \in Seq(Blocks) /\ 1..Len(<<>>) = {}
    BY DEF Range
  <2> QED
    BY <1>1, <2>1, <2>2
<1>2. CASE Innermost(p) # None
  <2> DEFINE x == Innermost(p)
             s == Chain(frame, x)
  <2>1. Calls(p) = s /\ s = Chain(frame, x)
    BY <1>2, CallersIsChain DEF Calls
  <2>2. /\ x \in Blocks /\ x \in Under(frame, {p})
        /\ frame[x].state \in IF current = p THEN {"running"} ELSE {"start", "suspended"}
        /\ Active(x) \/ frame[x].owner = p
        /\ IsStack(s, p, x)
    BY <1>2, InnermostIs
  <2> HIDE DEF x, s
  <2>3. s \in Seq(Blocks) /\ Len(s) >= 1 /\ Len(s) \in Nat /\ DOMAIN s = 1..Len(s)
    BY <2>2, LenProperties DEF IsStack
  <2>4. s # <<>>
    BY <2>3
  <2>5. ASSUME NEW i \in 1..Len(s)
        PROVE  /\ s[i] \in Under(frame, {p})
               /\ frame[s[i]].state \in {"start", "running", "suspended"}
               /\ frame[s[i]].state = "start" => s[i] = root[p]
    <3>1. s[i] \in Under(frame, {p}) /\ s[Len(s)] = x
      BY <2>2 DEF IsStack
    <3>2. CASE i = Len(s)
      <4>1. frame[x].state = "start" => frame[x].owner = p
        BY <2>2 DEF Active
      <4>2. frame[x].owner = p => x = root[p]
        BY <2>2, Parts DEF OwnerInv
      <4> QED
        BY <2>2, <3>1, <3>2, <4>1, <4>2
    <3>3. CASE i # Len(s)
      <4>0. \A n \in Nat : \A j \in 1..n : j # n => j \in 1..n - 1
        OBVIOUS
      <4>1. i \in 1..Len(s) - 1
        BY <2>3, <3>3, <4>0
      <4> QED
        BY <2>2, <3>1, <4>1 DEF IsStack
    <3> QED
      BY <3>2, <3>3
  <2>6. \A b \in Range(s) : \E i \in 1..Len(s) : b = s[i]
    BY <2>3 DEF Range
  <2>7. \A i \in 1..Len(s) : s[i] \in Range(s)
    BY <2>3 DEF Range
  <2>8. \A b \in Range(s) : /\ b \in Under(frame, {p})
                            /\ frame[b].state \in {"start", "running", "suspended"}
                            /\ frame[b].state = "start" => b = root[p]
    BY <2>5, <2>6
  <2>9. Innermost(p) = x
    BY DEF x
  <2> QED
    BY <1>2, <2>1, <2>2, <2>3, <2>4, <2>7, <2>8, <2>9
<1> QED
  BY <1>1, <1>2

\* The invariant says that a process is resumed in its own frames.
LEMMA ResumesHolds == IInv => ResumesItsOwn
<1> SUFFICES ASSUME IInv, NEW p \in Processes, Calls(p) # <<>>
             PROVE  /\ Calls(p)[1] = root[p]
                    /\ ToSet(Calls(p)) \subseteq Below({p})
                    /\ \A i \in 1..Len(Calls(p)) - 1 : frame[Calls(p)[i]].state = "suspended"
                    /\ frame[Last(Calls(p))].state \in IF current = p THEN {"running"} ELSE {"start", "suspended"}
  BY DEF ResumesItsOwn
<1> DEFINE x == Innermost(p)
           s == Calls(p)
<1>1. x # None
  BY CallsIs
<1>2. IsStack(s, p, x)
  BY <1>1, CallsIs
<1>3. frame[x].state \in IF current = p THEN {"running"} ELSE {"start", "suspended"}
  BY <1>1, InnermostIs
<1>4. s \in Seq(Blocks) /\ Len(s) \in Nat /\ DOMAIN s = 1..Len(s)
  BY CallsIs, LenProperties
<1>5. ToSet(s) \subseteq Below({p})
  <2>1. \A b \in ToSet(s) : \E i \in 1..Len(s) : b = s[i]
    BY <1>4 DEF ToSet
  <2>2. \A i \in 1..Len(s) : s[i] \in Under(frame, {p})
    BY <1>2 DEF IsStack
  <2> QED
    BY <2>1, <2>2, BelowIsUnder
<1>6. Last(s) = x
  BY <1>2 DEF Last, IsStack
<1> QED
  BY <1>2, <1>3, <1>5, <1>6 DEF IsStack

(***************************************************************************)
(* Whatever resume() or a final suspend point will resume is a frame of    *)
(* this process, called from its root, that waits: never a frame that was  *)
(* destroyed or one that took over its memory (coro.h:145-155).            *)
(***************************************************************************)
THEOREM ResumesItsOwnCorrect == Spec => []ResumesItsOwn
BY TasksCorrect, ResumesHolds, PTL

(***************************************************************************)
(* The calls of the processes before and after a step.                     *)
(***************************************************************************)
AllCalls == [p \in Processes |-> Calls(p)]

\* The calls of a process are the chain of its innermost frame.
LEMMA CallsNow ==
  ASSUME NEW p
  PROVE  Calls(p) = IF Innermost(p) = None THEN <<>> ELSE Chain(frame, Innermost(p))
BY CallersIsChain DEF Calls

\* So they are after a step.
LEMMA CallsNext ==
  ASSUME NEW p
  PROVE  Calls(p)' = IF Innermost(p)' = None THEN <<>> ELSE Chain(frame', Innermost(p)')
BY DEF Calls, Callers, Depth, AtDepth, Ancestors, Chain, Up, Depths, Levels, The

\* After a step too, frames continue frames.
LEMMA ContinueNext == IInv' => Continues(frame')
BY FrameFields DEF IInv, TypeOK, Continues

\* The calls of one process.
LEMMA AllCallsType ==
  ASSUME NEW p \in Processes
  PROVE  AllCalls[p] = Calls(p)
BY DEF AllCalls

\* A step that changes the calls of one process.
LEMMA CallsChange ==
  ASSUME NEW p \in Processes, NEW e, \A q \in Processes : q # p => Calls(q)' = Calls(q), Calls(p)' = e
  PROVE  AllCalls' = [AllCalls EXCEPT ![p] = e]
BY DEF AllCalls

\* A step that changes no calls.
LEMMA CallsStay ==
  ASSUME \A q \in Processes : Calls(q)' = Calls(q)
  PROVE  AllCalls' = AllCalls
BY DEF AllCalls

\* Two innermost frames, and the frames that they continue with.
LEMMA SameCalls ==
  ASSUME IInv, IInv', NEW p, NEW x \in Blocks \cup {None}, Innermost(p) = x, Innermost(p)' = x,
         x # None => \A c \in Up(frame, x) : frame'[c].continuation = frame[c].continuation
  PROVE  Calls(p)' = Calls(p)
<1>1. CASE x = None
  BY <1>1, CallsNow, CallsNext
<1>2. CASE x # None
  <2>1. Chain(frame', x) = Chain(frame, x)
    BY <1>2, ChainSame, FramesContinue, ContinueNext
  <2> QED
    BY <1>2, <2>1, CallsNow, CallsNext
<1> QED
  BY <1>1, <1>2

\* A step of one process leaves the calls of the others alone.
LEMMA OthersCalls ==
  ASSUME IInv, IInv', NEW p \in Processes,
         \A q \in Processes : q # p => /\ process'[q] = process[q] /\ resumePoint'[q] = resumePoint[q]
                                       /\ root'[q] = root[q] /\ q # current /\ q # current',
         \A q \in Processes : q # p => \A c \in Under(frame, {q}) :
            /\ frame'[c].state = frame[c].state
            /\ frame'[c].continuation = frame[c].continuation
  PROVE  \A q \in Processes : q # p => Calls(q)' = Calls(q)
<1> SUFFICES ASSUME NEW q \in Processes, q # p PROVE Calls(q)' = Calls(q)
  OBVIOUS
<1>1. IsAwaiting(q)' <=> IsAwaiting(q)
  <2>1. root[q] # None => root[q] \in Under(frame, {q})
    BY Flow
  <2> QED
    BY <2>1 DEF IsAwaiting
<1>2. Innermost(q)' = Innermost(q)
  BY <1>1 DEF Innermost
<1> DEFINE x == Innermost(q)
<1>3. x = None \/ (x \in Blocks /\ x \in Under(frame, {q}))
  BY InnermostIs
<1>4. Innermost(q) = x /\ Innermost(q)' = x
  BY <1>2
<1> HIDE DEF x
<1>5. ASSUME x # None
      PROVE  \A c \in Up(frame, x) : frame'[c].continuation = frame[c].continuation
  <2>1. Up(frame, x) \subseteq Under(frame, {q})
    BY <1>3, <1>5, UpUnder
  <2> QED
    BY <2>1
<1> QED
  BY <1>3, <1>4, <1>5, SameCalls

\* The frame that runs is the last of the calls of its process.
LEMMA RunningCalls ==
  ASSUME IInv, NEW f \in Blocks, Runs(f)
  PROVE  /\ current \in Processes /\ Innermost(current) = f
         /\ Calls(current) = Chain(frame, f)
<1>1. current \in Processes /\ control = f /\ f # None
  BY Running
<1>2. Innermost(current) = f
  BY <1>1 DEF Innermost
<1> QED
  BY <1>1, <1>2, CallsNow

\* A frame that has not started, but as a root, or that has ended, is in no calls.
LEMMA NotBusy ==
  ASSUME IInv, NEW b \in Blocks, \/ frame[b].state \in {"none", "done"}
                                 \/ frame[b].state = "start" /\ frame[b].owner \in Blocks
  PROVE  b \notin Stacks!Busy
<1> SUFFICES ASSUME NEW p \in Processes, b \in Range(Calls(p))
             PROVE  FALSE
  BY DEF Stacks!Busy, Stacks!Range, Range
<1>1. frame[b].state \in {"start", "running", "suspended"} /\ (frame[b].state = "start" => b = root[p])
  BY CallsIs
<1>2. b = root[p] => frame[b].owner = p
  <2>1. root[p] # None => frame[root[p]].owner = p
    BY Flow
  <2> QED
    BY <2>1, Names
<1> QED
  BY <1>1, <1>2, Names

\* What owns a frame is not called by it.
LEMMA CallerAvoids ==
  ASSUME IInv, NEW g \in Blocks, NEW b \in Blocks, frame[b].owner = g
  PROVE  Up(frame, g) \cap ({b} \cup Under(frame, {b})) = {}
<1> DEFINE T == {b} \cup Under(frame, {b})
<1>1. Live(b)
  BY Owners, Parts, Names
<1>2. g \notin T
  <2>1. g # b /\ b \notin Under(frame, {b})
    BY <1>1, Owners, Parts
  <2> QED
    BY <2>1, UnderHas
<1>3. \A c \in Blocks : frame[c].owner \in T => c \in T
  BY UnderHas
<1> HIDE DEF T
<1>4. Up(frame, g) \cap T = {}
  BY <1>2, <1>3, UpAvoids
<1> QED
  BY <1>4 DEF T

(***************************************************************************)
(* The steps.                                                              *)
(***************************************************************************)
\* A context without processes has no calls.
LEMMA StacksInit == Init => Stacks!Init
<1> SUFFICES ASSUME Init PROVE Stacks!Init
  OBVIOUS
<1>1. \A p \in Processes : Innermost(p) = None
  BY Names DEF Init, Innermost
<1>2. \A p \in Processes : Calls(p) = <<>>
  BY <1>1 DEF Calls
<1> QED
  BY <1>2 DEF Init, Stacks!Init

\* No frame changes.
LEMMA QuietCalls ==
  ASSUME IInv, IInv', frame' = frame, \A p \in Processes : Innermost(p)' = Innermost(p)
  PROVE  AllCalls' = AllCalls
<1>1. ASSUME NEW p \in Processes
      PROVE  Calls(p)' = Calls(p)
  <2>1. Innermost(p) \in Blocks \cup {None}
    BY InnermostIs
  <2> QED
    BY <2>1, SameCalls
<1> QED
  BY <1>1, CallsStay

\* Steps that touch no frame compute, wait, raise, handle, finish or resume.
LEMMA QuietMaps ==
  ASSUME IInv, IInv',
         \/ \E t \in Threads : HandOver(t) \/ EndThread(t)
         \/ \E p \in PyTasks : \/ PyWait(p) \/ PyCatch(p) \/ PyEnd(p) \/ AddPyTask(p)
                               \/ ResumePy(p) /\ ~IsAwaiting(p)
         \/ \E f \in Blocks : Catch(f) \/ Throw(f)
  PROVE  Stacks!Next
<1>1. ControlInv /\ OwnerInv /\ TypeOK
  BY Parts
<1>2. ASSUME NEW t \in Threads, HandOver(t) \/ EndThread(t)
      PROVE  Stacks!Next
  <2>1. frame' = frame /\ \A p \in Processes : Innermost(p)' = Innermost(p)
    BY <1>2 DEF HandOver, EndThread, Innermost, IsAwaiting
  <2>2. AllCalls' = AllCalls
    BY <2>1, QuietCalls
  <2>3. Stacks!Compute
    BY <1>2, <2>2 DEF HandOver, EndThread, AllCalls, Stacks!Compute
  <2> QED
    BY <2>3 DEF Stacks!Next
<1>3. ASSUME NEW p \in PyTasks, PyWait(p) \/ PyEnd(p)
      PROVE  Stacks!Next
  <2>1. p \in Processes /\ current = p /\ control = p /\ p \notin Blocks /\ ~IsAwaiting(p) /\ p \notin CoroProcesses
        /\ p # None
    BY <1>1, <1>3, Names DEF PyWait, PyEnd, RunsPy, ControlInv
  <2>2. frame' = frame /\ current' = None /\ control' = None /\ root' = root /\ resumePoint' = resumePoint
    BY <1>3 DEF PyWait, PyEnd
  <2>3. \A q \in Processes : q # p => process'[q] = process[q]
    BY <1>1, <1>3 DEF PyWait, PyEnd, TypeOK
  <2>4. ASSUME NEW q \in Processes
        PROVE  Innermost(q)' = Innermost(q)
    <3>1. IsAwaiting(q)' = IsAwaiting(q)
      BY <2>2 DEF IsAwaiting
    <3>2. CASE q = p
      BY <2>1, <2>2, <3>1, <3>2, Names DEF Innermost
    <3>3. CASE q # p
      BY <2>1, <2>2, <2>3, <3>1, <3>3, Names DEF Innermost
    <3> QED
      BY <3>2, <3>3
  <2>5. AllCalls' = AllCalls
    BY <2>2, <2>4, QuietCalls
  <2>6. Calls(p) = <<>> /\ AllCalls[p] = <<>>
    BY <2>1, Names DEF Calls, Innermost, AllCalls
  <2>7. CASE PyWait(p)
    <3>1. Stacks!Wait
      BY <2>1, <2>2, <2>5, <2>7 DEF PyWait, AllCalls, Stacks!Wait
    <3> QED
      BY <3>1 DEF Stacks!Next
  <2>8. CASE PyEnd(p)
    <3>1. AllCalls' = [AllCalls EXCEPT ![current] = <<>>]
      BY <2>1, <2>5, <2>6 DEF AllCalls
    <3>2. Len(AllCalls[current]) <= 1
      BY <2>1, <2>6
    <3>3. Stacks!Finish
      BY <2>1, <2>2, <2>8, <3>1, <3>2 DEF PyEnd, AllCalls, Stacks!Finish
    <3> QED
      BY <3>3 DEF Stacks!Next
  <2> QED
    BY <1>3, <2>7, <2>8
<1>4. ASSUME NEW p \in PyTasks, AddPyTask(p)
      PROVE  Stacks!Next
  <2>1. p \in Processes /\ process[p] = "none" /\ root[p] = None /\ p \notin CoroProcesses
    BY <1>1, <1>4, Names DEF AddPyTask, OwnerInv
  <2>2. frame' = frame /\ current' = current /\ control' = control /\ root' = root /\ resumePoint' = resumePoint
        /\ \A q \in Processes : q # p => process'[q] = process[q]
    BY <1>1, <1>4 DEF AddPyTask, TypeOK
  <2>3. ~IsAwaiting(p) /\ ~IsAwaiting(p)' /\ \A q \in Processes : IsAwaiting(q)' = IsAwaiting(q)
    BY <2>1, <2>2 DEF IsAwaiting
  <2>4. \A q \in Processes : Innermost(q)' = Innermost(q)
    BY <2>1, <2>2, <2>3 DEF Innermost
  <2>5. AllCalls' = AllCalls
    BY <2>2, <2>4, QuietCalls
  <2>6. Stacks!Compute
    BY <1>4, <2>5 DEF AddPyTask, AllCalls, Stacks!Compute
  <2> QED
    BY <2>6 DEF Stacks!Next
<1>5. ASSUME NEW p \in PyTasks, ResumePy(p), ~IsAwaiting(p)
      PROVE  Stacks!Next
  <2>1. p \in Processes /\ current = None /\ p \notin CoroProcesses /\ p \notin Blocks /\ p # None
    BY <1>1, <1>5, Names DEF ResumePy, ControlInv
  <2>2. frame' = frame /\ current' = p /\ control' = p /\ root' = root /\ resumePoint' = resumePoint
        /\ process' = process
    BY <1>5 DEF ResumePy
  <2>3. ~IsAwaiting(p) /\ ~IsAwaiting(p)' /\ \A q \in Processes : IsAwaiting(q)' = IsAwaiting(q)
    BY <1>5, <2>2 DEF IsAwaiting
  <2>4. \A q \in Processes : Innermost(q)' = Innermost(q)
    BY <2>1, <2>2, <2>3, Names DEF Innermost
  <2>5. AllCalls' = AllCalls
    BY <2>2, <2>4, QuietCalls
  <2>6. Stacks!Resume(p)
    BY <1>5, <2>1, <2>2, <2>5 DEF ResumePy, AllCalls, Stacks!Resume
  <2> QED
    BY <2>1, <2>6 DEF Stacks!Next
<1>6. ASSUME (\E p \in PyTasks : PyCatch(p)) \/ (\E f \in Blocks : Catch(f) \/ Throw(f))
      PROVE  Stacks!Next
  <2>1. control # None
    BY <1>6, Names DEF PyCatch, RunsPy, Catch, Throw, Runs
  <2>2. frame' = frame /\ \A p \in Processes : Innermost(p)' = Innermost(p)
    BY <1>6 DEF PyCatch, Catch, Throw, Innermost, IsAwaiting
  <2>3. AllCalls' = AllCalls
    BY <2>2, QuietCalls
  <2>4. current # None
    BY <1>1, <2>1 DEF ControlInv
  <2>5. Stacks!Raise \/ Stacks!Handle
    BY <1>6, <2>3, <2>4 DEF PyCatch, Catch, Throw, AllCalls, Stacks!Raise, Stacks!Handle
  <2> QED
    BY <2>5 DEF Stacks!Next
<1> QED
  BY <1>2, <1>3, <1>4, <1>5, <1>6

(***************************************************************************)
(* The steps that call.                                                    *)
(***************************************************************************)
\* A new frame is in no calls, and changes none.
LEMMA NewOthers ==
  ASSUME IInv, NEW b \in Blocks, ~Live(b), \A c \in Blocks : c # b => frame'[c] = frame[c]
  PROVE  /\ b \notin Stacks!Busy
         /\ \A q \in Processes : \A c \in Under(frame, {q}) :
               frame'[c].state = frame[c].state /\ frame'[c].continuation = frame[c].continuation
<1>1. b \notin Stacks!Busy
  BY NotBusy DEF Live
<1>2. \A q \in Processes : b \notin Under(frame, {q}) /\ Under(frame, {q}) \subseteq Blocks
  BY Unknown, UnderBlocks, Names
<1> QED
  BY <1>1, <1>2

\* register_coro_task and spawn start a stack.
LEMMA AddCoroProcessMaps ==
  ASSUME IInv, IInv', NEW p \in CoroProcesses, NEW b \in Blocks, NEW size \in Sizes, AddCoroProcess(p, b, size)
  PROVE  Stacks!Start(p, b)
<1>1. /\ p \in Processes /\ process[p] = "none" /\ current = None /\ current' = None /\ p # None
      /\ control = None
  BY Parts, Names DEF AddCoroProcess, ControlInv
<1>2. MakesFrame(b, p, "start")
  BY AddCoroProcessSteps
<1>3. /\ process'[p] = "alive" /\ resumePoint'[p] = b
      /\ \A q \in Processes : q # p => /\ process'[q] = process[q] /\ resumePoint'[q] = resumePoint[q]
                                       /\ root'[q] = root[q]
  BY <1>1, Parts DEF AddCoroProcess, TypeOK
<1>4. \A q \in Processes : q # p => Calls(q)' = Calls(q)
  <2>1. \A q \in Processes : \A c \in Under(frame, {q}) :
               frame'[c].state = frame[c].state /\ frame'[c].continuation = frame[c].continuation
    BY <1>2, NewOthers DEF MakesFrame
  <2>2. \A q \in Processes : q # current /\ q # current'
    BY <1>1, Names
  <2> QED
    BY <1>1, <1>3, <2>1, <2>2, OthersCalls
<1>5. Calls(p) = <<>>
  BY <1>1 DEF Calls, Innermost
<1>6. Calls(p)' = <<b>>
  <2>1. Innermost(p)' = b /\ b # None
    BY <1>1, <1>3, Names DEF Innermost
  <2>2. Chain(frame', b) = <<b>>
    BY <1>2, ChainRoot DEF MakesFrame
  <2> QED
    BY <2>1, <2>2, CallsNext
<1>7. AllCalls' = [AllCalls EXCEPT ![p] = <<b>>] /\ AllCalls[p] = <<>>
  BY <1>1, <1>4, <1>5, <1>6, CallsChange, AllCallsType
<1>8. b \notin Stacks!Busy
  BY <1>2, NewOthers DEF MakesFrame
<1>9. raised' = raised /\ received' = None
  BY DEF AddCoroProcess
<1> QED
  BY <1>1, <1>7, <1>8, <1>9 DEF AllCalls, Stacks!Start

\* resume() keeps the calls of the process.
LEMMA ResumeMaps ==
  ASSUME IInv, IInv', NEW p \in Processes, Waits(p), control = None,
         control' = resumePoint[p], current' = p, frame' = ResumeFrame(frame, resumePoint[p]),
         UNCHANGED <<bytes, pool, count, thread, process, root, resumePoint, raised>>, received' = None
  PROVE  Stacks!Resume(p)
<1> DEFINE r == resumePoint[p]
<1>1. /\ r \in Blocks /\ r \in Under(frame, {p})
      /\ \A c \in Blocks : c # r => frame'[c] = frame[c]
      /\ frame'[r].continuation = frame[r].continuation
  BY ResumeSteps, BelowIsUnder
<1>2. current = None /\ p # None
  BY Parts, Names DEF ControlInv
<1>3. \A q \in Processes : q # p => Calls(q)' = Calls(q)
  <2>1. \A q \in Processes : q # p => r \notin Under(frame, {q}) /\ Under(frame, {q}) \subseteq Blocks
    BY <1>1, Apart, UnderBlocks
  <2>2. \A q \in Processes : q # p => \A c \in Under(frame, {q}) :
            frame'[c].state = frame[c].state /\ frame'[c].continuation = frame[c].continuation
    BY <1>1, <2>1
  <2>3. \A q \in Processes : q # p => /\ process'[q] = process[q] /\ resumePoint'[q] = resumePoint[q]
                                       /\ root'[q] = root[q] /\ q # current /\ q # current'
    BY <1>2, Names
  <2> QED
    BY <2>2, <2>3, OthersCalls
<1>4. Calls(p)' = Calls(p)
  <2>1. Innermost(p) = r
    BY <1>2 DEF Waits, Innermost
  <2>2. Innermost(p)' = r
    BY <1>1, <1>2 DEF Innermost
  <2>3. \A c \in Up(frame, r) : frame'[c].continuation = frame[c].continuation
    BY <1>1, UpSelf
  <2> HIDE DEF r
  <2> QED
    BY <1>1, <2>1, <2>2, <2>3, SameCalls
<1>5. AllCalls' = AllCalls
  BY <1>3, <1>4, CallsStay
<1> QED
  BY <1>2, <1>5 DEF AllCalls, Stacks!Resume

\* co_await of a task is a call.
LEMMA AwaitMaps ==
  ASSUME IInv, IInv', NEW p \in Processes, p = current, NEW f \in Blocks, NEW b \in Blocks, Await(f, b)
  PROVE  Stacks!Call(b)
<1>1. /\ f # b /\ frame[b].owner = f /\ frame[b].state = "start" /\ ~raised
      /\ \A c \in Blocks : c # f /\ c # b => frame'[c] = frame[c]
      /\ frame'[f].continuation = frame[f].continuation
      /\ frame'[b].continuation = f
  BY AwaitSteps
<1>2. /\ Runs(f) /\ control' = b /\ current' = current
      /\ UNCHANGED <<process, root, resumePoint, raised>> /\ received' = None
  BY DEF Await
<1>3. p \in Processes /\ p # None /\ Innermost(p) = f /\ Calls(p) = Chain(frame, f) /\ f \in Under(frame, {p})
  BY <1>2, RunningCalls, Running
<1>4. \A q \in Processes : q # p => Calls(q)' = Calls(q)
  <2>1. b \in Under(frame, {p})
    BY <1>1, <1>3, UnderHas
  <2>2. \A q \in Processes : q # p => /\ f \notin Under(frame, {q}) /\ b \notin Under(frame, {q})
                                      /\ Under(frame, {q}) \subseteq Blocks
    BY <1>3, <2>1, Apart, UnderBlocks
  <2>3. \A q \in Processes : q # p => \A c \in Under(frame, {q}) :
            frame'[c].state = frame[c].state /\ frame'[c].continuation = frame[c].continuation
    BY <1>1, <2>2
  <2>4. \A q \in Processes : q # p => /\ process'[q] = process[q] /\ resumePoint'[q] = resumePoint[q]
                                      /\ root'[q] = root[q] /\ q # current /\ q # current'
    BY <1>2
  <2> QED
    BY <1>3, <2>3, <2>4, OthersCalls
<1>5. Calls(p)' = Append(Calls(p), b)
  <2>1. Up(frame, f) \cap ({b} \cup Under(frame, {b})) = {}
    BY <1>1, CallerAvoids
  <2>2. b \notin Up(frame, f) /\ Up(frame, f) \subseteq Blocks
    BY <2>1, UpSelf
  <2>3. \A c \in Up(frame, f) : frame'[c].continuation = frame[c].continuation
    BY <1>1, <2>2
  <2>4. Chain(frame', f) = Chain(frame, f) /\ Up(frame', f) = Up(frame, f)
    BY <2>3, ChainSame, UpSame, FramesContinue, ContinueNext
  <2>5. Chain(frame', b) = Append(Chain(frame', f), b)
    BY <1>1, <2>2, <2>4, ChainPush, ContinueNext, Names
  <2>6. Innermost(p)' = b /\ b # None
    BY <1>2, <1>3, Names DEF Innermost
  <2>7. Calls(p)' = Chain(frame', b)
    BY <2>6, CallsNext
  <2> QED
    BY <1>3, <2>4, <2>5, <2>7
<1>6. b \notin Stacks!Busy
  BY <1>1, NotBusy
<1>7. AllCalls' = [AllCalls EXCEPT ![current] = Append(AllCalls[current], b)]
  <2>1. AllCalls[p] = Calls(p)
    BY <1>3, AllCallsType
  <2> QED
    BY <1>3, <1>4, <1>5, <2>1, CallsChange
<1> QED
  BY <1>1, <1>2, <1>3, <1>6, <1>7 DEF AllCalls, Stacks!Call

\* The await of a C++ task in Python is a call.
LEMMA PyAwaitMaps ==
  ASSUME IInv, IInv', NEW p \in PyTasks, NEW b \in Blocks, NEW size \in Sizes, PyAwait(p, b, size)
  PROVE  Stacks!Call(b)
<1>1. /\ p \in Processes /\ p # None /\ p \notin Blocks /\ current = p /\ control = p
      /\ MakesFrame(b, p, "running") /\ root'[p] = b
  BY PyAwaitSteps, Names DEF PyAwait, RunsPy
<1>2. /\ ~raised /\ control' = b /\ current' = current
      /\ UNCHANGED <<process, resumePoint, raised>> /\ received' = None
      /\ \A q \in Processes : q # p => root'[q] = root[q]
  BY <1>1, Parts DEF PyAwait, TypeOK
<1>3. /\ b \notin Stacks!Busy
      /\ \A q \in Processes : \A c \in Under(frame, {q}) :
            frame'[c].state = frame[c].state /\ frame'[c].continuation = frame[c].continuation
  BY <1>1, NewOthers DEF MakesFrame
<1>4. \A q \in Processes : q # p => Calls(q)' = Calls(q)
  BY <1>1, <1>2, <1>3, OthersCalls
<1>5. Calls(p) = <<>>
  BY <1>1 DEF Calls, Innermost
<1>6. Calls(p)' = <<b>>
  <2>1. Innermost(p)' = b /\ b # None
    BY <1>1, <1>2, Names DEF Innermost
  <2>2. Chain(frame', b) = <<b>>
    BY <1>1, ChainRoot DEF MakesFrame
  <2> QED
    BY <2>1, <2>2, CallsNext
<1>7. AllCalls' = [AllCalls EXCEPT ![current] = Append(AllCalls[current], b)]
  <2>1. AllCalls[p] = <<>> /\ Append(<<>>, b) = <<b>>
    BY <1>1, <1>5, AllCallsType
  <2> QED
    BY <1>1, <1>4, <1>6, <2>1, CallsChange
<1> QED
  BY <1>1, <1>2, <1>3, <1>7 DEF AllCalls, Stacks!Call

\* co_await of a leaf keeps the calls of the process.
LEMMA WaitMaps ==
  ASSUME IInv, IInv', NEW p \in Processes, p = current, NEW f \in Blocks, Wait(f)
  PROVE  Stacks!Wait
<1>1. /\ Runs(f) /\ ~raised /\ control' = None /\ current' = None
      /\ UNCHANGED <<process, root, raised>> /\ received' = None
  BY DEF Wait
<1>2. /\ p \in Processes /\ p # None /\ Innermost(p) = f /\ f \in Under(frame, {p})
      /\ process[p] = "alive" /\ root[p] # None /\ root[p] \in Blocks
      /\ frame[root[p]].state \in {"running", "suspended"}
  BY <1>1, RunningCalls, Running
<1>3. /\ \A c \in Blocks : /\ frame'[c].continuation = frame[c].continuation
                           /\ c # f => frame'[c].state = frame[c].state
      /\ frame'[f].state = "suspended"
      /\ \A q \in Processes : resumePoint'[q] = IF q = p THEN f ELSE resumePoint[q]
  BY WaitSteps
<1>4. \A q \in Processes : q # p => Calls(q)' = Calls(q)
  <2>1. \A q \in Processes : q # p => f \notin Under(frame, {q}) /\ Under(frame, {q}) \subseteq Blocks
    BY <1>2, Apart, UnderBlocks
  <2>2. \A q \in Processes : q # p => \A c \in Under(frame, {q}) :
            frame'[c].state = frame[c].state /\ frame'[c].continuation = frame[c].continuation
    BY <1>3, <2>1
  <2>3. \A q \in Processes : q # p => /\ process'[q] = process[q] /\ resumePoint'[q] = resumePoint[q]
                                      /\ root'[q] = root[q] /\ q # current /\ q # current'
    BY <1>1, <1>3, Names
  <2> QED
    BY <1>2, <2>2, <2>3, OthersCalls
<1>5. Calls(p)' = Calls(p)
  <2>1. frame'[root[p]].state # "done"
    BY <1>2, <1>3
  <2>2. Innermost(p)' = f
    BY <1>1, <1>2, <1>3, <2>1, Names DEF Innermost, IsAwaiting
  <2>3. \A c \in Up(frame, f) : frame'[c].continuation = frame[c].continuation
    BY <1>3, UpSelf
  <2> QED
    BY <1>2, <2>2, <2>3, SameCalls
<1>6. AllCalls' = AllCalls
  <2> QED
    BY <1>4, <1>5, CallsStay
<1> QED
  BY <1>1, <1>2, <1>6 DEF AllCalls, Stacks!Wait

(***************************************************************************)
(* The steps that leave the calls as they are.                             *)
(***************************************************************************)
\* A coroutine computes: the others, and the frames that it is called by, stay.
LEMMA RunningStays ==
  ASSUME IInv, IInv', NEW p \in Processes, p = current, NEW f \in Blocks, Runs(f),
         UNCHANGED <<control, current, process, root, resumePoint>>,
         \A q \in Processes : q # p => \A c \in Under(frame, {q}) :
            frame'[c].state = frame[c].state /\ frame'[c].continuation = frame[c].continuation,
         \A c \in Up(frame, f) : frame'[c].continuation = frame[c].continuation
  PROVE  AllCalls' = AllCalls /\ current # None
<1>1. p # None /\ Innermost(p) = f /\ control = f
  BY RunningCalls, Running
<1>2. \A q \in Processes : q # p => Calls(q)' = Calls(q)
  BY OthersCalls
<1>3. Calls(p)' = Calls(p)
  <2>1. Innermost(p)' = f
    BY <1>1 DEF Innermost
  <2> QED
    BY <1>1, <2>1, SameCalls
<1> QED
  BY <1>1, <1>2, <1>3, CallsStay

\* co_await of a task that is done takes its result again.
LEMMA AwaitAgainMaps ==
  ASSUME IInv, IInv', NEW p \in Processes, p = current, NEW f \in Blocks, NEW b \in Blocks, AwaitAgain(f, b)
  PROVE  Stacks!Next
<1>1. \A c \in Blocks : frame'[c].state = frame[c].state /\ frame'[c].continuation = frame[c].continuation
  BY AwaitAgainSteps
<1>2. /\ Runs(f) /\ ~raised /\ UNCHANGED <<control, current, process, root, resumePoint>>
      /\ frame[b].state = "done"
      /\ raised' = Throws(frame[b]) /\ received' = IF Throws(frame[b]) THEN None ELSE b
  BY DEF AwaitAgain
<1>3. \A q \in Processes : Under(frame, {q}) \subseteq Blocks
  BY UnderBlocks
<1>4. AllCalls' = AllCalls /\ current # None
  BY <1>1, <1>2, <1>3, RunningStays, UpSelf
<1>5. b \notin Stacks!Busy
  BY <1>2, NotBusy
<1>6. CASE Throws(frame[b])
  <2>1. Stacks!Raise
    BY <1>2, <1>4, <1>6 DEF AllCalls, Stacks!Raise
  <2> QED
    BY <2>1 DEF Stacks!Next
<1>7. CASE ~Throws(frame[b])
  <2>1. Throws(frame[b]) = FALSE /\ raised = FALSE
    BY <1>2, <1>7, Parts DEF Throws, TypeOK
  <2>2. Stacks!TakeAgain(b)
    BY <1>2, <1>4, <1>5, <2>1 DEF AllCalls, Stacks!TakeAgain
  <2> QED
    BY <2>2 DEF Stacks!Next
<1> QED
  BY <1>6, <1>7

\* The call of a coroutine function is no call yet.
LEMMA CreateMaps ==
  ASSUME IInv, IInv', NEW p \in Processes, p = current, NEW f \in Blocks, NEW b \in Blocks, NEW size \in Sizes,
         Create(f, b, size)
  PROVE  Stacks!Compute
<1>1. MakesFrame(b, f, "start")
  BY CreateSteps
<1>2. Runs(f) /\ UNCHANGED <<control, current, process, root, resumePoint, raised>> /\ received' = None
  BY DEF Create
<1>3. \A q \in Processes : \A c \in Under(frame, {q}) :
         frame'[c].state = frame[c].state /\ frame'[c].continuation = frame[c].continuation
  BY <1>1, NewOthers DEF MakesFrame
<1>4. Up(frame, f) \subseteq Under(frame, {p})
  BY <1>2, Running, UpUnder
<1>5. AllCalls' = AllCalls
  BY <1>2, <1>3, <1>4, RunningStays
<1> QED
  BY <1>2, <1>5 DEF AllCalls, Stacks!Compute

\* Frames of one process that go are in no calls of another one.
LEMMA GoneOthers ==
  ASSUME IInv, NEW p \in Processes, NEW D, D \subseteq Under(frame, {p}), GoneBelow(D),
         \A c \in Blocks : frame'[c] = IF c \in D THEN NoFrame ELSE frame[c]
  PROVE  \A q \in Processes : q # p => \A c \in Under(frame, {q}) :
            frame'[c].state = frame[c].state /\ frame'[c].continuation = frame[c].continuation
BY OthersKeep

\* The calls of the coroutine do not go through its local variables.
LEMMA LeaveMaps ==
  ASSUME IInv, IInv', NEW p \in Processes, p = current, NEW f \in Blocks, NEW b \in Blocks, Leave(f, b)
  PROVE  Stacks!Compute
<1> DEFINE D == {b} \cup Under(frame, {b})
<1>1. /\ GoneBelow(D) /\ Doom(D, f) /\ D \subseteq Under(frame, {f}) /\ Runs(f)
      /\ \A c \in Blocks : frame'[c] = IF c \in D THEN NoFrame ELSE frame[c]
  BY LeaveSteps
<1> HIDE DEF D
<1>2. UNCHANGED <<control, current, process, root, resumePoint, raised>> /\ received' = None
  BY DEF Leave
<1>3. f \in Under(frame, {p})
  BY <1>1, Running
<1>4. D \subseteq Under(frame, {p})
  BY <1>1, <1>3, UnderTrans
<1>5. Up(frame, f) \cap D = {} /\ Up(frame, f) \subseteq Blocks
  <2>1. f \notin D /\ \A c \in Blocks : frame[c].owner \in D => c \in D
    BY <1>1, DoomIs
  <2> QED
    BY <2>1, UpAvoids, UpSelf
<1>6. \A c \in Up(frame, f) : frame'[c].continuation = frame[c].continuation
  BY <1>1, <1>5
<1>7. AllCalls' = AllCalls
  BY <1>1, <1>2, <1>4, <1>6, GoneOthers, RunningStays
<1> QED
  BY <1>2, <1>7 DEF AllCalls, Stacks!Compute

\* Nor do those of a process through an awaitable that it lets go.
LEMMA PyDropMaps ==
  ASSUME IInv, IInv', NEW p \in PyTasks, PyDrop(p)
  PROVE  Stacks!Compute
<1> DEFINE D == {root[p]} \cup Under(frame, {root[p]})
<1>1. /\ GoneBelow(D) /\ control = p /\ current = p /\ D \subseteq Under(frame, {p})
      /\ \A c \in Blocks : frame'[c] = IF c \in D THEN NoFrame ELSE frame[c]
      /\ \A q \in Processes : root'[q] = IF q = p THEN None ELSE root[q]
  BY PyDropSteps
<1> HIDE DEF D
<1>2. p \in Processes /\ p \notin Blocks
  BY Names
<1>3. UNCHANGED <<control, current, process, resumePoint, raised>> /\ received' = None
  BY DEF PyDrop
<1>4. \A q \in Processes : q # p => Calls(q)' = Calls(q)
  BY <1>1, <1>2, <1>3, GoneOthers, OthersCalls
<1>5. Calls(p)' = Calls(p)
  BY <1>1, <1>2, <1>3, CallsNow, CallsNext DEF Innermost
<1>6. AllCalls' = AllCalls
  BY <1>4, <1>5, CallsStay
<1> QED
  BY <1>3, <1>6 DEF AllCalls, Stacks!Compute

(***************************************************************************)
(* The steps that end calls.                                               *)
(***************************************************************************)
\* remove_process() discards all of the calls.
LEMMA RemoveProcessMaps ==
  ASSUME IInv, IInv', NEW p \in Processes, RemoveProcess(p)
  PROVE  Stacks!Discard(p)
<1> DEFINE D == Under(frame, {p})
<1>1. /\ GoneBelow(D) /\ control = None /\ current' = current
      /\ \A c \in Blocks : frame'[c] = IF c \in D THEN NoFrame ELSE frame[c]
      /\ \A q \in Processes : /\ root'[q] = IF q = p THEN None ELSE root[q]
                              /\ resumePoint'[q] = IF q = p THEN None ELSE resumePoint[q]
                              /\ process'[q] = IF q = p THEN "none" ELSE process[q]
  BY RemoveProcessSteps
<1>2. current = None /\ \A q \in Processes : q # None
  BY <1>1, Parts, Names DEF ControlInv
<1>3. \A q \in Processes : q # p => \A c \in Under(frame, {q}) :
            frame'[c].state = frame[c].state /\ frame'[c].continuation = frame[c].continuation
  <2> HIDE DEF D
  <2>1. D \subseteq Under(frame, {p})
    BY DEF D
  <2> QED
    BY <1>1, <2>1, GoneOthers
<1>4. \A q \in Processes : q # p => Calls(q)' = Calls(q)
  BY <1>1, <1>2, <1>3, OthersCalls
<1>5. Calls(p)' = <<>>
  <2>1. Innermost(p)' = None
    BY <1>1, <1>2 DEF Innermost
  <2> QED
    BY <2>1, CallsNext
<1>6. AllCalls' = [AllCalls EXCEPT ![p] = <<>>]
  BY <1>4, <1>5, CallsChange
<1>7. raised' = raised /\ received' = None
  BY DEF RemoveProcess
<1> QED
  BY <1>1, <1>2, <1>6, <1>7 DEF AllCalls, Stacks!Discard

\* What is in no other calls may change.
LEMMA EndOthers ==
  ASSUME NEW p \in Processes, NEW U, U \subseteq Under(frame, {p}),
         \A c \in Blocks : c \notin U => frame'[c] = frame[c]
  PROVE  \A q \in Processes : q # p => \A c \in Under(frame, {q}) :
            frame'[c].state = frame[c].state /\ frame'[c].continuation = frame[c].continuation
BY Apart, UnderBlocks

\* Front and Last undo Append.
LEMMA AppendFront ==
  ASSUME NEW S, NEW s \in Seq(S), NEW e \in S, Len(s) >= 1
  PROVE  LET t == Append(s, e)
         IN Len(t) > 1 /\ Last(t) = e /\ Front(t) = s /\ t[Len(t)] = e
<1> DEFINE t == Append(s, e)
           n == Len(s)
<1>1. n \in Nat /\ n >= 1 /\ s \in [1..n -> S]
  BY LenProperties
<1>2. /\ t \in Seq(S) /\ Len(t) = n + 1
      /\ \A i \in 1..n : t[i] = s[i]
      /\ t[n + 1] = e
  BY AppendProperties
<1> HIDE DEF t
<1>3. Front(t) = [i \in 1..n |-> t[i]]
  <2>1. Front(t) = SubSeq(t, 1, n)
    BY <1>1, <1>2 DEF Front
  <2>2. /\ SubSeq(t, 1, n) \in Seq(S) /\ Len(SubSeq(t, 1, n)) = n
        /\ \A i \in 1..n : SubSeq(t, 1, n)[i] = t[i]
    BY <1>1, <1>2, SubSeqProperties
  <2> QED
    BY <2>1, <2>2, LenProperties
<1> HIDE DEF n
<1>4. Front(t) = s
  BY <1>1, <1>2, <1>3
<1>5. Last(t) = e
  BY <1>2 DEF Last
<1> QED
  BY <1>1, <1>2, <1>4, <1>5 DEF t

\* A coroutine that ends is the last of the calls, and its caller the one before.
LEMMA ToAwaiterMaps ==
  ASSUME IInv, IInv', NEW p \in Processes, p = current, NEW f \in Blocks, Runs(f),
         NEW promise, IsPromise(f, promise), ToAwaiter(f, promise)
  PROVE  /\ Len(AllCalls[p]) > 1 /\ Stacks!Last(AllCalls[p]) = f
         /\ AllCalls' = [AllCalls EXCEPT ![p] = Stacks!Front(AllCalls[p])]
<1> DEFINE g == frame[f].continuation
           D == Under(frame, {f})
<1>1. /\ g \in Blocks /\ g # f /\ g \notin D /\ f \notin D
      /\ frame[f].owner = g
      /\ \A c \in Blocks : c # f /\ c # g => frame'[c] = IF c \in D THEN NoFrame ELSE frame[c]
      /\ frame'[g].continuation = frame[g].continuation
      /\ control' = g
      /\ UNCHANGED <<thread, current, process, root, resumePoint>>
  BY ToAwaiterSteps
<1>2. Innermost(p) = f /\ Calls(p) = Chain(frame, f) /\ f \in Under(frame, {p}) /\ p # None /\ f # None
  BY RunningCalls, Running
<1>3. g \in Under(frame, {p})
  <2>1. g \in {p} \cup Under(frame, {p})
    BY <1>1, <1>2, UnderFrom
  <2> QED
    BY <1>1, <2>1, Names
<1> HIDE DEF D
<1>4. \A q \in Processes : q # p => Calls(q)' = Calls(q)
  <2> DEFINE U == {f, g} \cup D
  <2>1. U \subseteq Under(frame, {p})
    BY <1>2, <1>3, UnderTrans DEF D
  <2>2. \A c \in Blocks : c \notin U => frame'[c] = frame[c]
    BY <1>1
  <2> HIDE DEF g, U
  <2>3. \A q \in Processes : q # p => \A c \in Under(frame, {q}) :
            frame'[c].state = frame[c].state /\ frame'[c].continuation = frame[c].continuation
    BY <2>1, <2>2, EndOthers
  <2> QED
    BY <1>1, <2>3, OthersCalls
<1>5. Chain(frame, f) = Append(Chain(frame, g), f)
  BY <1>1, ChainOfCall
<1>6. IsStack(Chain(frame, g), p, g)
  <2>1. Active(g)
    BY ToAwaiterSteps DEF Active
  <2> QED
    BY <1>3, <2>1, ChainIsStack
<1>7. Calls(p)' = Chain(frame, g)
  <2>1. Up(frame, g) \cap ({f} \cup D) = {} /\ Up(frame, g) \subseteq Blocks
    BY <1>1, CallerAvoids, UpSelf DEF D
  <2>2. \A c \in Up(frame, g) : frame'[c].continuation = frame[c].continuation
    BY <1>1, <2>1
  <2> HIDE DEF g
  <2>3. Chain(frame', g) = Chain(frame, g)
    BY <1>1, <2>2, ChainSame, FramesContinue, ContinueNext
  <2>4. Innermost(p)' = g /\ g # None
    BY <1>1, <1>2, Names DEF Innermost
  <2> QED
    BY <2>3, <2>4, CallsNext
<1> DEFINE s == Chain(frame, g)
<1>8. s \in Seq(Blocks) /\ Len(s) >= 1
  BY <1>6 DEF IsStack
<1>9. AllCalls[p] = Append(s, f)
  BY <1>2, <1>5, AllCallsType
<1> HIDE DEF g, s
<1>10. Len(AllCalls[p]) > 1 /\ Last(AllCalls[p]) = f /\ Front(AllCalls[p]) = s
  BY <1>8, <1>9, AppendFront
<1>11. Stacks!Last(AllCalls[p]) = f /\ Stacks!Front(AllCalls[p]) = s
  BY <1>10 DEF Stacks!Last, Stacks!Front, Last, Front
<1>12. AllCalls' = [AllCalls EXCEPT ![p] = s]
  BY <1>4, <1>7, CallsChange DEF s
<1> QED
  BY <1>10, <1>11, <1>12

\* A coroutine that nobody awaits is the only call.
LEMMA EndsAloneMaps ==
  ASSUME IInv, IInv', NEW p \in Processes, p = current, NEW f \in Blocks, Runs(f), NEW D, D = Under(frame, {f}),
         EndsAlone(f, D), root' = root, resumePoint' = resumePoint,
         \A q \in Processes : q # p => process'[q] = process[q],
         \/ process'[p] = "ended" /\ current' = None
         \/ control' = p /\ current' = p
  PROVE  /\ AllCalls[p] = <<f>>
         /\ AllCalls' = [AllCalls EXCEPT ![p] = <<>>]
<1>1. /\ frame[f].owner = p
      /\ \A c \in Blocks : c # f => frame'[c] = IF c \in D THEN NoFrame ELSE frame[c]
  BY DEF EndsAlone
<1>2. Calls(p) = Chain(frame, f) /\ f \in Under(frame, {p}) /\ p # None /\ p \notin Blocks
  BY RunningCalls, Running, Names
<1>3. AllCalls[p] = <<f>>
  BY <1>1, <1>2, ChainOfRoot, AllCallsType
<1>4. \A q \in Processes : q # p => Calls(q)' = Calls(q)
  <2> DEFINE U == {f} \cup D
  <2>1. /\ U \subseteq Under(frame, {p})
        /\ \A c \in Blocks : c \notin U => frame'[c] = frame[c]
    BY <1>1, <1>2, UnderTrans
  <2> HIDE DEF U
  <2>2. \A q \in Processes : q # p => \A c \in Under(frame, {q}) :
            frame'[c].state = frame[c].state /\ frame'[c].continuation = frame[c].continuation
    BY <1>1, <2>1, EndOthers
  <2>3. \A q \in Processes : q # p => q # current /\ q # current'
    BY Names
  <2> QED
    BY <2>2, <2>3, OthersCalls
<1>5. Calls(p)' = <<>>
  <2>1. Innermost(p)' = None
    BY <1>2 DEF Innermost
  <2> QED
    BY <2>1, CallsNext
<1> QED
  BY <1>3, <1>4, <1>5, CallsChange

\* What raised and received become, when a coroutine that somebody awaits ends.
LEMMA Outcomes ==
  ASSUME IInv, NEW f \in Blocks, frame[f].continuation # None
  PROVE  /\ Throws([Returned(frame[f]) EXCEPT !.state = "done"]) = FALSE
         /\ Throws([Unhandled(frame[f]) EXCEPT !.state = "done"]) = TRUE
<1>1. frame[f] \in FrameRecords
  BY Parts DEF TypeOK
<1>2. Returned(frame[f]) = [frame[f] EXCEPT !.outcome = "value"]
  BY DEF Returned
<1>3. Unhandled(frame[f]) = [frame[f] EXCEPT !.outcome = "failed"]
  BY <1>1 DEF Unhandled
<1> QED
  BY <1>1, <1>2, <1>3 DEF Throws, FrameRecords

\* The end of a coroutine returns, unwinds, finishes or returns to Python.
LEMMA EndMaps ==
  ASSUME IInv, IInv', NEW p \in Processes, p = current, NEW f \in Blocks, Return(f) \/ Unwind(f)
  PROVE  Stacks!Next
<1>1. Runs(f) /\ p # None /\ raised \in BOOLEAN /\ raised' \in BOOLEAN
  BY Running, Parts, Names DEF Return, Unwind, IInv, TypeOK
<1>2. PICK promise : /\ promise = IF raised THEN Unhandled(frame[f]) ELSE Returned(frame[f])
                     /\ IsPromise(f, promise) /\ End(f, promise)
  BY DEF Return, Unwind, IsPromise
<1>3. CASE ToAwaiter(f, promise)
  <2> DEFINE done == [promise EXCEPT !.state = "done"]
  <2>1. /\ frame[f].continuation # None
        /\ raised' = Throws(done)
        /\ received' = IF Throws(done) THEN None ELSE f
        /\ current' = current
    <3>1. frame[f].continuation \in Blocks /\ UNCHANGED <<thread, current, process, root, resumePoint>>
      BY <1>1, <1>2, <1>3, ToAwaiterSteps
    <3>2. raised' = Throws(done)
      <4>1. Runs(f) /\ IsPromise(f, promise)
        BY <1>1, <1>2
      <4> QED
        BY <1>3, <4>1, ToAwaiterSteps, ZenonT(60)
    <3>3. received' = IF Throws(done) THEN None ELSE f
      BY <1>1, <1>2, <1>3, ToAwaiterSteps
    <3> QED
      BY <3>1, <3>2, <3>3, Names
  <2>2. Throws(done) = raised
    BY <1>1, <1>2, <2>1, Outcomes
  <2> HIDE DEF done
  <2>3. /\ Len(AllCalls[p]) > 1 /\ Stacks!Last(AllCalls[p]) = f
        /\ AllCalls' = [AllCalls EXCEPT ![p] = Stacks!Front(AllCalls[p])]
    BY <1>1, <1>2, <1>3, ToAwaiterMaps
  <2>4. CASE raised
    <3>1. Stacks!Unwind
      BY <1>1, <2>1, <2>2, <2>3, <2>4 DEF AllCalls, Stacks!Unwind
    <3> QED
      BY <3>1 DEF Stacks!Next
  <2>5. CASE ~raised
    <3>1. Stacks!Return
      BY <1>1, <2>1, <2>2, <2>3, <2>5 DEF AllCalls, Stacks!Return
    <3> QED
      BY <3>1 DEF Stacks!Next
  <2> QED
    BY <2>4, <2>5
<1>4. CASE ToProcess(f, promise)
  <2>1. /\ EndsAlone(f, Under(frame, {f}))
        /\ process' = [process EXCEPT ![current] = "ended"]
        /\ current' = None /\ raised' = FALSE /\ root' = root /\ resumePoint' = resumePoint
    BY <1>1, <1>2, <1>4, ToProcessSteps
  <2>2. process'[p] = "ended" /\ \A q \in Processes : q # p => process'[q] = process[q]
    BY <2>1, Parts DEF TypeOK
  <2>3. AllCalls[p] = <<f>> /\ AllCalls' = [AllCalls EXCEPT ![p] = <<>>]
    BY <1>1, <2>1, <2>2, EndsAloneMaps
  <2>4. Len(AllCalls[p]) <= 1
    BY <2>3
  <2>5. received' = None
    BY <1>4 DEF ToProcess
  <2>6. Stacks!Finish
    BY <1>1, <2>1, <2>3, <2>4, <2>5 DEF AllCalls, Stacks!Finish
  <2> QED
    BY <2>6 DEF Stacks!Next
<1>5. CASE ToPython(f, promise)
  <2>1. /\ EndsAlone(f, Under(frame, {f}))
        /\ control' = current /\ received' = IF raised THEN None ELSE f
        /\ UNCHANGED <<current, process, root, resumePoint, raised>>
    BY <1>1, <1>2, <1>5, ToPythonSteps
  <2>2. AllCalls[p] = <<f>> /\ AllCalls' = [AllCalls EXCEPT ![p] = <<>>]
    BY <1>1, <2>1, EndsAloneMaps
  <2>3. Len(AllCalls[p]) = 1 /\ AllCalls[p][1] = f
    BY <2>2
  <2>4. Stacks!ReturnToPython
    BY <1>1, <2>1, <2>2, <2>3 DEF AllCalls, Stacks!ReturnToPython
  <2> QED
    BY <2>4 DEF Stacks!Next
<1> QED
  BY <1>2, <1>3, <1>4, <1>5 DEF End

\* Every step is a step of the call stacks.
LEMMA StacksStep == IInv /\ IInv' /\ [Next]_vars => [Stacks!Next]_<<AllCalls, current, raised, received>>
<1> SUFFICES ASSUME IInv, IInv', [Next]_vars
             PROVE  Stacks!Next \/ UNCHANGED <<AllCalls, current, raised, received>>
  OBVIOUS
<1>0. ASSUME NEW f \in Blocks, Runs(f)
      PROVE  current \in Processes
  BY <1>0, Running
<1>1. CASE \/ \E t \in Threads : HandOver(t) \/ EndThread(t)
           \/ \E p \in PyTasks : \/ PyWait(p) \/ PyCatch(p) \/ PyEnd(p) \/ AddPyTask(p)
                                 \/ ResumePy(p) /\ ~IsAwaiting(p)
           \/ \E f \in Blocks : Catch(f) \/ Throw(f)
  BY <1>1, QuietMaps
<1>2. ASSUME NEW p \in CoroProcesses, NEW b \in Blocks, NEW size \in Sizes, AddCoroProcess(p, b, size)
      PROVE  Stacks!Next
  BY <1>2, AddCoroProcessMaps, Names DEF Stacks!Next
<1>3. ASSUME NEW p \in CoroProcesses, ResumeCoro(p)
      PROVE  Stacks!Next
  <2>1. p \in Processes /\ Stacks!Resume(p)
    BY <1>3, ResumeCoroIs, ResumeMaps
  <2> QED
    BY <2>1 DEF Stacks!Next
<1>4. ASSUME NEW p \in PyTasks, ResumePy(p), IsAwaiting(p)
      PROVE  Stacks!Next
  <2>1. p \in Processes /\ Stacks!Resume(p)
    BY <1>4, ResumePyIs, ResumeMaps
  <2> QED
    BY <2>1 DEF Stacks!Next
<1>5. ASSUME NEW p \in PyTasks, NEW b \in Blocks, NEW size \in Sizes, PyAwait(p, b, size)
      PROVE  Stacks!Next
  BY <1>5, PyAwaitMaps DEF Stacks!Next
<1>6. ASSUME NEW p \in PyTasks, PyDrop(p)
      PROVE  Stacks!Next
  BY <1>6, PyDropMaps DEF Stacks!Next
<1>7. ASSUME NEW p \in Processes, RemoveProcess(p)
      PROVE  Stacks!Next
  BY <1>7, RemoveProcessMaps DEF Stacks!Next
<1>8. ASSUME NEW f \in Blocks, NEW b \in Blocks, Await(f, b)
      PROVE  Stacks!Next
  <2>1. current \in Processes
    BY <1>0, <1>8 DEF Await
  <2>2. Stacks!Call(b)
    BY <1>8, <2>1, AwaitMaps
  <2> QED
    BY <2>2 DEF Stacks!Next
<1>9. ASSUME NEW f \in Blocks, NEW b \in Blocks, AwaitAgain(f, b)
      PROVE  Stacks!Next
  <2>1. current \in Processes
    BY <1>0, <1>9 DEF AwaitAgain
  <2> QED
    BY <1>9, <2>1, AwaitAgainMaps
<1>10. ASSUME NEW f \in Blocks, NEW b \in Blocks, Leave(f, b)
       PROVE  Stacks!Next
  <2>1. current \in Processes
    BY <1>0, <1>10 DEF Leave
  <2>2. Stacks!Compute
    BY <1>10, <2>1, LeaveMaps
  <2> QED
    BY <2>2 DEF Stacks!Next
<1>11. ASSUME NEW f \in Blocks, NEW b \in Blocks, NEW size \in Sizes, Create(f, b, size)
       PROVE  Stacks!Next
  <2>1. current \in Processes
    BY <1>0, <1>11 DEF Create
  <2>2. Stacks!Compute
    BY <1>11, <2>1, CreateMaps
  <2> QED
    BY <2>2 DEF Stacks!Next
<1>12. ASSUME NEW f \in Blocks, Wait(f)
       PROVE  Stacks!Next
  <2>1. current \in Processes
    BY <1>0, <1>12 DEF Wait
  <2>2. Stacks!Wait
    BY <1>12, <2>1, WaitMaps
  <2> QED
    BY <2>2 DEF Stacks!Next
<1>13. ASSUME NEW f \in Blocks, Return(f) \/ Unwind(f)
       PROVE  Stacks!Next
  <2>1. current \in Processes
    BY <1>0, <1>13 DEF Return, Unwind
  <2> QED
    BY <1>13, <2>1, EndMaps
<1>14. CASE UNCHANGED vars
  <2>1. frame' = frame /\ \A p \in Processes : Innermost(p)' = Innermost(p)
    BY <1>14 DEF vars, Innermost, IsAwaiting
  <2>2. AllCalls' = AllCalls
    BY <2>1, QuietCalls
  <2> QED
    BY <1>14, <2>2 DEF vars
<1> QED
  BY <1>1, <1>2, <1>3, <1>4, <1>5, <1>6, <1>7, <1>8, <1>9, <1>10, <1>11, <1>12, <1>13, <1>14 DEF Next

(***************************************************************************)
(* co_await of a task is a call (coro.h:10-13): Tasks implements CallStack. *)
(***************************************************************************)
THEOREM CallStackImplemented == Spec => IsCallStack
<1>1. IInv /\ IInv' /\ [Next]_vars => [Stacks!Next]_<<[p \in Processes |-> Calls(p)], current, raised, received>>
  BY StacksStep DEF AllCalls
<1>2. Spec => []IInv
  BY TasksCorrect
<1> QED
  BY StacksInit, <1>1, <1>2, PTL DEF Spec, IsCallStack, Stacks!Spec
==============================================================================
