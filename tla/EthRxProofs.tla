---------------------------- MODULE EthRxProofs ----------------------------
(***************************************************************************)
(* Reception of frames, for every size of ring and pool and all lengths of *)
(* frames: no pbuf is lost on the way in, the DMA and the driver keep to   *)
(* their own descriptors, and together they are a bounded queue.           *)
(*                                                                         *)
(* PbufsConserved is not inductive: what low_level_input allocates for and *)
(* what it copies are two reads of a buffer that the DMA also writes.      *)
(* They agree because the descriptor is not the DMA's in between (Measured)*)
(* and holds a frame (FilledWithFrames).                                   *)
(*                                                                         *)
(* FilledInOrder is not inductive either: it counts the descriptors that   *)
(* are filled, and a count does not say which.  The proof speaks of        *)
(* distances: a descriptor holds a frame that waits exactly if it is less  *)
(* than w places behind the driver's, and the DMA is w places behind it    *)
(* (InRow).  Each step changes w by one or not at all; that it never gets  *)
(* beyond N is what the OWN bit of the DMA's descriptor says.              *)
(***************************************************************************)
EXTENDS EthRx, FiniteSetTheorems, SequenceTheorems, TLAPS

\* Between IfxGeth_Eth_isRxDataAvailable and memcpy the descriptor stays with
\* the driver.
Measured == pc \in {"alloc", "copy"} => ~ OWN[rxDescrPtr]

\* A descriptor the DMA has given to the driver holds a frame.
FilledWithFrames == \A i \in Ring : ~ OWN[i] => buffer[i] \in Frames

\* So does the pbuf, from memcpy on.
CopiedFrame == pc \in {"own", "shuffle", "input"} => pbuf \in Frames

IInv == TypeOK /\ Measured /\ FilledWithFrames /\ CopiedFrame /\ PbufsConserved

\* A frame fills at least one pbuf and fits the pool.
LEMMA NeedRange == \A f \in Frames : Need[f] \in Nat /\ 1 <= Need[f] /\ Need[f] <= PoolSize
BY PoolAssumption

\* Positions in the ring stay in the ring.
LEMMA RingSteps ==
    ASSUME NEW i \in Ring
    PROVE  shuffle(i) \in Ring /\ (i + 1) % N \in Ring
<1>1. N \in Nat /\ N >= 2 /\ i \in 0 .. N - 1
  BY RingAssumption DEF Ring
<1>2. \A a \in Nat, n \in Nat \ {0} : a % n \in 0 .. n - 1
  OBVIOUS
<1>3. (i + 1) % N \in 0 .. N - 1
  BY <1>1, <1>2
<1>4. shuffle(i) \in 0 .. N - 1
  BY <1>1 DEF shuffle
<1> QED BY <1>3, <1>4 DEF Ring

\* After low_level_init.
LEMMA InitIInv == Init => IInv
<1> SUFFICES ASSUME Init PROVE IInv
  OBVIOUS
<1>1. 0 \in Ring
  BY RingAssumption DEF Ring
<1>2. PoolSize \in Nat
  BY PoolAssumption
<1>3. TypeOK
  BY <1>1, <1>2 DEF Init, TypeOK
<1>4. InHand = 0
  BY DEF Init, InHand
<1>5. PbufsConserved
  BY <1>2, <1>4 DEF Init, PbufsConserved
<1> QED BY <1>3, <1>5 DEF IInv, Init, Measured, FilledWithFrames, CopiedFrame

\* What is in the driver's hands is a number of pbufs.
LEMMA InHandRange == IInv => InHand \in Nat
<1> SUFFICES ASSUME IInv PROVE InHand \in Nat
  OBVIOUS
<1>1. CASE pc = "copy"
  <2>1. buffer[rxDescrPtr] \in Frames
    BY <1>1 DEF IInv, TypeOK, Measured, FilledWithFrames
  <2> QED BY <1>1, <2>1, NeedRange DEF InHand
<1>2. CASE pc \in {"own", "shuffle", "input"}
  <2>1. pbuf \in Frames
    BY <1>2 DEF IInv, CopiedFrame
  <2> QED BY <1>2, <2>1, NeedRange DEF InHand
<1>3. CASE pc \notin {"copy", "own", "shuffle", "input"}
  BY <1>3 DEF InHand
<1> QED BY <1>1, <1>2, <1>3

\* The DMA writes only to a descriptor of its own.
LEMMA ReceiveIInv == ASSUME IInv, NEW f \in Frames, Receive(f) PROVE IInv'
<1>1. /\ OWN[dma] /\ buffer' = [buffer EXCEPT ![dma] = f]
      /\ OWN' = [OWN EXCEPT ![dma] = FALSE]
      /\ dma' = (dma + 1) % N
      /\ UNCHANGED <<rxDescrPtr, pc, pbuf, pool, held, drops>>
  BY DEF Receive
<1>2. /\ OWN \in [Ring -> BOOLEAN] /\ buffer \in [Ring -> Frames \cup {None}]
      /\ dma \in Ring /\ rxDescrPtr \in Ring
  BY DEF IInv, TypeOK
<1>3. TypeOK'
  <2>1. dma' \in Ring
    BY <1>1, <1>2, RingSteps
  <2> QED BY <1>1, <1>2, <2>1 DEF IInv, TypeOK
<1>4. Measured'
  BY <1>1, <1>2 DEF IInv, Measured
<1>5. FilledWithFrames'
  BY <1>1, <1>2 DEF IInv, FilledWithFrames
<1>6. CopiedFrame'
  BY <1>1 DEF IInv, CopiedFrame
<1>7. InHand' = InHand
  <2>1. pc = "copy" => rxDescrPtr # dma
    BY <1>1 DEF IInv, Measured
  <2>2. pc = "copy" => buffer'[rxDescrPtr] = buffer[rxDescrPtr]
    BY <1>1, <1>2, <2>1
  <2> QED BY <1>1, <2>2 DEF InHand
<1>8. PbufsConserved'
  BY <1>1, <1>7 DEF IInv, PbufsConserved
<1> QED BY <1>3, <1>4, <1>5, <1>6, <1>8 DEF IInv

\* Counters of pbufs that make up the pool together do not exceed it.
LEMMA Bounded ==
    ASSUME NEW a \in Nat, NEW b \in Nat, NEW c \in Nat, a + b + c = PoolSize
    PROVE  {a, b} \subseteq 0 .. PoolSize
<1>1. a <= PoolSize /\ b <= PoolSize /\ PoolSize \in Nat
  BY PoolAssumption
<1>2. a \in 0 .. PoolSize /\ b \in 0 .. PoolSize
  BY <1>1
<1> QED BY <1>2

\* pbuf_alloc, for the frame in the driver's descriptor.
LEMMA AllocIInv == ASSUME IInv, Alloc PROVE IInv'
<1> DEFINE n == Need[buffer[rxDescrPtr]]
<1>1. pc = "alloc" /\ UNCHANGED <<OWN, buffer, dma, rxDescrPtr, pbuf, held, drops>>
  BY DEF Alloc
<1>2. n \in Nat /\ 1 <= n
  <2>1. buffer[rxDescrPtr] \in Frames
    BY <1>1 DEF IInv, TypeOK, Measured, FilledWithFrames
  <2> QED BY <2>1, NeedRange
<1>3. pool \in Nat /\ held \in Nat /\ pool + held = PoolSize
  BY <1>1, PoolAssumption DEF IInv, TypeOK, PbufsConserved, InHand
<1>4. Measured' /\ FilledWithFrames' /\ CopiedFrame'
  BY <1>1 DEF Alloc, IInv, Measured, FilledWithFrames, CopiedFrame
<1>5. CASE pool >= n /\ pool' = pool - n /\ pc' = "copy"
  <2>1. InHand' = n
    BY <1>1, <1>5 DEF InHand
  <2>2. pool' \in Nat /\ pool' + held + n = PoolSize
    BY <1>2, <1>3, <1>5
  <2>3. {pool', held'} \subseteq 0 .. PoolSize
    BY <1>1, <1>2, <1>3, <2>2, Bounded
  <2>4. TypeOK'
    BY <1>1, <1>5, <2>3 DEF IInv, TypeOK
  <2>5. PbufsConserved'
    BY <1>1, <2>1, <2>2 DEF PbufsConserved
  <2> QED BY <1>4, <2>4, <2>5 DEF IInv
<1>6. CASE pool < n /\ pc' = "idle" /\ pool' = pool
  <2>1. InHand' = 0
    BY <1>6 DEF InHand
  <2>2. TypeOK'
    BY <1>1, <1>6 DEF IInv, TypeOK
  <2>3. PbufsConserved'
    BY <1>1, <1>3, <1>6, <2>1 DEF PbufsConserved
  <2> QED BY <1>4, <2>2, <2>3 DEF IInv
<1> QED BY <1>5, <1>6 DEF Alloc

\* The steps of the driver that leave the pool alone.
LEMMA DriverIInv ==
    ASSUME IInv, Available \/ Copy \/ GiveBack \/ Shuffle
    PROVE  IInv'
<1>1. UNCHANGED <<buffer, dma, pool, held, drops>>
  BY DEF Available, Copy, GiveBack, Shuffle
<1>2. InHand' = InHand
  BY DEF Available, Copy, GiveBack, Shuffle, InHand
<1>3. PbufsConserved'
  BY <1>1, <1>2 DEF IInv, PbufsConserved
<1>4. CASE Available
  BY <1>3, <1>4 DEF Available, IInv, TypeOK, Measured, FilledWithFrames, CopiedFrame
<1>5. CASE Copy
  <2>1. pbuf' \in Frames
    BY <1>5 DEF Copy, IInv, TypeOK, Measured, FilledWithFrames
  <2> QED BY <1>3, <1>5, <2>1 DEF Copy, IInv, TypeOK, Measured, FilledWithFrames, CopiedFrame
<1>6. CASE GiveBack
  <2>1. OWN' = [OWN EXCEPT ![rxDescrPtr] = TRUE] /\ OWN \in [Ring -> BOOLEAN]
    BY <1>6 DEF GiveBack, IInv, TypeOK
  <2>2. FilledWithFrames'
    BY <1>1, <2>1 DEF IInv, FilledWithFrames
  <2>3. TypeOK' /\ Measured' /\ CopiedFrame'
    BY <1>6, <2>1 DEF GiveBack, IInv, TypeOK, Measured, CopiedFrame
  <2> QED BY <1>3, <2>2, <2>3 DEF IInv
<1>7. CASE Shuffle
  <2>1. rxDescrPtr' \in Ring
    BY <1>7, RingSteps DEF Shuffle, IInv, TypeOK
  <2> QED BY <1>3, <1>7, <2>1 DEF Shuffle, IInv, TypeOK, Measured, FilledWithFrames, CopiedFrame
<1> QED BY <1>4, <1>5, <1>6, <1>7

\* ifx_netif_input hands the pbufs over or frees them.
LEMMA InputIInv == ASSUME IInv, Input PROVE IInv'
<1>1. /\ pc = "input" /\ pc' = "idle" /\ pbuf' = None
      /\ UNCHANGED <<OWN, buffer, dma, rxDescrPtr, drops>>
  BY DEF Input
<1>2. InHand = Need[pbuf] /\ InHand' = 0 /\ Need[pbuf] \in Nat
  BY <1>1, NeedRange DEF InHand, IInv, CopiedFrame
<1>3. pool \in Nat /\ held \in Nat /\ pool + held + Need[pbuf] = PoolSize
  BY <1>2, PoolAssumption DEF IInv, TypeOK, PbufsConserved
<1>4. \/ pool' = pool /\ held' = held + Need[pbuf]
      \/ pool' = pool + Need[pbuf] /\ held' = held
  BY DEF Input
<1>5. pool' \in Nat /\ held' \in Nat /\ pool' + held' + 0 = PoolSize
  BY <1>2, <1>3, <1>4
<1>6. {pool', held'} \subseteq 0 .. PoolSize
  BY <1>5, Bounded
<1>7. TypeOK'
  BY <1>1, <1>6 DEF IInv, TypeOK
<1>8. PbufsConserved'
  BY <1>2, <1>5 DEF PbufsConserved
<1> QED BY <1>1, <1>7, <1>8 DEF IInv, Measured, FilledWithFrames, CopiedFrame

\* The stack frees a pbuf.
LEMMA ReleaseIInv == ASSUME IInv, Release PROVE IInv'
<1>1. /\ pc = "idle" /\ held > 0 /\ held' = held - 1 /\ pool' = pool + 1
      /\ UNCHANGED <<OWN, buffer, dma, rxDescrPtr, pc, pbuf, drops>>
  BY DEF Release
<1>2. InHand = 0 /\ InHand' = 0
  BY <1>1 DEF InHand
<1>3. pool' \in Nat /\ held' \in Nat /\ pool' + held' + 0 = PoolSize
  BY <1>1, <1>2, PoolAssumption DEF IInv, TypeOK, PbufsConserved
<1>4. {pool', held'} \subseteq 0 .. PoolSize
  BY <1>3, Bounded
<1>5. TypeOK'
  BY <1>1, <1>4 DEF IInv, TypeOK
<1>6. PbufsConserved'
  BY <1>2, <1>3 DEF PbufsConserved
<1> QED BY <1>1, <1>5, <1>6 DEF IInv, Measured, FilledWithFrames, CopiedFrame

\* The DMA finds no descriptor.
LEMMA MissIInv == ASSUME IInv, Miss PROVE IInv'
<1>1. TypeOK'
  BY DEF Miss, IInv, TypeOK
<1>2. InHand' = InHand
  BY DEF Miss, InHand
<1> QED BY <1>1, <1>2 DEF Miss, IInv, Measured, FilledWithFrames, CopiedFrame, PbufsConserved

\* The invariant holds in every state.
LEMMA StepIInv == IInv /\ [Next]_vars => IInv'
<1> SUFFICES ASSUME IInv, [Next]_vars PROVE IInv'
  OBVIOUS
<1>1. CASE UNCHANGED vars
  <2>1. InHand' = InHand
    BY <1>1 DEF vars, InHand
  <2> QED BY <1>1, <2>1
          DEF vars, IInv, TypeOK, Measured, FilledWithFrames, CopiedFrame, PbufsConserved
<1> QED BY <1>1, ReceiveIInv, MissIInv, AllocIInv, DriverIInv, InputIInv, ReleaseIInv
        DEF Next, MainLoop

LEMMA Inductive == Spec => []IInv
BY InitIInv, StepIInv, PTL DEF Spec

\* Types, and with them the bounds of pool and stack.
THEOREM TypeCorrect == Spec => []TypeOK
BY Inductive, PTL DEF IInv

\* Nothing keeps a pbuf on the way in, and the frame that low_level_input has
\* measured is the one it copies.
THEOREM PbufsConservedHolds == Spec => []PbufsConserved
BY Inductive, PTL DEF IInv

-----------------------------------------------------------------------------
(* The ring.                                                               *)

\* The place k behind f, going round the ring, and how far behind f place i is.
Place(f, k) == IF f + k < N THEN f + k ELSE f + k - N
Distance(f, i) == IF i >= f THEN i - f ELSE i - f + N

\* The w places from f on.
Row(f, w) == {i \in Ring : Distance(f, i) < w}

\* What is assumed of the ring, in one place.
LEMMA RingIs == Ring = 0 .. N - 1 /\ N \in Nat /\ N >= 2 /\ IsFiniteSet(Ring)
BY RingAssumption, FS_Interval DEF Ring

\* Adding on a clock face of n hours.
LEMMA ClockFace ==
    \A n \in Nat \ {0} : \A a \in 0 .. n - 1, k \in 0 .. n - 1 :
        (a + k) % n = IF a + k < n THEN a + k ELSE a + k - n
OBVIOUS

LEMMA FullTurn == \A n \in Nat \ {0} : \A a \in 0 .. n - 1 : (a + n) % n = a
OBVIOUS

\* The remainders of EthRx are places.
LEMMA PlaceIsRemainder ==
    ASSUME NEW f \in Ring, NEW k \in 0 .. N
    PROVE  (f + k) % N = Place(f, k) /\ Place(f, k) \in Ring
<1>1. N \in Nat \ {0} /\ f \in 0 .. N - 1
  BY RingIs
<1>2. CASE k = N
  <2>1. (f + N) % N = f
    BY <1>1, FullTurn
  <2> QED BY <1>1, <1>2, <2>1, RingIs DEF Place
<1>3. CASE k # N
  <2>1. k \in 0 .. N - 1
    BY <1>1, <1>3
  <2>2. (f + k) % N = IF f + k < N THEN f + k ELSE f + k - N
    BY <1>1, <2>1, ClockFace
  <2> QED BY <1>1, <2>1, <2>2, RingIs DEF Place
<1> QED BY <1>2, <1>3

\* Distance undoes Place.
LEMMA PlaceDistance ==
    ASSUME NEW f \in Ring
    PROVE  /\ \A k \in 0 .. N - 1 : Distance(f, Place(f, k)) = k
           /\ \A i \in Ring : Distance(f, i) \in 0 .. N - 1 /\ Place(f, Distance(f, i)) = i
BY RingIs DEF Place, Distance

\* A row has as many places as it says.
LEMMA RowSize ==
    ASSUME NEW f \in Ring, NEW w \in 0 .. N
    PROVE  /\ Row(f, w) = {(f + k) % N : k \in 0 .. w - 1}
           /\ IsFiniteSet(Row(f, w)) /\ Cardinality(Row(f, w)) = w
<1>1. w \in Nat /\ w <= N /\ N \in Nat
  BY RingIs
<1>2. \A k \in 0 .. w - 1 : k \in 0 .. N - 1 /\ k \in 0 .. N
  BY <1>1
<1>3. ASSUME NEW k \in 0 .. w - 1
      PROVE  (f + k) % N = Place(f, k) /\ Place(f, k) \in Row(f, w)
  <2>1. k \in 0 .. N /\ k \in 0 .. N - 1 /\ k < w
    BY <1>1, <1>2
  <2>2. (f + k) % N = Place(f, k) /\ Place(f, k) \in Ring
    BY <2>1, PlaceIsRemainder
  <2>3. Distance(f, Place(f, k)) = k
    BY <2>1, PlaceDistance
  <2> QED BY <2>1, <2>2, <2>3 DEF Row
<1>4. ASSUME NEW i \in Row(f, w)
      PROVE  Distance(f, i) \in 0 .. w - 1 /\ Place(f, Distance(f, i)) = i
  <2>1. i \in Ring /\ Distance(f, i) < w
    BY DEF Row
  <2> QED BY <1>1, <2>1, PlaceDistance
<1>5. Row(f, w) = {(f + k) % N : k \in 0 .. w - 1}
  <2>1. ASSUME NEW i \in Row(f, w) PROVE \E k \in 0 .. w - 1 : i = (f + k) % N
    BY <1>3, <1>4
  <2> QED BY <1>3, <2>1
<1> DEFINE g == [k \in 0 .. w - 1 |-> Place(f, k)]
<1>6. g \in Bijection(0 .. w - 1, Row(f, w))
  <2>1. g \in [0 .. w - 1 -> Row(f, w)]
    BY <1>3
  <2>2. ASSUME NEW a \in 0 .. w - 1, NEW b \in 0 .. w - 1, g[a] = g[b] PROVE a = b
    <3>1. Place(f, a) = Place(f, b)
      BY <2>2
    <3>2. Distance(f, Place(f, a)) = a /\ Distance(f, Place(f, b)) = b
      BY <1>2, PlaceDistance
    <3> QED BY <3>1, <3>2
  <2>3. \A i \in Row(f, w) : \E k \in 0 .. w - 1 : g[k] = i
    BY <1>4
  <2> QED BY <2>1, <2>2, <2>3 DEF Bijection, Injection, Surjection, IsInjective
<1>7. ExistsBijection(0 .. w - 1, Row(f, w))
  BY <1>6 DEF ExistsBijection
<1>8. IsFiniteSet(0 .. w - 1) /\ Cardinality(0 .. w - 1) = w
  <2>1. IsFiniteSet(0 .. w - 1) /\ Cardinality(0 .. w - 1) = IF 0 > w - 1 THEN 0 ELSE w - 1 - 0 + 1
    BY <1>1, FS_Interval
  <2> QED BY <1>1, <2>1
<1> QED BY <1>5, <1>7, <1>8, FS_Bijection

\* The place of the driver is not the DMA's until it is given back.
Has == pc \in {"alloc", "copy", "own"} => ~ OWN[rxDescrPtr]

\* There is no frame in hand before memcpy.
EmptyHanded == pc \in {"idle", "alloc", "copy"} => pbuf = None

\* A descriptor that waits to be given back: its frame has been copied.
Copied(i) == pc = "own" /\ i = rxDescrPtr

\* The frames that wait are in w places in a row, up to the DMA's.
InRow(w) ==
    /\ dma = Place(First, w)
    /\ \A i \in Ring : ~ OWN[i] /\ ~ Copied(i) <=> Distance(First, i) < w

OrderInv == IInv /\ Has /\ EmptyHanded /\ \E w \in 0 .. N : InRow(w)

\* shuffle goes to the next place.
LEMMA ShuffleIsPlace ==
    ASSUME NEW i \in Ring
    PROVE  /\ shuffle(i) = Place(i, 1) /\ shuffle(i) \in Ring
           /\ Distance(shuffle(i), i) = N - 1
           /\ \A k \in 0 .. N - 1 : Place(shuffle(i), k) = Place(i, k + 1)
           /\ \A j \in Ring \ {i} : Distance(shuffle(i), j) = Distance(i, j) - 1
BY RingIs DEF shuffle, Place, Distance

\* How places follow one another.
LEMMA Places ==
    ASSUME NEW f \in Ring
    PROVE  /\ Place(f, 0) = f /\ Place(f, N) = f /\ Distance(f, f) = 0
           /\ \A k \in 0 .. N : Place(f, k) \in Ring
           /\ \A k \in 0 .. N - 1 : (Place(f, k) + 1) % N = Place(f, k + 1)
           /\ \A i \in Ring, k \in 0 .. N - 1 : i # Place(f, k) => Distance(f, i) # k
<1>1. /\ Place(f, 0) = f /\ Place(f, N) = f /\ Distance(f, f) = 0
      /\ \A k \in 0 .. N : Place(f, k) \in Ring
      /\ \A i \in Ring, k \in 0 .. N - 1 : i # Place(f, k) => Distance(f, i) # k
  BY RingIs DEF Place, Distance
<1>2. ASSUME NEW k \in 0 .. N - 1 PROVE (Place(f, k) + 1) % N = Place(f, k + 1)
  <2>1. PICK p \in Ring : p = Place(f, k)
    BY <1>1, RingIs
  <2>2. 1 \in 0 .. N
    BY RingIs
  <2>3. (p + 1) % N = Place(p, 1)
    BY <2>2, PlaceIsRemainder
  <2>4. Place(p, 1) = Place(f, k + 1)
    BY <2>1, RingIs DEF Place
  <2> QED BY <2>1, <2>3, <2>4
<1> QED BY <1>1, <1>2

\* Where the driver's row begins is a place of the ring.
LEMMA FirstInRing == ASSUME TypeOK PROVE First \in Ring
BY ShuffleIsPlace DEF First, TypeOK

\* The length of a row is what its places say.
LEMMA RowLength ==
    ASSUME NEW f \in Ring, NEW v \in 0 .. N, NEW w \in 0 .. N,
           \A i \in Ring : Distance(f, i) < v <=> Distance(f, i) < w
    PROVE  v = w
<1>1. ASSUME NEW a \in 0 .. N, NEW b \in 0 .. N, a < b,
             \A i \in Ring : Distance(f, i) < a <=> Distance(f, i) < b
      PROVE  FALSE
  <2>1. a \in 0 .. N - 1 /\ a \in 0 .. N
    BY <1>1, RingIs
  <2>2. Place(f, a) \in Ring /\ Distance(f, Place(f, a)) = a
    BY <2>1, PlaceDistance, PlaceIsRemainder
  <2> QED BY <1>1, <2>2
<1> QED BY <1>1, RingIs

\* WaitingCount counts the row.
LEMMA CountIsLength ==
    ASSUME TypeOK, Has, NEW w \in 0 .. N, InRow(w)
    PROVE  /\ WaitingCount = w
           /\ Filled \ (IF pc = "own" THEN {rxDescrPtr} ELSE {}) = Row(First, w)
<1>1. First \in Ring /\ rxDescrPtr \in Ring /\ w \in Nat
  BY FirstInRing, RingIs DEF TypeOK
<1> DEFINE R == Row(First, w)
<1>2. IsFiniteSet(R) /\ Cardinality(R) = w
  BY <1>1, RowSize
<1>3. \A i \in Ring : i \in R <=> ~ OWN[i] /\ ~ Copied(i)
  BY DEF Row, InRow
<1>4. R \subseteq Ring
  BY DEF Row
<1> HIDE DEF R
<1>5. CASE pc = "own"
  <2>1. Filled = R \cup {rxDescrPtr} /\ rxDescrPtr \notin R
    BY <1>1, <1>3, <1>4, <1>5 DEF Filled, Has, Copied
  <2>2. Cardinality(Filled) = w + 1
    BY <1>2, <2>1, FS_AddElement
  <2>3. WaitingCount = w
    BY <1>1, <1>5, <2>2 DEF WaitingCount
  <2> QED BY <1>5, <2>1, <2>3 DEF R
<1>6. CASE pc # "own"
  <2>1. Filled = R
    BY <1>3, <1>4, <1>6 DEF Filled, Copied
  <2>2. WaitingCount = w
    BY <1>1, <1>2, <1>6, <2>1 DEF WaitingCount
  <2> QED BY <1>6, <2>1, <2>2 DEF R
<1> QED BY <1>5, <1>6

\* What OrderInv says of the state, with the count of FilledInOrder.
LEMMA CountInRow == OrderInv => WaitingCount \in 0 .. N /\ InRow(WaitingCount) /\ FilledInOrder
<1> SUFFICES ASSUME OrderInv PROVE WaitingCount \in 0 .. N /\ InRow(WaitingCount) /\ FilledInOrder
  OBVIOUS
<1>1. PICK w \in 0 .. N : InRow(w)
  BY DEF OrderInv
<1>2. TypeOK /\ Has /\ First \in Ring
  BY FirstInRing DEF OrderInv, IInv
<1>3. /\ WaitingCount = w
      /\ Filled \ (IF pc = "own" THEN {rxDescrPtr} ELSE {}) = Row(First, w)
  BY <1>1, <1>2, CountIsLength
<1>4. Row(First, w) = {(First + k) % N : k \in 0 .. w - 1}
  BY <1>2, RowSize
<1>5. dma = (First + w) % N
  BY <1>1, <1>2, PlaceIsRemainder DEF InRow
<1> QED BY <1>1, <1>3, <1>4, <1>5 DEF FilledInOrder

\* After low_level_init nothing waits.
LEMMA InitOrder == Init => OrderInv
<1> SUFFICES ASSUME Init PROVE OrderInv
  OBVIOUS
<1>1. IInv
  BY InitIInv
<1>2. Has /\ EmptyHanded
  BY DEF Init, Has, EmptyHanded
<1>3. InRow(0)
  <2>1. First = 0 /\ dma = 0 /\ 0 \in Ring /\ pc = "idle"
    BY RingIs DEF Init, First
  <2>2. dma = Place(First, 0)
    BY <2>1, Places
  <2>3. \A i \in Ring : OWN[i] /\ ~ (Distance(First, i) < 0)
    BY <2>1, PlaceDistance, RingIs DEF Init
  <2> QED BY <2>2, <2>3 DEF InRow
<1> QED BY <1>1, <1>2, <1>3, RingIs DEF OrderInv

\* The DMA's descriptor is free only if the row is not all of the ring, nor all
\* but the descriptor that waits to be given back.
LEMMA RoomForOne ==
    ASSUME TypeOK, Has, NEW w \in 0 .. N, InRow(w), OWN[dma]
    PROVE  w < N /\ ~ Copied(dma) /\ Distance(First, dma) = w
<1>1. First \in Ring /\ dma \in Ring /\ N \in Nat /\ N >= 2
  BY FirstInRing, RingIs DEF TypeOK
<1>2. ~ Copied(dma)
  BY DEF Has, Copied
<1>3. ~ (Distance(First, dma) < w)
  BY <1>1 DEF InRow
<1>4. Distance(First, dma) \in 0 .. N - 1
  BY <1>1, PlaceDistance
<1>5. w < N
  BY <1>1, <1>3, <1>4
<1>6. Distance(First, Place(First, w)) = w
  BY <1>1, <1>5, PlaceDistance
<1> QED BY <1>2, <1>5, <1>6 DEF InRow

\* It is in use only if the row is.
LEMMA NoRoom ==
    ASSUME TypeOK, NEW w \in 0 .. N, InRow(w), ~ OWN[dma]
    PROVE  w >= N - 1
<1>1. First \in Ring /\ dma \in Ring /\ N \in Nat /\ N >= 2 /\ w \in Nat
  BY FirstInRing, RingIs DEF TypeOK
<1>2. CASE w < N - 1
  <2>1. Distance(First, dma) = w
    BY <1>1, <1>2, PlaceDistance DEF InRow
  <2>2. Copied(dma)
    BY <1>1, <2>1 DEF InRow
  <2>3. First = shuffle(dma) /\ Distance(First, dma) = N - 1
    BY <1>1, <2>2, ShuffleIsPlace DEF Copied, First
  <2> QED BY <1>1, <1>2, <2>1, <2>3
<1> QED BY <1>1, <1>2

\* A frame received is the last of the row.
LEMMA ReceiveOrder ==
    ASSUME OrderInv, NEW w \in 0 .. N, InRow(w), NEW f \in Frames, Receive(f)
    PROVE  w < N /\ InRow(w + 1)' /\ Has' /\ EmptyHanded' /\ First' = First
<1>1. TypeOK /\ Has /\ EmptyHanded
  BY DEF OrderInv, IInv
<1>2. /\ OWN[dma] /\ OWN' = [OWN EXCEPT ![dma] = FALSE] /\ dma' = (dma + 1) % N
      /\ UNCHANGED <<rxDescrPtr, pc, pbuf>>
  BY DEF Receive
<1>3. w < N /\ ~ Copied(dma) /\ Distance(First, dma) = w
  BY <1>1, <1>2, RoomForOne
<1>4. First' = First
  BY <1>2 DEF First
<1>5. First \in Ring /\ dma \in Ring /\ OWN \in [Ring -> BOOLEAN] /\ rxDescrPtr \in Ring
  BY <1>1, FirstInRing DEF TypeOK
<1>6. dma = Place(First, w) /\ w \in 0 .. N - 1
  BY <1>3, RingIs DEF InRow
<1>7. dma' = Place(First, w + 1)
  BY <1>2, <1>5, <1>6, Places
<1>8. ASSUME NEW i \in Ring
      PROVE  (~ OWN'[i] /\ ~ Copied(i)') <=> Distance(First, i) < w + 1
  <2>1. Copied(i)' <=> Copied(i)
    BY <1>2 DEF Copied
  <2>2. CASE i = dma
    BY <1>2, <1>3, <1>5, <1>6, <2>1, <2>2
  <2>3. CASE i # dma
    <3>1. OWN'[i] = OWN[i]
      BY <1>2, <1>5, <2>3
    <3>2. Distance(First, i) # w
      BY <1>5, <1>6, <2>3, Places
    <3>3. Distance(First, i) \in Int
      BY <1>5, PlaceDistance
    <3>4. Distance(First, i) < w + 1 <=> Distance(First, i) < w
      BY <1>6, <3>2, <3>3
    <3> QED BY <2>1, <3>1, <3>4 DEF InRow
  <2> QED BY <2>2, <2>3
<1>9. InRow(w + 1)'
  BY <1>4, <1>7, <1>8 DEF InRow
<1>10. Has' /\ EmptyHanded'
  BY <1>1, <1>2, <1>5 DEF Has, EmptyHanded
<1> QED BY <1>3, <1>4, <1>9, <1>10

\* The frame copied is the first of the row.
LEMMA CopyOrder ==
    ASSUME OrderInv, NEW w \in 0 .. N, InRow(w), Copy
    PROVE  /\ w >= 1 /\ InRow(w - 1)' /\ Has' /\ EmptyHanded'
           /\ First = rxDescrPtr /\ First' = shuffle(rxDescrPtr)
<1>1. TypeOK /\ Has /\ EmptyHanded
  BY DEF OrderInv, IInv
<1>2. /\ pc = "copy" /\ pc' = "own" /\ UNCHANGED <<OWN, dma, rxDescrPtr>>
  BY DEF Copy
<1>3. First = rxDescrPtr /\ First' = shuffle(rxDescrPtr) /\ rxDescrPtr \in Ring
  BY <1>1, <1>2 DEF First, TypeOK
<1> DEFINE p == rxDescrPtr
           q == shuffle(rxDescrPtr)
<1>4. ~ OWN[p] /\ ~ Copied(p)
  BY <1>1, <1>2 DEF Has, Copied
<1>5. Distance(p, p) < w
  BY <1>3, <1>4 DEF InRow
<1>6. w >= 1 /\ w - 1 \in 0 .. N - 1
  BY <1>3, <1>5, Places, RingIs
<1>7. dma' = Place(q, w - 1)
  <2>1. dma = Place(p, w) /\ (w - 1) + 1 = w
    BY <1>3, <1>6 DEF InRow
  <2>2. Place(q, w - 1) = Place(p, (w - 1) + 1)
    BY <1>3, <1>6, ShuffleIsPlace
  <2> QED BY <1>2, <2>1, <2>2
<1>8. ASSUME NEW i \in Ring
      PROVE  (~ OWN'[i] /\ ~ Copied(i)') <=> Distance(q, i) < w - 1
  <2>1. CASE i = p
    <3>1. Copied(i)'
      BY <1>2, <2>1 DEF Copied
    <3>2. Distance(q, i) = N - 1
      BY <1>3, <2>1, ShuffleIsPlace
    <3> QED BY <1>6, <3>1, <3>2, RingIs
  <2>2. CASE i # p
    <3>1. ~ Copied(i) /\ ~ Copied(i)' /\ OWN'[i] = OWN[i]
      BY <1>2, <2>2 DEF Copied
    <3>2. Distance(q, i) = Distance(p, i) - 1 /\ Distance(p, i) \in Int
      BY <1>3, <2>2, ShuffleIsPlace, PlaceDistance
    <3>3. Distance(q, i) < w - 1 <=> Distance(p, i) < w
      BY <1>6, <3>2, RingIs
    <3> QED BY <1>3, <3>1, <3>3 DEF InRow
  <2> QED BY <2>1, <2>2
<1>9. InRow(w - 1)'
  BY <1>3, <1>7, <1>8 DEF InRow
<1>10. Has' /\ EmptyHanded'
  BY <1>1, <1>2 DEF Has, EmptyHanded
<1> QED BY <1>3, <1>6, <1>9, <1>10

\* No other step changes the row.
Others == Miss \/ Release \/ Available \/ Alloc \/ GiveBack \/ Shuffle \/ Input

LEMMA OthersOrder ==
    ASSUME OrderInv, NEW w \in 0 .. N, InRow(w), Others
    PROVE  /\ InRow(w)' /\ Has' /\ EmptyHanded' /\ First' = First
           /\ buffer' = buffer
<1>1. TypeOK /\ Has /\ EmptyHanded
  BY DEF OrderInv, IInv
<1>2. OWN \in [Ring -> BOOLEAN] /\ rxDescrPtr \in Ring
  BY <1>1 DEF TypeOK
<1>3. dma' = dma /\ buffer' = buffer
  BY DEF Others, Miss, Release, Available, Alloc, GiveBack, Shuffle, Input
<1>4. First' = First
  BY DEF Others, Miss, Release, Available, Alloc, GiveBack, Shuffle, Input, First
<1>5. ASSUME NEW i \in Ring
      PROVE  (~ OWN'[i] /\ ~ Copied(i)') <=> (~ OWN[i] /\ ~ Copied(i))
  <2>1. CASE GiveBack
    <3>1. /\ pc = "own" /\ pc' = "shuffle" /\ rxDescrPtr' = rxDescrPtr
          /\ OWN' = [OWN EXCEPT ![rxDescrPtr] = TRUE]
      BY <2>1 DEF GiveBack
    <3> QED BY <1>2, <3>1 DEF Copied
  <2>2. CASE Miss \/ Release \/ Available \/ Alloc \/ Shuffle \/ Input
    <3>1. \/ OWN' = OWN /\ pc # "own" /\ pc' # "own"
          \/ UNCHANGED <<OWN, pc, rxDescrPtr>>
      BY <2>2 DEF Miss, Release, Available, Alloc, Shuffle, Input
    <3> QED BY <3>1 DEF Copied
  <2> QED BY <2>1, <2>2 DEF Others
<1>6. InRow(w)'
  BY <1>3, <1>4, <1>5 DEF InRow
<1>7. Has' /\ EmptyHanded'
  <2>1. CASE Miss \/ Release
    BY <1>1, <2>1 DEF Miss, Release, Has, EmptyHanded
  <2>2. CASE Available
    BY <1>1, <2>2 DEF Available, Has, EmptyHanded
  <2>3. CASE Alloc
    BY <1>1, <2>3 DEF Alloc, Has, EmptyHanded
  <2>4. CASE GiveBack \/ Shuffle \/ Input
    BY <1>1, <2>4 DEF GiveBack, Shuffle, Input, Has, EmptyHanded
  <2> QED BY <2>1, <2>2, <2>3, <2>4 DEF Others
<1> QED BY <1>3, <1>4, <1>6, <1>7

\* The invariant of the ring holds in every state.
LEMMA OrderInductive == Spec => []OrderInv
<1>1. IInv /\ [Next]_vars => IInv'
  BY StepIInv
<1>2. OrderInv /\ [Next]_vars => OrderInv'
  <2> SUFFICES ASSUME OrderInv, [Next]_vars PROVE OrderInv'
    OBVIOUS
  <2>1. IInv'
    BY <1>1 DEF OrderInv
  <2>2. PICK w \in 0 .. N : InRow(w)
    BY DEF OrderInv
  <2>3. ASSUME NEW f \in Frames, Receive(f) PROVE OrderInv'
    <3>1. w + 1 \in 0 .. N
      BY <2>2, <2>3, ReceiveOrder, RingIs
    <3> QED BY <2>1, <2>2, <2>3, <3>1, ReceiveOrder DEF OrderInv
  <2>4. CASE Copy
    <3>1. w - 1 \in 0 .. N
      BY <2>2, <2>4, CopyOrder, RingIs
    <3> QED BY <2>1, <2>2, <2>4, <3>1, CopyOrder DEF OrderInv
  <2>5. CASE Others
    BY <2>1, <2>2, <2>5, OthersOrder DEF OrderInv
  <2>6. CASE UNCHANGED vars
    <3>1. First' = First
      BY <2>6 DEF vars, First
    <3>2. InRow(w)'
      BY <2>2, <2>6, <3>1 DEF vars, InRow, Copied
    <3>3. Has' /\ EmptyHanded'
      BY <2>6 DEF vars, OrderInv, Has, EmptyHanded
    <3> QED BY <2>1, <3>2, <3>3 DEF OrderInv
  <2> QED BY <2>3, <2>4, <2>5, <2>6 DEF Next, MainLoop, Others
<1> QED BY <1>2, InitOrder, PTL DEF Spec

\* The DMA and the driver keep to their own descriptors.
THEOREM FilledInOrderHolds == Spec => []FilledInOrder
BY OrderInductive, CountInRow, PTL

-----------------------------------------------------------------------------
(* The ring as a queue.                                                    *)

\* The frames that wait, in the places of the row.
Lies(s, w) ==
    /\ s \in Seq(Frames) /\ Len(s) = w
    /\ \A k \in 1 .. w : s[k] = buffer[Place(First, k - 1)]

LEMMA WaitingLies == OrderInv => Lies(Waiting, WaitingCount)
<1> SUFFICES ASSUME OrderInv PROVE Lies(Waiting, WaitingCount)
  OBVIOUS
<1>1. /\ TypeOK /\ FilledWithFrames /\ First \in Ring
      /\ WaitingCount \in 0 .. N /\ InRow(WaitingCount)
  BY CountInRow, FirstInRing DEF OrderInv, IInv
<1>2. PICK w \in 0 .. N : w = WaitingCount
  BY <1>1
<1>3. w \in Nat /\ w <= N
  BY RingIs
<1>4. ASSUME NEW k \in 1 .. w
      PROVE  /\ (First + k - 1) % N = Place(First, k - 1)
             /\ buffer[Place(First, k - 1)] \in Frames
  <2>1. PICK j \in 0 .. N - 1 : j = k - 1
    BY <1>3, RingIs
  <2>2. First + k - 1 = First + j
    BY <1>1, <2>1, RingIs
  <2>3. (First + j) % N = Place(First, j) /\ Place(First, j) \in Ring
    <3>1. j \in 0 .. N
      BY <1>3, <2>1, RingIs
    <3> QED BY <1>1, <3>1, PlaceIsRemainder
  <2>4. Distance(First, Place(First, j)) = j /\ j < w
    BY <1>1, <1>3, <2>1, PlaceDistance
  <2>5. ~ OWN[Place(First, j)]
    BY <1>1, <1>2, <2>3, <2>4 DEF InRow
  <2> QED BY <1>1, <2>1, <2>2, <2>3, <2>5 DEF FilledWithFrames
<1>5. Waiting = [k \in 1 .. w |-> buffer[Place(First, k - 1)]]
  BY <1>2, <1>4 DEF Waiting
<1>6. Waiting \in Seq(Frames) /\ Len(Waiting) = w
  <2>1. Waiting \in [1 .. w -> Frames]
    BY <1>4, <1>5
  <2> QED BY <1>3, <2>1
<1> QED BY <1>2, <1>5, <1>6 DEF Lies

LEMMA RowFirst == OrderInv => First \in Ring
BY FirstInRing DEF OrderInv, IInv

\* The next state in the words of this one.
LEMMA NextRow ==
    ASSUME OrderInv', NEW w \in 0 .. N, InRow(w)'
    PROVE  WaitingCount' = w
<1>1. (WaitingCount \in 0 .. N /\ InRow(WaitingCount) /\ FilledInOrder)'
  BY CountInRow, PTL
<1>2. (First \in Ring)'
  BY RowFirst, PTL
<1>3. PICK v \in 0 .. N : v = WaitingCount'
  BY <1>1
<1>4. \A i \in Ring : Distance(First', i) < v <=> Distance(First', i) < w
  BY <1>1, <1>3 DEF InRow
<1>5. v = w
  BY <1>2, <1>4, RowLength
<1> QED BY <1>3, <1>5

LEMMA NextLies ==
    ASSUME OrderInv', NEW w \in 0 .. N, InRow(w)'
    PROVE  Lies(Waiting, w)'
<1>1. WaitingCount' = w
  BY NextRow
<1>2. Lies(Waiting, WaitingCount)'
  BY WaitingLies, PTL
<1> QED BY <1>1, <1>2 DEF Lies

\* Receive appends the frame to the queue.
LEMMA ReceiveArrives ==
    ASSUME OrderInv, OrderInv', NEW f \in Frames, Receive(f)
    PROVE  Fifo!Arrive
<1>1. PICK w \in 0 .. N : w = WaitingCount /\ InRow(w)
  BY CountInRow
<1>2. /\ w < N /\ InRow(w + 1)' /\ First' = First /\ First \in Ring /\ TypeOK
  BY <1>1, ReceiveOrder, FirstInRing DEF OrderInv, IInv
<1>3. w + 1 \in 0 .. N /\ w \in 0 .. N - 1 /\ w \in Nat
  BY <1>2, RingIs
<1>4. Lies(Waiting, w)
  BY <1>1, WaitingLies
<1>5. Lies(Waiting, w + 1)'
  BY <1>2, <1>3, NextLies
<1> DEFINE s == Waiting
           t == Waiting'
<1>6. /\ s \in Seq(Frames) /\ Len(s) = w
      /\ \A k \in 1 .. w : s[k] = buffer[Place(First, k - 1)]
  BY <1>4 DEF Lies
<1>7. /\ t \in Seq(Frames) /\ Len(t) = w + 1
      /\ \A k \in 1 .. w + 1 : t[k] = buffer'[Place(First, k - 1)]
  BY <1>2, <1>5 DEF Lies
<1> HIDE DEF s, t
<1>8. buffer' = [buffer EXCEPT ![dma] = f] /\ buffer \in [Ring -> Frames \cup {None}]
      /\ dma = Place(First, w) /\ dma \in Ring
  BY <1>1, <1>2 DEF Receive, TypeOK, InRow
<1>9. ASSUME NEW k \in 1 .. w PROVE t[k] = s[k]
  <2>1. k - 1 \in 0 .. N - 1 /\ k \in 1 .. w + 1 /\ k - 1 # w
    BY <1>3, RingIs
  <2>2. Place(First, k - 1) \in Ring /\ Place(First, k - 1) # dma
    <3>1. Distance(First, Place(First, k - 1)) = k - 1 /\ Distance(First, Place(First, w)) = w
      BY <1>2, <1>3, <2>1, PlaceDistance
    <3>2. k - 1 \in 0 .. N
      BY <2>1, RingIs
    <3> QED BY <1>2, <1>8, <2>1, <3>1, <3>2, PlaceIsRemainder
  <2>3. buffer'[Place(First, k - 1)] = buffer[Place(First, k - 1)]
    BY <1>8, <2>2
  <2> QED BY <1>6, <1>7, <2>1, <2>3
<1>10. t[w + 1] = f
  <2>1. w + 1 \in 1 .. w + 1 /\ (w + 1) - 1 = w
    BY <1>3
  <2>2. t[w + 1] = buffer'[dma]
    BY <1>7, <1>8, <2>1
  <2> QED BY <1>8, <2>2
<1>11. t = Append(s, f)
  <2>1. /\ Append(s, f) \in Seq(Frames) /\ Len(Append(s, f)) = w + 1
        /\ \A k \in 1 .. w : Append(s, f)[k] = s[k]
        /\ Append(s, f)[w + 1] = f
    BY <1>6, AppendProperties
  <2>2. \A k \in 1 .. w + 1 : k \in 1 .. w \/ k = w + 1
    BY <1>3
  <2>3. \A k \in 1 .. Len(t) : t[k] = Append(s, f)[k]
    BY <1>7, <1>9, <1>10, <2>1, <2>2
  <2> QED BY <1>7, <2>1, <2>3, SeqEqual
<1> QED BY <1>2, <1>6, <1>11 DEF Fifo!Arrive, Receive, s, t

\* Copy takes the first frame of the queue.
LEMMA CopyTakes ==
    ASSUME OrderInv, OrderInv', Copy
    PROVE  Fifo!Take
<1>1. PICK w \in 0 .. N : w = WaitingCount /\ InRow(w)
  BY CountInRow
<1>2. /\ w >= 1 /\ InRow(w - 1)' /\ First = rxDescrPtr /\ First' = shuffle(rxDescrPtr)
      /\ First \in Ring /\ TypeOK /\ pbuf = None
  BY <1>1, CopyOrder, FirstInRing DEF OrderInv, IInv, EmptyHanded, Copy
<1>3. w - 1 \in 0 .. N /\ w \in Nat
  BY <1>2, RingIs
<1>4. Lies(Waiting, w)
  BY <1>1, WaitingLies
<1>5. Lies(Waiting, w - 1)'
  BY <1>2, <1>3, NextLies
<1>6. /\ Waiting \in Seq(Frames) /\ Len(Waiting) = w
      /\ \A k \in 1 .. w : Waiting[k] = buffer[Place(First, k - 1)]
  BY <1>4 DEF Lies
<1>7. buffer' = buffer /\ pbuf' = buffer[rxDescrPtr] /\ drops' = drops
  BY DEF Copy
<1>8. /\ Waiting' \in Seq(Frames) /\ Len(Waiting') = w - 1
      /\ \A k \in 1 .. w - 1 : Waiting'[k] = buffer[Place(First', k - 1)]
  BY <1>5, <1>7 DEF Lies
<1> DEFINE s == Waiting
           t == Waiting'
<1>9. s \in Seq(Frames) /\ Len(s) = w /\ t \in Seq(Frames) /\ Len(t) = w - 1
  BY <1>6, <1>8
<1>10. ASSUME NEW k \in 1 .. w - 1 PROVE t[k] = s[k + 1]
  <2>1. k - 1 \in 0 .. N - 1 /\ k + 1 \in 1 .. w /\ (k + 1) - 1 = (k - 1) + 1
    BY <1>3, RingIs
  <2>2. Place(First', k - 1) = Place(First, (k - 1) + 1)
    BY <1>2, <2>1, ShuffleIsPlace
  <2>3. s[k + 1] = buffer[Place(First, (k + 1) - 1)]
    BY <1>6, <2>1
  <2> QED BY <1>8, <2>1, <2>2, <2>3
<1>11. s[1] = buffer[rxDescrPtr]
  <2>1. 1 \in 1 .. w /\ 1 - 1 = 0
    BY <1>2, <1>3
  <2>2. Place(First, 0) = First
    BY <1>2, Places
  <2> QED BY <1>2, <1>6, <2>1, <2>2
<1> HIDE DEF s, t
<1>12. s # <<>> /\ Head(s) = s[1]
  BY <1>2, <1>9
<1>13. t = Tail(s)
  <2>1. /\ Tail(s) \in Seq(Frames) /\ Len(Tail(s)) = w - 1
        /\ \A k \in 1 .. Len(Tail(s)) : Tail(s)[k] = s[k + 1]
    BY <1>9, <1>12, HeadTailProperties
  <2> QED BY <1>9, <1>10, <2>1, SeqEqual
<1> QED BY <1>2, <1>7, <1>11, <1>12, <1>13 DEF Fifo!Take, s, t

\* The queue stays as it is when neither the row nor the buffers change.
LEMMA QueueStays ==
    ASSUME OrderInv, OrderInv', NEW w \in 0 .. N, w = WaitingCount, InRow(w)',
           First' = First, buffer' = buffer
    PROVE  Waiting' = Waiting
<1>1. Lies(Waiting, w)
  BY WaitingLies
<1>2. Lies(Waiting, w)'
  BY NextLies
<1> DEFINE s == Waiting
           t == Waiting'
<1>3. /\ s \in Seq(Frames) /\ Len(s) = w
      /\ \A k \in 1 .. w : s[k] = buffer[Place(First, k - 1)]
  BY <1>1 DEF Lies
<1>4. /\ t \in Seq(Frames) /\ Len(t) = w
      /\ \A k \in 1 .. w : t[k] = buffer[Place(First, k - 1)]
  BY <1>2 DEF Lies
<1> HIDE DEF s, t
<1>5. t = s
  BY <1>3, <1>4, SeqEqual
<1> QED BY <1>5 DEF s, t

\* The other steps: a frame missed is one dropped from a full queue, a frame
\* handed over is done with, and the rest is not seen.
LEMMA OthersUnseen ==
    ASSUME OrderInv, OrderInv', Others
    PROVE  [Fifo!Next]_Fifo!vars
<1>1. PICK w \in 0 .. N : w = WaitingCount /\ InRow(w)
  BY CountInRow
<1>2. InRow(w)' /\ First' = First /\ buffer' = buffer
  BY <1>1, OthersOrder
<1>3. Waiting' = Waiting
  BY <1>1, <1>2, QueueStays
<1>4. CASE Miss
  <2>1. w >= N - 1
    BY <1>1, <1>4, NoRoom DEF Miss, OrderInv, IInv
  <2>2. Len(Waiting) = w
    BY <1>1, WaitingLies DEF Lies
  <2>3. drops' = 1 - drops /\ pbuf' = pbuf
    BY <1>4 DEF Miss
  <2>4. Fifo!Drop
    BY <1>3, <2>1, <2>2, <2>3 DEF Fifo!Drop
  <2> QED BY <2>4 DEF Fifo!Next
<1>5. CASE Input
  <2>1. pbuf # None /\ pbuf' = None /\ drops' = drops
    BY <1>5, FramesAssumption DEF Input, OrderInv, IInv, CopiedFrame
  <2>2. Fifo!Done
    BY <1>3, <2>1 DEF Fifo!Done
  <2> QED BY <2>2 DEF Fifo!Next
<1>6. CASE Release \/ Available \/ Alloc \/ GiveBack \/ Shuffle
  <2>1. pbuf' = pbuf /\ drops' = drops
    BY <1>6 DEF Release, Available, Alloc, GiveBack, Shuffle
  <2> QED BY <1>3, <2>1 DEF Fifo!vars
<1> QED BY <1>4, <1>5, <1>6 DEF Others

\* Frames reach the stack in order, each once, and are dropped only when the
\* ring is full.
THEOREM RefinesFrameFifo == Spec => ImplementsFifo
<1>1. Init => Fifo!Init
  <2> SUFFICES ASSUME Init PROVE Fifo!Init
    OBVIOUS
  <2>1. Filled = {} /\ pc = "idle" /\ pbuf = None /\ drops = 0
    BY DEF Init, Filled
  <2>2. WaitingCount = 0
    BY <2>1, FS_EmptySet DEF WaitingCount
  <2>3. OrderInv
    BY InitOrder
  <2>4. Waiting \in Seq(Frames) /\ Len(Waiting) = 0
    BY <2>2, <2>3, WaitingLies DEF Lies
  <2>5. Waiting = <<>>
    BY <2>4, EmptySeq
  <2> QED BY <2>1, <2>5 DEF Fifo!Init
<1>2. ASSUME OrderInv, OrderInv', [Next]_vars PROVE [Fifo!Next]_Fifo!vars
  <2>1. ASSUME NEW f \in Frames, Receive(f) PROVE [Fifo!Next]_Fifo!vars
    BY <1>2, <2>1, ReceiveArrives DEF Fifo!Next
  <2>2. CASE Copy
    BY <1>2, <2>2, CopyTakes DEF Fifo!Next
  <2>3. CASE Others
    BY <1>2, <2>3, OthersUnseen
  <2>4. CASE UNCHANGED vars
    <3>1. PICK w \in 0 .. N : w = WaitingCount /\ InRow(w)
      BY <1>2, CountInRow
    <3>2. First' = First
      BY <2>4 DEF vars, First
    <3>3. InRow(w)'
      BY <2>4, <3>1, <3>2 DEF vars, InRow, Copied
    <3>4. Waiting' = Waiting
      BY <1>2, <2>4, <3>1, <3>2, <3>3, QueueStays DEF vars
    <3> QED BY <2>4, <3>4 DEF vars, Fifo!vars
  <2> QED BY <1>2, <2>1, <2>2, <2>3, <2>4 DEF Next, MainLoop, Others
<1> QED BY <1>1, <1>2, OrderInductive, PTL DEF Spec, Fifo!Spec, ImplementsFifo
=============================================================================
