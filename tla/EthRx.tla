------------------------------- MODULE EthRx -------------------------------
(***************************************************************************)
(* Reception of Ethernet frames: the ring of receive descriptors that the  *)
(* DMA fills and the main loop empties (ifx_netif_input and                *)
(* low_level_input in port/src/netif.c, and the descriptor functions of    *)
(* IfxGeth_Eth.c).  The two run concurrently and share only the OWN bits;  *)
(* each keeps a position of its own.                                       *)
(*                                                                         *)
(* A frame longer than a pbuf of the pool takes several, or none at all.   *)
(* Left out: frames of length 0, which the MAC does not pass on.           *)
(***************************************************************************)
EXTENDS Integers, Sequences, FiniteSets

CONSTANTS
    N,              \* IFXGETH_MAX_RX_DESCRIPTORS
    Frames,         \* what a received frame can be
    Bad,            \* those whose type is unknown or whose status is an error
    None,           \* no frame
    Need,           \* Need[f]: how many pbufs frame f fills
    PoolSize        \* PBUF_POOL_SIZE

ASSUME RingAssumption == N \in Nat /\ N >= 2
ASSUME FramesAssumption == Bad \subseteq Frames /\ None \notin Frames
ASSUME PoolAssumption == PoolSize \in Nat /\ Need \in [Frames -> 1 .. PoolSize]

VARIABLES
    OWN,            \* OWN[i]: does descriptor i belong to the DMA?
    buffer,         \* buffer[i]: the frame in the buffer of descriptor i
    dma,            \* the DMA's next descriptor
    rxDescrPtr,     \* the driver's current descriptor
    pc,             \* where the main loop is in ifx_netif_input
    pbuf,           \* the frame in the pbufs low_level_input has allocated
    pool,           \* free pbufs of the pool
    held,           \* pbufs the stack and the servers hold
    drops           \* parity of the number of frames dropped

vars == <<OWN, buffer, dma, rxDescrPtr, pc, pbuf, pool, held, drops>>

Ring == 0 .. N - 1

TypeOK ==
    /\ OWN \in [Ring -> BOOLEAN]
    /\ buffer \in [Ring -> Frames \cup {None}]
    /\ {dma, rxDescrPtr} \subseteq Ring
    /\ pc \in {"idle", "alloc", "copy", "own", "shuffle", "input"}
    /\ pbuf \in Frames \cup {None}
    /\ {pool, held} \subseteq 0 .. PoolSize
    /\ drops \in {0, 1}

\* After low_level_init: every descriptor belongs to the DMA.
Init ==
    /\ OWN = [i \in Ring |-> TRUE]
    /\ buffer = [i \in Ring |-> None]
    /\ dma = 0
    /\ rxDescrPtr = 0
    /\ pc = "idle"
    /\ pbuf = None
    /\ pool = PoolSize
    /\ held = 0
    /\ drops = 0

\* Mutants of shuffle: the last descriptor is not used, or not the last.
shuffleShort(i) == IF i >= N - 2 THEN 0 ELSE i + 1
shuffleBeyond(i) == IF i = N THEN 0 ELSE i + 1

\* IfxGeth_Eth_shuffleRxDescriptor.
shuffle(i) == IF i = N - 1 THEN 0 ELSE i + 1

-----------------------------------------------------------------------------
(* The DMA.                                                                *)

Receive(f) ==
    /\ OWN[dma]
    /\ buffer' = [buffer EXCEPT ![dma] = f]
    /\ OWN' = [OWN EXCEPT ![dma] = FALSE]
    /\ dma' = (dma + 1) % N
    /\ UNCHANGED <<rxDescrPtr, pc, pbuf, pool, held, drops>>

\* No descriptor is free; the DMA goes on with the next frame that finds one.
Miss ==
    /\ ~ OWN[dma]
    /\ drops' = 1 - drops
    /\ UNCHANGED <<OWN, buffer, dma, rxDescrPtr, pc, pbuf, pool, held>>

-----------------------------------------------------------------------------
(* The main loop: one call of ifx_netif_input.                             *)

\* IfxGeth_Eth_isRxDataAvailable, and the length of the frame.
Available ==
    /\ pc = "idle"
    /\ ~ OWN[rxDescrPtr]
    /\ pc' = "alloc"
    /\ UNCHANGED <<OWN, buffer, dma, rxDescrPtr, pbuf, pool, held, drops>>

\* pbuf_alloc, which gives back what it has when it does not get all; the
\* frame then stays in the ring.
Alloc ==
    /\ pc = "alloc"
    /\ \/ /\ pool >= Need[buffer[rxDescrPtr]]
          /\ pool' = pool - Need[buffer[rxDescrPtr]]
          /\ pc' = "copy"
       \/ /\ pool < Need[buffer[rxDescrPtr]]
          /\ pc' = "idle"
          /\ UNCHANGED pool
    /\ UNCHANGED <<OWN, buffer, dma, rxDescrPtr, pbuf, held, drops>>

\* Mutant of Copy: the descriptor is given back here already.
CopyGivesBack ==
    /\ pc = "copy"
    /\ pbuf' = buffer[rxDescrPtr]
    /\ OWN' = [OWN EXCEPT ![rxDescrPtr] = TRUE]
    /\ pc' = "own"
    /\ UNCHANGED <<buffer, dma, rxDescrPtr, pool, held, drops>>

\* IfxGeth_Eth_getReceiveBuffer, memcpy.
Copy ==
    /\ pc = "copy"
    /\ pbuf' = buffer[rxDescrPtr]
    /\ pc' = "own"
    /\ UNCHANGED <<OWN, buffer, dma, rxDescrPtr, pool, held, drops>>

\* Mutant of GiveBack: the descriptor stays with the driver.
GiveBackNot ==
    /\ pc = "own"
    /\ pc' = "shuffle"
    /\ UNCHANGED <<OWN, buffer, dma, rxDescrPtr, pbuf, pool, held, drops>>

\* IfxGeth_Eth_freeReceiveBuffer: RDES3 with OWN = 1.
GiveBack ==
    /\ pc = "own"
    /\ OWN' = [OWN EXCEPT ![rxDescrPtr] = TRUE]
    /\ pc' = "shuffle"
    /\ UNCHANGED <<buffer, dma, rxDescrPtr, pbuf, pool, held, drops>>

\* ... and on to the next descriptor.
Shuffle ==
    /\ pc = "shuffle"
    /\ rxDescrPtr' = shuffle(rxDescrPtr)
    /\ pc' = "input"
    /\ UNCHANGED <<OWN, buffer, dma, pbuf, pool, held, drops>>

\* Mutant of Input: a frame that is not taken keeps its pbufs.
InputNoFree ==
    /\ pc = "input"
    /\ \/ /\ pbuf \notin Bad
          /\ held' = held + Need[pbuf]
       \/ UNCHANGED held
    /\ pbuf' = None
    /\ pc' = "idle"
    /\ UNCHANGED <<OWN, buffer, dma, rxDescrPtr, pool, drops>>

\* The stack takes the pbufs, or they are freed at once: the type is unknown, or
\* netif->input has no use for the frame.
Input ==
    /\ pc = "input"
    /\ \/ /\ pbuf \notin Bad
          /\ held' = held + Need[pbuf]
          /\ UNCHANGED pool
       \/ /\ pool' = pool + Need[pbuf]
          /\ UNCHANGED held
    /\ pbuf' = None
    /\ pc' = "idle"
    /\ UNCHANGED <<OWN, buffer, dma, rxDescrPtr, drops>>

\* The stack or a server frees a pbuf, in the main loop.
Release ==
    /\ pc = "idle"
    /\ held > 0
    /\ held' = held - 1
    /\ pool' = pool + 1
    /\ UNCHANGED <<OWN, buffer, dma, rxDescrPtr, pc, pbuf, drops>>

-----------------------------------------------------------------------------
MainLoop == Available \/ Alloc \/ Copy \/ GiveBack \/ Shuffle \/ Input

Next == Miss \/ Release \/ MainLoop \/ \E f \in Frames : Receive(f)

Spec == Init /\ [][Next]_vars

\* The main loop polls for ever.
FairSpec == Spec /\ WF_vars(MainLoop)

-----------------------------------------------------------------------------
\* The pbufs this call of ifx_netif_input has allocated.
InHand ==
    IF pc = "copy" THEN Need[buffer[rxDescrPtr]]
    ELSE IF pc \in {"own", "shuffle", "input"} THEN Need[pbuf]
    ELSE 0

\* Nothing keeps a pbuf on the way in, and the frame that low_level_input has
\* measured is the one it copies: each pbuf is free, in the stack's hands, or
\* allocated for the frame in hand, while the DMA goes on writing.
PbufsConserved == pool + held + InHand = PoolSize

\* The DMA and the driver keep to their own descriptors without comparing
\* their positions: those the DMA has filled lie between the driver's position
\* and the DMA's, so neither overtakes the other.
Filled == {i \in Ring : ~ OWN[i]}
First == IF pc \in {"own", "shuffle"} THEN shuffle(rxDescrPtr) ELSE rxDescrPtr
WaitingCount == Cardinality(Filled) - (IF pc = "own" THEN 1 ELSE 0)

FilledInOrder ==
    /\ Filled \ (IF pc = "own" THEN {rxDescrPtr} ELSE {}) =
           {(First + k) % N : k \in 0 .. WaitingCount - 1}
    /\ dma = (First + WaitingCount) % N

\* The frames that wait in the ring, oldest first.
Waiting == [k \in 1 .. WaitingCount |-> buffer[(First + k - 1) % N]]

Fifo == INSTANCE FrameFifo WITH queue <- Waiting, out <- pbuf, Capacity <- N

\* Frames reach the stack in order, each once, and are dropped only when the
\* ring is full: OWN bits and two positions make a bounded queue.
ImplementsFifo == Fifo!Spec

\* A frame is not overlooked, nor does a long one block the ring: if pbufs for
\* any frame become free again and again, every descriptor the DMA has filled
\* is given back.
FramesAreTaken ==
    []<>(\A f \in Frames : pool >= Need[f]) => \A i \in Ring : ~ OWN[i] ~> OWN[i]
=============================================================================
