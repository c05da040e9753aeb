-------------------------------- MODULE Pbuf --------------------------------
(***************************************************************************)
(* lwIP packet buffers (Libraries/Ethernet/lwip/src/core/pbuf.c) as the    *)
(* raw-API servers under examples/ use them: a pool of buffers with        *)
(* reference counts.  A chain, linked by next pointers in the code, is     *)
(* the sequence of its buffers; <<>> is the null pointer.  Every operator  *)
(* maps a heap to the heap after the call.                                 *)
(***************************************************************************)
EXTENDS Naturals, Sequences, FiniteSets

CONSTANTS
    Pbufs,          \* the buffers of the pool (PBUF_POOL_SIZE of them)
    Bodies          \* what the bytes of a payload are, as far as a server tells

ASSUME PbufsAssumption == IsFiniteSet(Pbufs)
ASSUME BodiesAssumption == "none" \in Bodies

PbufRecord == [len : Nat, tot : Nat, ref : Nat, body : Bodies]
Heaps == [Pbufs -> PbufRecord]

FreePbuf == [len |-> 0, tot |-> 0, ref |-> 0, body |-> "none"]
EmptyHeap == [p \in Pbufs |-> FreePbuf]

Allocated(h) == {p \in Pbufs : h[p].ref > 0}
FreePbufs(h) == Pbufs \ Allocated(h)

Members(s) == {s[i] : i \in DOMAIN s}

\* The sum of the lengths of a chain's buffers.
ChainLength(h, s) ==
    LET sum[i \in 0 .. Len(s)] == IF i = 0 THEN 0 ELSE sum[i - 1] + h[s[i]].len
    IN  sum[Len(s)]

\* The bytes in a chain's buffers.
Contents(h, s) ==
    LET bytes[i \in 0 .. Len(s)] ==
            IF i = 0 THEN <<>> ELSE bytes[i - 1] \o [j \in 1 .. h[s[i]].len |-> h[s[i]].body]
    IN  bytes[Len(s)]

\* A received segment in p, or two that TCP hands over as one chain.
Received(h, p, n, rest, b) ==
    [h EXCEPT ![p] = [len |-> n, tot |-> n + rest, ref |-> 1, body |-> b]]

pbuf_ref(h, p) == [h EXCEPT ![p].ref = @ + 1]

\* pbuf_free: the head of chain s loses a reference; each buffer left without
\* any is deallocated and passes the loss on to its successor.
pbuf_free(h, s) ==
    LET loses(i) == \A j \in 1 .. i - 1 : h[s[j]].ref = 1
    IN  [q \in Pbufs |->
            IF \E i \in DOMAIN s : s[i] = q /\ loses(i)
            THEN IF h[q].ref = 1 THEN FreePbuf ELSE [h[q] EXCEPT !.ref = @ - 1]
            ELSE h[q]]

\* pbuf_free(p) again and again until it frees something: every call but the
\* last takes one reference to p itself.
FreeUntilFreed(h, s) == pbuf_free([h EXCEPT ![Head(s)].ref = 1], s)

\* The new reference to the next pbuf, if there is one.
RefNext(h, s) == IF Len(s) = 1 THEN h ELSE pbuf_ref(h, s[2])

\* Mutants of ChopFirst: a single pbuf_free, or no new reference.
ChopFirstFreeOnce(h, s) == pbuf_free(RefNext(h, s), s)
ChopFirstNoRef(h, s) == FreeUntilFreed(h, s)

\* How the servers take the first pbuf off a chain: the next one gets a
\* reference of its own, then the first is freed until it is gone.
ChopFirst(h, s) == FreeUntilFreed(RefNext(h, s), s)

\* Mutant of pbuf_cat: the lengths of the first chain are not increased.
pbuf_cat_short(h, s, t) == [q \in Pbufs |-> h[q]]

\* pbuf_cat and pbuf_chain: chain t comes after chain s.
pbuf_cat(h, s, t) ==
    [q \in Pbufs |->
        IF q \in Members(s) THEN [h[q] EXCEPT !.tot = @ + h[Head(t)].tot] ELSE h[q]]

pbuf_chain(h, s, t) == pbuf_ref(pbuf_cat(h, s, t), Head(t))
=============================================================================
