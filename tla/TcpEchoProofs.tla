---------------------------- MODULE TcpEchoProofs ----------------------------
(***************************************************************************)
(* HoldsNoPbuf, WindowIsWhole, SpinsOnlyWhenOverfull and TypeOK of the     *)
(* echo server, for any connections, pool and sizes.  They come from one   *)
(* invariant: what a chain is made of (Chain) decides what taking its      *)
(* first pbuf off does to the pool, the sum of its lengths ties the window *)
(* and the storage to what the callback was given (Measured), and the      *)
(* storage is empty but for that and for bytes tcp_write has refused.      *)
(*                                                                         *)
(* With it, and with Sound, every step is one of EchoService's or one the  *)
(* peers do not see: RefinesEchoService.  Bytes are the values of Contents *)
(* (PbufProofs), so the steps are equations between sequences.             *)
(***************************************************************************)
EXTENDS TcpEcho, PbufProofs

\* Only one chain is not empty.
LEMMA OneChain ==
    ASSUME NEW f, NEW c \in Conns, \A d \in Conns \ {c} : f[d].p = <<>>
    PROVE  UNION {Members(f[d].p) : d \in Conns} = Members(f[c].p)
BY MembersOfNone

-----------------------------------------------------------------------------
\* What TCP hands over, and what is left of it.
Chain(s) ==
    \/ s = <<>>
    \/ \E p \in Pbufs : s = <<p>>
    \/ \E p, q \in Pbufs : p # q /\ s = <<p, q>>

\* Callbacks run for a session of an established connection.
Sessions ==
    \A c \in Conns : /\ es[c].state # "none" <=> tcp[c] = "established"
                     /\ running = c => tcp[c] = "established"

\* What is in the storage was given to the callback that runs, or was refused.
Measured ==
    \A c \in Conns \ refused :
        IF running = c THEN Len(es[c].storage) + ChainLength(heap, es[c].p) = came
        ELSE es[c].storage = <<>>

\* The pbufs in use have been received.
Filled == \A p \in Allocated(heap) : heap[p].body \in Bytes

Inv ==
    /\ TypeOK
    /\ Filled
    /\ \A c \in Conns : Chain(es[c].p)
    /\ HoldsNoPbuf
    /\ Sessions
    /\ WindowIsWhole
    /\ Measured

LEMMA InitInv == Init => Inv
<1> SUFFICES ASSUME Init PROVE Inv
  OBVIOUS
<1>1. TypeOK
  BY SizesAssumption, BodiesAssumption
     DEF Init, TypeOK, TcpStates, EchoStates, NoEs, EmptyHeap, FreePbuf, Heaps, PbufRecord,
         nextFreeStoragePos
<1>2. \A c \in Conns : es[c] = NoEs /\ es[c].p = <<>> /\ Chain(es[c].p)
  BY DEF Init, NoEs, Chain
<1>3. HoldsNoPbuf
  BY <1>2 DEF HoldsNoPbuf, Init, EmptyHeap, FreePbuf, Allocated, Members
<1>6. Filled
  BY DEF Filled, Init, EmptyHeap, FreePbuf, Allocated
<1>4. Sessions /\ Measured
  BY <1>2, ConnsAssumption DEF Init, Sessions, Measured, NoEs
<1>5. WindowIsWhole
  <2>1. heap \in Heaps
    BY <1>1 DEF TypeOK
  <2>2. ChainLength(heap, <<>>) = 0
    BY <2>1, LengthOfNone
  <2> QED BY <1>2, <2>2, SizesAssumption DEF WindowIsWhole, Init
<1> QED BY <1>1, <1>2, <1>3, <1>4, <1>5, <1>6 DEF Inv

\* Between callbacks every chain is empty, and so is the pool's use.
LEMMA IdleInv ==
    ASSUME Inv, Idle
    PROVE  /\ \A c \in Conns : es[c].p = <<>> /\ rcvWnd[c] = TCP_WND
           /\ \A c \in Conns \ refused : es[c].storage = <<>>
           /\ Allocated(heap) = {}
<1>1. \A c \in Conns : running # c
  BY ConnsAssumption DEF Idle
<1>2. \A c \in Conns : es[c].p = <<>>
  BY <1>1 DEF Inv, HoldsNoPbuf
<1>3. Allocated(heap) = {}
  BY <1>2 DEF Inv, HoldsNoPbuf, Members
<1>4. \A c \in Conns : rcvWnd[c] = TCP_WND
  BY <1>2, LengthOfNone DEF Inv, WindowIsWhole, TypeOK
<1> QED BY <1>1, <1>2, <1>3, <1>4 DEF Inv, Measured

\* A step between callbacks: it touches neither pool nor chains nor storages,
\* but may begin or end a session.
LEMMA QuietInv ==
    ASSUME Inv, Idle, NEW c \in Conns, NEW t \in TcpStates,
           NEW e \in [state : EchoStates, p : {<<>>}, storage : {<<>>, es[c].storage}],
           tcp' = [tcp EXCEPT ![c] = t], es' = [es EXCEPT ![c] = e],
           e.state # "none" <=> t = "established",
           c \notin refused' => e.storage = <<>>,
           refused' \in {refused, refused \ {c}},
           heap' = heap, running' = running, came' = came,
           rcvWnd' \in {rcvWnd, [rcvWnd EXCEPT ![c] = TCP_WND]},
           sending' \in [Conns -> Seq(Bytes)]
    PROVE  Inv'
<1>1. \A d \in Conns : es'[d].p = <<>> /\ running' # d
  BY IdleInv, ConnsAssumption DEF Inv, TypeOK, Idle
<1>2. \A d \in Conns : rcvWnd'[d] = TCP_WND
  BY IdleInv DEF Inv, TypeOK
<1>3. TypeOK'
  <2>1. Len(e.storage) <= STORAGE_SIZE_BYTES
    <3>1. CASE e.storage = <<>>
      BY <3>1, SizesAssumption
    <3> QED BY <3>1 DEF Inv, TypeOK, nextFreeStoragePos
  <2>2. \A d \in Conns : Len(es'[d].storage) <= STORAGE_SIZE_BYTES
    BY <2>1 DEF Inv, TypeOK, nextFreeStoragePos
  <2>3. e \in [state : EchoStates, p : Seq(Pbufs), storage : Seq(Bytes)]
    <3>1. es[c] \in [state : EchoStates, p : Seq(Pbufs), storage : Seq(Bytes)]
      BY DEF Inv, TypeOK
    <3>2. <<>> \in Seq(Pbufs) /\ <<>> \in Seq(Bytes) /\ es[c].storage \in Seq(Bytes)
      BY <3>1
    <3>3. {<<>>} \subseteq Seq(Pbufs) /\ {<<>>, es[c].storage} \subseteq Seq(Bytes)
      BY <3>2
    <3> HIDE DEF Bytes
    <3> QED BY <3>3
  <2>4. es' \in [Conns -> [state : EchoStates, p : Seq(Pbufs), storage : Seq(Bytes)]]
    BY <2>3 DEF Inv, TypeOK
  <2>5. rcvWnd' \in [Conns -> 0 .. TCP_WND]
    <3>1. rcvWnd \in [Conns -> 0 .. TCP_WND] /\ TCP_WND \in 0 .. TCP_WND
      BY SizesAssumption DEF Inv, TypeOK
    <3>2. [rcvWnd EXCEPT ![c] = TCP_WND] \in [Conns -> 0 .. TCP_WND]
      BY <3>1
    <3> QED BY <3>1, <3>2
  <2>6. /\ tcp' \in [Conns -> TcpStates] /\ heap' \in Heaps /\ came' \in Nat
        /\ running' \in Conns \cup {None} /\ refused' \subseteq Conns
    BY DEF Inv, TypeOK
  <2> QED BY <2>2, <2>4, <2>5, <2>6 DEF TypeOK, nextFreeStoragePos
<1>4. (\A d \in Conns : Chain(es[d].p))' /\ HoldsNoPbuf'
  BY <1>1, IdleInv DEF Chain, HoldsNoPbuf, Members, Allocated
<1>8. Filled'
  BY DEF Inv, Filled, Allocated
<1>5. Sessions'
  BY <1>1 DEF Inv, TypeOK, Sessions
<1>6. WindowIsWhole'
  <2>1. heap' \in Heaps
    BY <1>3 DEF TypeOK
  <2>2. ChainLength(heap', <<>>) = 0
    BY <2>1, LengthOfNone
  <2> QED BY <1>1, <1>2, <2>2, SizesAssumption DEF WindowIsWhole
<1>7. Measured'
  BY <1>1, IdleInv DEF Inv, TypeOK, Measured
<1> QED BY <1>3, <1>4, <1>5, <1>6, <1>7, <1>8 DEF Inv

\* Sessions that such a step leaves alone.
LEMMA SameSession ==
    ASSUME Inv, Idle, NEW c \in Conns
    PROVE  /\ es[c] \in [state : EchoStates, p : {<<>>}, storage : {<<>>, es[c].storage}]
           /\ es = [es EXCEPT ![c] = es[c]]
           /\ tcp = [tcp EXCEPT ![c] = tcp[c]] /\ tcp[c] \in TcpStates
           /\ c \notin refused => es[c].storage = <<>>
           /\ es[c].state # "none" <=> tcp[c] = "established"
<1>1. es[c].p = <<>>
  BY IdleInv
<1>2. es[c] \in [state : EchoStates, p : Seq(Pbufs), storage : Seq(Bytes)]
  BY DEF Inv, TypeOK
<1>3. es[c] \in [state : EchoStates, p : {<<>>}, storage : {<<>>, es[c].storage}]
  <2> HIDE DEF Bytes
  <2> QED BY <1>1, <1>2
<1> QED BY <1>3, IdleInv DEF Inv, TypeOK, Sessions

\* The records sessions begin and end with.
LEMMA FreshSessions ==
    ASSUME NEW s
    PROVE  /\ NewEs \in [state : EchoStates, p : {<<>>}, storage : {<<>>, s}]
           /\ NoEs \in [state : EchoStates, p : {<<>>}, storage : {<<>>, s}]
           /\ NewEs.state # "none" /\ NewEs.storage = <<>>
           /\ NoEs.state = "none" /\ NoEs.storage = <<>>
BY DEF NewEs, NoEs, EchoStates

LEMMA SynInv == ASSUME Inv, NEW c \in Conns, Syn(c) PROVE Inv'
<1>1. Idle /\ "syn_rcvd" \in TcpStates /\ es[c].state = "none"
  BY DEF Syn, TcpStates, Inv, Sessions
<1>2. sending \in [Conns -> Seq(Bytes)]
  BY DEF Inv, TypeOK
<1> QED BY <1>1, <1>2, SameSession, QuietInv DEF Syn

LEMMA AcceptInv == ASSUME Inv, NEW c \in Conns, echoAccept(c) PROVE Inv'
<1>1. Idle /\ {"established", "free"} \subseteq TcpStates /\ es[c].state = "none"
  BY DEF echoAccept, TcpStates, Inv, Sessions
<1>2. sending \in [Conns -> Seq(Bytes)]
  BY DEF Inv, TypeOK
<1>3. CASE tcp' = [tcp EXCEPT ![c] = "established"] /\ es' = [es EXCEPT ![c] = NewEs]
  BY <1>1, <1>2, <1>3, FreshSessions, QuietInv DEF echoAccept
<1>4. CASE tcp' = [tcp EXCEPT ![c] = "free"] /\ es' = es
  <2> DEFINE e == es[c]
  <2>1. /\ e \in [state : EchoStates, p : {<<>>}, storage : {<<>>, es[c].storage}]
        /\ es' = [es EXCEPT ![c] = e] /\ e.state = "none"
        /\ c \notin refused => e.storage = <<>>
    BY <1>1, <1>4, SameSession
  <2> HIDE DEF e
  <2> QED BY <1>1, <1>2, <1>4, <2>1, QuietInv DEF echoAccept
<1> QED BY <1>3, <1>4 DEF echoAccept

LEMMA ErrorInv == ASSUME Inv, NEW c \in Conns, echoError(c) PROVE Inv'
<1>1. Idle /\ "free" \in TcpStates
  BY DEF echoError, TcpStates
<1>2. sending' \in [Conns -> Seq(Bytes)]
  BY DEF Inv, TypeOK, echoError
<1> QED BY <1>1, <1>2, FreshSessions, QuietInv DEF echoError

LEMMA FinInv == ASSUME Inv, NEW c \in Conns, echoRecvFin(c) PROVE Inv'
<1>1. Idle /\ {"last_ack", "free"} \subseteq TcpStates
  BY DEF echoRecvFin, TcpStates
<1>2. sending' \in [Conns -> Seq(Bytes)]
  BY DEF Inv, TypeOK, echoRecvFin
<1>3. PICK t \in {"last_ack", "free"} : tcp' = [tcp EXCEPT ![c] = t]
  BY DEF echoRecvFin
<1> QED BY <1>1, <1>2, <1>3, FreshSessions, QuietInv DEF echoRecvFin

LEMMA LastAckInv == ASSUME Inv, NEW c \in Conns, LastAck(c) PROVE Inv'
<1>1. Idle /\ "free" \in TcpStates /\ es[c].state = "none"
  BY DEF LastAck, TcpStates, Inv, Sessions
<1>2. sending \in [Conns -> Seq(Bytes)]
  BY DEF Inv, TypeOK
<1> QED BY <1>1, <1>2, SameSession, QuietInv DEF LastAck

LEMMA AckedInv == ASSUME Inv, NEW c \in Conns, Acked(c) PROVE Inv'
<1>1. Idle
  BY DEF Acked
<1>2. sending' \in [Conns -> Seq(Bytes)]
  <2>1. PICK n \in 1 .. Len(sending[c]) :
            sending' = [sending EXCEPT ![c] = SubSeq(@, n + 1, Len(@))]
    BY DEF Acked
  <2>2. sending \in [Conns -> Seq(Bytes)] /\ sending[c] \in Seq(Bytes)
    BY DEF Inv, TypeOK
  <2>3. SubSeq(sending[c], n + 1, Len(sending[c])) \in Seq(Bytes)
    <3> HIDE DEF Bytes
    <3> QED BY <2>2
  <2> QED BY <2>1, <2>2, <2>3
<1> QED BY <1>1, <1>2, SameSession, QuietInv DEF Acked

-----------------------------------------------------------------------------
(* The steps of a callback.                                                *)

\* echoPoll finds bytes in the storage, which tcp_write has refused.
LEMMA PollInv == ASSUME Inv, NEW c \in Conns, echoPoll(c) PROVE Inv'
<1>1. c \in refused /\ Idle /\ tcp[c] = "established"
  BY IdleInv DEF echoPoll, nextFreeStoragePos, Inv, Sessions, HasSession
<1>2. TypeOK'
  BY DEF Inv, TypeOK, echoPoll, nextFreeStoragePos
<1>3. HoldsNoPbuf'
  BY IdleInv, <1>1 DEF Inv, HoldsNoPbuf, echoPoll, Allocated
<1>4. Sessions'
  BY <1>1 DEF Inv, Sessions, echoPoll
<1>5. WindowIsWhole' /\ (\A d \in Conns : Chain(es[d].p))'
  BY DEF Inv, WindowIsWhole, Chain, echoPoll
<1>6. Measured'
  BY <1>1, IdleInv DEF Measured, echoPoll
<1>7. Filled'
  BY DEF Inv, Filled, Allocated, echoPoll
<1> QED BY <1>2, <1>3, <1>4, <1>5, <1>6, <1>7 DEF Inv

\* echoSend, tcp_write having taken the storage or not.
LEMMA SendInv ==
    ASSUME Inv, NEW c \in Conns, echoSendOk(c) \/ echoSendFails(c)
    PROVE  Inv'
<1>1. running = c /\ running' = None /\ came' = 0 /\ heap' = heap /\ rcvWnd' = rcvWnd
      /\ es[c].p = <<>> /\ tcp' = tcp
  BY DEF echoSendOk, echoSendFails, Returns
<1>2. \A d \in Conns : /\ es'[d].p = es[d].p /\ es'[d].state = es[d].state
                       /\ es[d].p = <<>>
                       /\ es'[d].storage \in {<<>>, es[d].storage}
  <2>1. es \in [Conns -> [state : EchoStates, p : Seq(Pbufs), storage : Seq(Bytes)]]
    BY DEF Inv, TypeOK
  <2>2. \A d \in Conns : es[d].p = <<>>
    BY <1>1 DEF Inv, HoldsNoPbuf
  <2>3. es' = es \/ es' = [es EXCEPT ![c].storage = <<>>]
    BY DEF echoSendOk, echoSendFails
  <2>4. CASE es' = es
    BY <2>2, <2>4
  <2>5. CASE es' = [es EXCEPT ![c].storage = <<>>]
    <3>1. /\ es'[c].p = es[c].p /\ es'[c].state = es[c].state /\ es'[c].storage = <<>>
          /\ \A d \in Conns \ {c} : es'[d] = es[d]
      <4> HIDE DEF Bytes
      <4> QED BY <2>1, <2>5
    <3> QED BY <2>2, <3>1
  <2> QED BY <2>3, <2>4, <2>5
<1>3. TypeOK'
  <2>1. es' \in [Conns -> [state : EchoStates, p : Seq(Pbufs), storage : Seq(Bytes)]]
    <3>1. es \in [Conns -> [state : EchoStates, p : Seq(Pbufs), storage : Seq(Bytes)]]
      BY DEF Inv, TypeOK
    <3>2. es' = es \/ es' = [es EXCEPT ![c].storage = <<>>]
      BY DEF echoSendOk, echoSendFails
    <3>3. <<>> \in Seq(Bytes)
      OBVIOUS
    <3> HIDE DEF Bytes
    <3> QED BY <3>1, <3>2, <3>3
  <2>2. sending' \in [Conns -> Seq(Bytes)]
    <3>1. sending \in [Conns -> Seq(Bytes)] /\ es[c].storage \in Seq(Bytes)
      BY DEF Inv, TypeOK
    <3>2. sending[c] \o es[c].storage \in Seq(Bytes)
      <4> HIDE DEF Bytes
      <4> QED BY <3>1
    <3> QED BY <3>1, <3>2 DEF echoSendOk, echoSendFails
  <2>3. \A d \in Conns : Len(es'[d].storage) <= STORAGE_SIZE_BYTES
    <3>1. SUFFICES ASSUME NEW d \in Conns PROVE Len(es'[d].storage) <= STORAGE_SIZE_BYTES
      OBVIOUS
    <3>2. Len(es[d].storage) <= STORAGE_SIZE_BYTES
      BY DEF Inv, TypeOK, nextFreeStoragePos
    <3>3. CASE es'[d].storage = <<>>
      BY <3>3, SizesAssumption
    <3>4. CASE es'[d].storage = es[d].storage
      BY <3>2, <3>4
    <3> QED BY <1>2, <3>3, <3>4
  <2>4. refused' \subseteq Conns
    BY DEF Inv, TypeOK, echoSendOk, echoSendFails
  <2> QED BY <1>1, <2>1, <2>2, <2>3, <2>4 DEF Inv, TypeOK, nextFreeStoragePos
<1>4. HoldsNoPbuf' /\ (\A d \in Conns : Chain(es[d].p))'
  BY <1>1, <1>2 DEF Inv, HoldsNoPbuf, Chain, Allocated, Members
<1>5. Sessions'
  BY <1>1, <1>2, ConnsAssumption DEF Inv, Sessions
<1>6. WindowIsWhole'
  BY <1>1, <1>2 DEF Inv, WindowIsWhole
<1>7. Measured'
  <2>1. \A d \in Conns : running' # d
    BY <1>1, ConnsAssumption
  <2>2. \A d \in Conns \ refused' : es'[d].storage = <<>>
    BY <1>1, <1>2 DEF Inv, TypeOK, Measured, echoSendOk, echoSendFails
  <2> QED BY <2>1, <2>2 DEF Measured
<1>8. Filled'
  BY <1>1 DEF Inv, Filled, Allocated
<1> QED BY <1>3, <1>4, <1>5, <1>6, <1>7, <1>8 DEF Inv

\* The last buffer of a chain, which is the first one taken.
LEMMA ReceivedLast ==
    ASSUME NEW h \in Heaps, Allocated(h) = {}, NEW q \in Pbufs, NEW m \in Nat, NEW d \in Bytes
    PROVE  /\ Received(h, q, m, 0, d) \in Heaps
           /\ Received(h, q, m, 0, d)[q].len = m
           /\ Allocated(Received(h, q, m, 0, d)) = {q}
           /\ Received(h, q, m, 0, d)[q].body = d
<1> DEFINE g == Received(h, q, m, 0, d)
<1>1. d \in Bodies
  BY DEF Bytes
<1>2. /\ g \in Heaps /\ g[q].len = m /\ g[q].body = d
      /\ Allocated(g) = Allocated(h) \cup {q}
  BY <1>1, ReceivedAlone DEF Delivered
<1> HIDE DEF g
<1>3. Allocated(g) = {q}
  BY <1>2
<1> QED BY <1>2, <1>3 DEF g

\* echoRecv with a chain of pbufs that were free.
LEMMA RecvInv ==
    ASSUME Inv, NEW c \in Conns, NEW s, NEW h, NEW total \in Nat, Chain(s),
           h \in Heaps, Allocated(h) = Members(s), ChainLength(h, s) = total,
           \A p \in Allocated(h) : h[p].body \in Bytes,
           echoRecv(c, s, h, total)
    PROVE  Inv'
<1>1. /\ Idle /\ tcp[c] = "established" /\ heap' = h /\ running' = c /\ came' = total
      /\ tcp' = tcp /\ refused' = refused /\ sending' = sending /\ total <= rcvWnd[c]
      /\ rcvWnd' = [rcvWnd EXCEPT ![c] = @ - total]
      /\ es' = [es EXCEPT ![c].state = "receiving", ![c].p = s]
  BY DEF echoRecv
<1>2. s \in Seq(Pbufs)
  <2>1. CASE s = <<>>
    BY <2>1
  <2>2. ASSUME NEW p \in Pbufs, s = <<p>> PROVE s \in Seq(Pbufs)
    BY <2>2
  <2>3. ASSUME NEW p \in Pbufs, NEW q \in Pbufs, s = <<p, q>> PROVE s \in Seq(Pbufs)
    BY <2>3
  <2> QED BY <2>1, <2>2, <2>3 DEF Chain
<1>3. es \in [Conns -> [state : EchoStates, p : Seq(Pbufs), storage : Seq(Bytes)]]
  BY DEF Inv, TypeOK
<1>4. /\ es' \in [Conns -> [state : EchoStates, p : Seq(Pbufs), storage : Seq(Bytes)]]
      /\ es'[c].p = s /\ es'[c].state = "receiving" /\ es'[c].storage = es[c].storage
      /\ \A d \in Conns \ {c} : es'[d] = es[d]
  <2> HIDE DEF Bytes
  <2> QED BY <1>1, <1>2, <1>3 DEF EchoStates
<1>5. \A d \in Conns : rcvWnd[d] = TCP_WND /\ es[d].p = <<>>
  BY <1>1, IdleInv
<1>6. TypeOK'
  <2>1. \A d \in Conns : Len(es'[d].storage) <= STORAGE_SIZE_BYTES
    BY <1>4 DEF Inv, TypeOK, nextFreeStoragePos
  <2>2. TCP_WND - total \in 0 .. TCP_WND
    BY <1>1, <1>5, SizesAssumption
  <2>3. rcvWnd' \in [Conns -> 0 .. TCP_WND]
    BY <1>1, <1>5, <2>2 DEF Inv, TypeOK
  <2> QED BY <1>1, <1>4, <2>1, <2>3 DEF Inv, TypeOK, nextFreeStoragePos
<1>7. HoldsNoPbuf'
  <2>1. UNION {Members(es'[d].p) : d \in Conns} = Members(s)
    <3> DEFINE M(d) == Members(es'[d].p)
    <3>1. M(c) = Members(s) /\ \A d \in Conns \ {c} : M(d) = {}
      BY <1>4, <1>5, MembersOfNone
    <3> HIDE DEF M
    <3>2. UNION {M(d) : d \in Conns} = Members(s)
      BY <3>1
    <3> QED BY <3>2 DEF M
  <2> QED BY <1>1, <1>4, <1>5, <2>1 DEF HoldsNoPbuf
<1>8. Sessions'
  BY <1>1, <1>4 DEF Inv, Sessions
<1>9. WindowIsWhole'
  <2>1. ASSUME NEW d \in Conns PROVE rcvWnd'[d] + ChainLength(heap', es'[d].p) = TCP_WND
    <3>1. CASE d = c
      BY <1>1, <1>4, <1>5, <3>1, SizesAssumption DEF Inv, TypeOK
    <3>2. CASE d # c
      BY <1>1, <1>4, <1>5, <3>2, LengthOfNone, SizesAssumption DEF Inv, TypeOK
    <3> QED BY <3>1, <3>2
  <2> QED BY <2>1 DEF WindowIsWhole
<1>10. Measured'
  <2>1. \A d \in Conns \ refused : es[d].storage = <<>>
    BY <1>1, IdleInv
  <2> QED BY <1>1, <1>4, <2>1 DEF Measured
<1>11. (\A d \in Conns : Chain(es[d].p))'
  <2>1. \A d \in Conns : Chain(es'[d].p)
    BY <1>4 DEF Inv
  <2> QED BY <2>1 DEF Chain
<1>12. Filled'
  BY <1>1 DEF Filled, Allocated
<1> QED BY <1>6, <1>7, <1>8, <1>9, <1>10, <1>11, <1>12 DEF Inv

\* What TCP hands over is such a chain, and it is not empty.
LEMMA RecvChain ==
    ASSUME Inv, NEW c \in Conns, RecvData(c)
    PROVE  \E s, h : \E total \in Nat :
               /\ Chain(s) /\ s # <<>> /\ h \in Heaps /\ Allocated(h) = Members(s)
               /\ ChainLength(h, s) = total
               /\ \A p \in Allocated(h) : h[p].body \in Bytes /\ h[p].len > 0
               /\ echoRecv(c, s, h, total)
<1> DEFINE Goal ==
        \E s, h : \E total \in Nat :
            /\ Chain(s) /\ s # <<>> /\ h \in Heaps /\ Allocated(h) = Members(s)
            /\ ChainLength(h, s) = total
            /\ \A p \in Allocated(h) : h[p].body \in Bytes /\ h[p].len > 0
            /\ echoRecv(c, s, h, total)
<1>1. Idle
  BY DEF RecvData, echoRecv
<1>2. heap \in Heaps /\ Allocated(heap) = {} /\ SegLens \subseteq Nat \ {0}
  BY <1>1, IdleInv, SizesAssumption DEF Inv, TypeOK
<1>3. ASSUME NEW p \in Pbufs, NEW n \in SegLens, NEW b \in Bytes,
             echoRecv(c, <<p>>, Received(heap, p, n, 0, b), n)
      PROVE  Goal
  <2>1. PICK h : h = Received(heap, p, n, 0, b)
    OBVIOUS
  <2>2. n \in Nat /\ n > 0
    BY <1>2
  <2>3. h \in Heaps /\ h[p].len = n /\ Allocated(h) = {p} /\ h[p].body = b
    BY <1>2, <2>1, <2>2, ReceivedLast
  <2>4. Chain(<<p>>) /\ <<p>> # <<>>
    BY DEF Chain
  <2>5. Members(<<p>>) = {p}
    BY MembersOfOne
  <2>6. ChainLength(h, <<p>>) = n
    BY <2>3, LengthOfOne
  <2>7. \A q \in Allocated(h) : h[q].body \in Bytes /\ h[q].len > 0
    BY <2>2, <2>3
  <2>8. echoRecv(c, <<p>>, h, n)
    BY <1>3, <2>1
  <2> QED BY <2>2, <2>3, <2>4, <2>5, <2>6, <2>7, <2>8
<1>4. ASSUME NEW p \in Pbufs, NEW n \in SegLens, NEW b \in Bytes,
             NEW q \in Pbufs \ {p}, NEW m \in SegLens, NEW d \in Bytes,
             echoRecv(c, <<p, q>>,
                 Received(Received(heap, q, m, 0, d), p, n, m, b), n + m)
      PROVE  Goal
  <2>1. PICK h : h = Received(Received(heap, q, m, 0, d), p, n, m, b)
    OBVIOUS
  <2>2. n \in Nat /\ m \in Nat /\ n > 0 /\ m > 0
    BY <1>2
  <2>3. /\ h \in Heaps /\ h[p].len = n /\ h[q].len = m /\ Allocated(h) = {p, q}
        /\ h[p].body = b /\ h[q].body = d
    <3>1. q \in Pbufs /\ p # q /\ b \in Bodies /\ d \in Bodies
      BY DEF Bytes
    <3>2. heap \in Heaps
      BY <1>2
    <3>3. DeliveredTwo(h, heap, p, n, b, q, m, d)
      BY <2>1, <2>2, <3>1, <3>2, ReceivedTwo
    <3>4. /\ h \in Heaps /\ h[p].len = n /\ h[q].len = m
          /\ Allocated(h) = Allocated(heap) \cup {p, q}
          /\ h[p].body = b /\ h[q].body = d
      BY <3>3 DEF DeliveredTwo
    <3> QED BY <1>2, <3>4
  <2>4. Chain(<<p, q>>) /\ <<p, q>> # <<>>
    BY DEF Chain
  <2>5. Members(<<p, q>>) = {p, q}
    BY MembersOfTwo
  <2>6. ChainLength(h, <<p, q>>) = n + m
    BY <2>3, LengthOfTwo
  <2>7. n + m \in Nat /\ \A r \in Allocated(h) : h[r].body \in Bytes /\ h[r].len > 0
    BY <2>2, <2>3
  <2>8. echoRecv(c, <<p, q>>, h, n + m)
    BY <1>4, <2>1
  <2> QED BY <2>3, <2>4, <2>5, <2>6, <2>7, <2>8
<1> QED BY <1>3, <1>4 DEF RecvData, FreePbufs

LEMMA RecvDataInv == ASSUME Inv, NEW c \in Conns, RecvData(c) PROVE Inv'
BY RecvChain, RecvInv

\* A round of echoUnpack frees the first pbuf of the chain and no other.
LEMMA UnpackFrees ==
    ASSUME Inv, NEW c \in Conns, echoUnpack(c), NEW s, s = es[c].p, NEW x, x = s[1]
    PROVE  /\ s \in Seq(Pbufs) /\ Head(s) = x /\ x \in Pbufs /\ heap \in Heaps
           /\ s = <<x>> \/ \E q \in Pbufs : q # x /\ s = <<x, q>>
           /\ \A d \in Conns \ {c} : es[d].p = <<>>
           /\ Allocated(heap) = Members(s)
           /\ heap' = [heap EXCEPT ![x] = FreePbuf] /\ heap' \in Heaps
<1>1. running = c /\ s # <<>> /\ heap' = ChopFirst(heap, s)
  BY DEF echoUnpack
<1>2. s \in Seq(Pbufs) /\ Head(s) = x /\ x \in Pbufs /\ heap \in Heaps
  BY <1>1 DEF Inv, TypeOK
<1>3. s = <<x>> \/ \E q \in Pbufs : q # x /\ s = <<x, q>>
  BY <1>1 DEF Inv, Chain
<1>4. \A d \in Conns \ {c} : es[d].p = <<>>
  BY <1>1 DEF Inv, HoldsNoPbuf
<1>5. Allocated(heap) = Members(s)
  <2>1. UNION {Members(es[d].p) : d \in Conns} = Members(s)
    BY <1>4, OneChain
  <2> QED BY <2>1 DEF Inv, HoldsNoPbuf
<1>6. heap' = [heap EXCEPT ![x] = FreePbuf] /\ heap' \in Heaps
  <2>1. Distinct(s)
    BY <1>3 DEF Distinct
  <2>2. \A i \in 1 .. Len(s) : heap[s[i]].ref > 0
    BY <1>2, <1>5 DEF Members, Allocated
  <2>3. FreePbuf \in PbufRecord
    BY BodiesAssumption DEF FreePbuf, PbufRecord
  <2>4. heap' = [heap EXCEPT ![s[1]] = FreePbuf]
    BY <1>1, <1>2, <2>1, <2>2, ChopFirstFrees
  <2> QED BY <1>2, <2>3, <2>4 DEF Heaps
<1> QED BY <1>2, <1>3, <1>4, <1>5, <1>6

\* One round of echoUnpack.
LEMMA UnpackInv == ASSUME Inv, NEW c \in Conns, echoUnpack(c) PROVE Inv'
<1> DEFINE s == es[c].p
           x == s[1]
           k == heap[x].len
<1>1. /\ running = c /\ running' = running /\ tcp' = tcp /\ sending' = sending
      /\ refused' = refused /\ came' = came /\ s # <<>>
      /\ heap' = ChopFirst(heap, s)
  BY DEF echoUnpack
<1>2. /\ s \in Seq(Pbufs) /\ Head(s) = x /\ x \in Pbufs /\ heap \in Heaps
      /\ es \in [Conns -> [state : EchoStates, p : Seq(Pbufs), storage : Seq(Bytes)]]
      /\ es[c].storage \in Seq(Bytes)
  BY <1>1, UnpackFrees DEF Inv, TypeOK
<1>3. k \in Nat /\ heap[x] \in PbufRecord
  BY <1>2 DEF Heaps, PbufRecord
<1>4. \/ s = <<x>>
      \/ \E q \in Pbufs : q # x /\ s = <<x, q>>
  BY UnpackFrees
<1>5. \A d \in Conns \ {c} : es[d].p = <<>>
  BY UnpackFrees
<1>6. Allocated(heap) = Members(s)
  BY UnpackFrees
<1>7. heap' = [heap EXCEPT ![x] = FreePbuf] /\ heap' \in Heaps
  BY UnpackFrees
<1> DEFINE Rest == /\ Allocated(heap') = Members(Tail(s)) /\ Chain(Tail(s))
                   /\ Tail(s) \in Seq(Pbufs)
                   /\ ChainLength(heap, s) = k + ChainLength(heap', Tail(s))
                   /\ ChainLength(heap', Tail(s)) \in Nat
<1>8. Rest
  <2> HIDE DEF s, x
  <2>1. Allocated(heap') = Allocated(heap) \ {x}
    BY <1>2, <1>7 DEF Heaps, Allocated, FreePbuf
  <2>2. CASE s = <<x>>
    <3>1. Tail(s) = <<>> /\ Members(s) = {x} /\ Members(Tail(s)) = {} /\ Tail(s) \in Seq(Pbufs)
      BY <1>2, <2>2, MembersOfNone, MembersOfOne
    <3>2. ChainLength(heap', Tail(s)) = 0 /\ ChainLength(heap, s) = k
      BY <1>2, <1>7, <2>2, <3>1, LengthOfNone, LengthOfOne
    <3> QED BY <1>3, <1>6, <2>1, <3>1, <3>2 DEF Chain
  <2>3. ASSUME NEW q \in Pbufs, q # x, s = <<x, q>> PROVE Rest
    <3>1. Tail(s) = <<q>> /\ Members(s) = {x, q} /\ Members(Tail(s)) = {q} /\ Tail(s) \in Seq(Pbufs)
      BY <1>2, <2>3, MembersOfOne, MembersOfTwo
    <3>2. heap'[q] = heap[q] /\ heap[q].len \in Nat
      BY <1>2, <1>7, <2>3 DEF Heaps, PbufRecord
    <3>3. ChainLength(heap', Tail(s)) = heap[q].len /\ ChainLength(heap, s) = k + heap[q].len
      <4>1. ChainLength(heap', <<q>>) = heap'[q].len
        BY <1>7, LengthOfOne
      <4>2. ChainLength(heap, <<x, q>>) = heap[x].len + heap[q].len
        BY <1>2, LengthOfTwo
      <4> QED BY <2>3, <3>1, <3>2, <4>1, <4>2
    <3>4. Allocated(heap') = {q} /\ Chain(Tail(s))
      BY <1>6, <2>1, <2>3, <3>1 DEF Chain
    <3> QED BY <1>3, <3>1, <3>2, <3>3, <3>4
  <2> QED BY <1>4, <2>2, <2>3
<1> DEFINE bytes == [i \in 1 .. k |-> heap[x].body]
<1>9. bytes \in Seq(Bytes) /\ Len(bytes) = k
  <2>1. x \in Allocated(heap)
    BY <1>1, <1>2, <1>6 DEF Members
  <2>2. heap[x].body \in Bytes
    BY <2>1 DEF Inv, Filled
  <2> HIDE DEF Bytes
  <2> QED BY <1>3, <2>2
<1>10. /\ es' \in [Conns -> [state : EchoStates, p : Seq(Pbufs), storage : Seq(Bytes)]]
       /\ es'[c].p = Tail(s) /\ es'[c].state = es[c].state
       /\ Len(es'[c].storage) = Len(es[c].storage) + k
       /\ \A d \in Conns \ {c} : es'[d] = es[d]
  <2>1. es' = [es EXCEPT ![c].storage = es[c].storage \o bytes, ![c].p = Tail(s)]
    BY <1>2 DEF echoUnpack, first, copied
  <2>2. /\ es[c].storage \o bytes \in Seq(Bytes)
        /\ Len(es[c].storage \o bytes) = Len(es[c].storage) + k
    <3> DEFINE st == es[c].storage
    <3>1. st \in Seq(Bytes) /\ bytes \in Seq(Bytes) /\ Len(bytes) = k
      BY <1>2, <1>9
    <3> HIDE DEF Bytes, bytes, k, st
    <3>2. st \o bytes \in Seq(Bytes) /\ Len(st \o bytes) = Len(st) + Len(bytes)
      BY <3>1
    <3> QED BY <3>1, <3>2 DEF st
  <2>3. Tail(s) \in Seq(Pbufs)
    BY <1>8
  <2> HIDE DEF Bytes, bytes, s, k
  <2> QED BY <1>2, <2>1, <2>2, <2>3
<1>11. /\ Len(es[c].storage) \in Nat
       /\ rcvWnd \in [Conns -> 0 .. TCP_WND]
       /\ rcvWnd[c] + ChainLength(heap, s) = TCP_WND
       /\ rcvWnd' = [rcvWnd EXCEPT ![c] = rcvWnd[c] + k]
  <2>1. rcvWnd[c] + ChainLength(heap, s) = TCP_WND /\ rcvWnd \in [Conns -> 0 .. TCP_WND]
    BY DEF Inv, TypeOK, WindowIsWhole
  <2>2. rcvWnd[c] \in Nat /\ rcvWnd[c] + k <= TCP_WND
    BY <1>3, <1>8, <2>1, SizesAssumption
  <2>3. rcvWnd' = [rcvWnd EXCEPT ![c] = tcp_recved(rcvWnd[c], heap[x])]
    BY <1>2 DEF echoUnpack, first
  <2> QED BY <1>2, <2>1, <2>2, <2>3 DEF tcp_recved
<1> HIDE DEF s, k, bytes
<1>12. TypeOK'
  <2>1. Len(es'[c].storage) <= STORAGE_SIZE_BYTES
    BY <1>2, <1>10 DEF echoUnpack, fits, first, nextFreeStoragePos, s, k
  <2>2. \A d \in Conns : Len(es'[d].storage) <= STORAGE_SIZE_BYTES
    BY <1>10, <2>1 DEF Inv, TypeOK, nextFreeStoragePos
  <2>3. rcvWnd[c] + k \in 0 .. TCP_WND
    <3>1. PICK l : l = ChainLength(heap', Tail(s))
      OBVIOUS
    <3>2. l \in Nat /\ rcvWnd[c] + (k + l) = TCP_WND
      BY <1>8, <1>11, <3>1
    <3>3. k \in Nat /\ rcvWnd[c] \in 0 .. TCP_WND
      BY <1>3, <1>11 DEF k
    <3> QED BY <3>2, <3>3, SizesAssumption
  <2>4. rcvWnd' \in [Conns -> 0 .. TCP_WND]
    BY <1>11, <2>3
  <2> QED BY <1>1, <1>7, <1>10, <2>2, <2>4 DEF Inv, TypeOK, nextFreeStoragePos
<1>13. HoldsNoPbuf' /\ Filled' /\ (\A d \in Conns : Chain(es[d].p))'
  <2>1. UNION {Members(es'[d].p) : d \in Conns} = Members(Tail(s))
    <3> DEFINE M(d) == Members(es'[d].p)
    <3>1. M(c) = Members(Tail(s)) /\ \A d \in Conns \ {c} : M(d) = {}
      BY <1>5, <1>10, MembersOfNone
    <3> HIDE DEF M
    <3>2. UNION {M(d) : d \in Conns} = Members(Tail(s))
      BY <3>1
    <3> QED BY <3>2 DEF M
  <2>2. \A d \in Conns : es'[d].p # <<>> => running' = d
    BY <1>1, <1>5, <1>10
  <2>3. HoldsNoPbuf'
    BY <1>8, <2>1, <2>2 DEF HoldsNoPbuf
  <2>4. Filled'
    BY <1>2, <1>7 DEF Inv, Filled, Allocated, Heaps, FreePbuf
  <2>5. \A d \in Conns : Chain(es'[d].p)
    BY <1>8, <1>10 DEF Inv
  <2> QED BY <2>3, <2>4, <2>5 DEF Chain
<1>14. Sessions'
  BY <1>1, <1>10 DEF Inv, Sessions
<1>15. WindowIsWhole'
  <2>1. rcvWnd'[c] + ChainLength(heap', es'[c].p) = TCP_WND
    BY <1>3, <1>8, <1>10, <1>11, SizesAssumption DEF k
  <2>2. ASSUME NEW d \in Conns \ {c} PROVE rcvWnd'[d] + ChainLength(heap', es'[d].p) = TCP_WND
    <3>1. es[d].p = <<>> /\ es'[d].p = <<>> /\ rcvWnd'[d] = rcvWnd[d]
      BY <1>5, <1>10, <1>11
    <3>2. ChainLength(heap', <<>>) = 0 /\ ChainLength(heap, <<>>) = 0
      BY <1>2, <1>7, LengthOfNone
    <3> QED BY <3>1, <3>2 DEF Inv, WindowIsWhole
  <2> QED BY <2>1, <2>2 DEF WindowIsWhole
<1>16. Measured'
  <2>1. ASSUME c \notin refused PROVE Len(es'[c].storage) + ChainLength(heap', es'[c].p) = came
    <3>1. Len(es[c].storage) + ChainLength(heap, s) = came
      BY <1>1, <2>1 DEF Inv, Measured, s
    <3>2. /\ Len(es'[c].storage) = Len(es[c].storage) + k
          /\ ChainLength(heap, s) = k + ChainLength(heap', Tail(s))
          /\ es'[c].p = Tail(s)
      BY <1>8, <1>10
    <3> DEFINE was == Len(es[c].storage)
               rest == ChainLength(heap', Tail(s))
    <3>3. k \in Nat /\ was \in Nat /\ rest \in Nat /\ was + (k + rest) = came
      BY <1>3, <1>8, <1>11, <3>1, <3>2
    <3>4. Len(es'[c].storage) + ChainLength(heap', es'[c].p) = (was + k) + rest
      BY <3>2
    <3> HIDE DEF was, rest
    <3>5. (was + k) + rest = came
      BY <3>3
    <3> QED BY <3>4, <3>5
  <2>2. \A d \in Conns \ refused : d # c => es'[d].storage = <<>>
    BY <1>1, <1>10 DEF Inv, Measured
  <2> QED BY <1>1, <2>1, <2>2 DEF Measured
<1> QED BY <1>12, <1>13, <1>14, <1>15, <1>16 DEF Inv

-----------------------------------------------------------------------------
THEOREM Invariance == Spec => []Inv
<1>1. Inv /\ [Next]_vars => Inv'
  <2> SUFFICES ASSUME Inv, [Next]_vars PROVE Inv'
    OBVIOUS
  <2>1. CASE UNCHANGED vars
    BY <2>1 DEF vars, Inv, TypeOK, Filled, Chain, HoldsNoPbuf, Sessions, WindowIsWhole,
                Measured, Allocated, nextFreeStoragePos
  <2> QED BY <2>1, SynInv, AcceptInv, ErrorInv, FinInv, LastAckInv, RecvDataInv, UnpackInv,
             SendInv, PollInv, AckedInv DEF Next
<1> QED BY <1>1, InitInv, PTL DEF Spec

\* In particular echoUnpack never copies beyond the storage.
THEOREM TypeCorrect == Spec => []TypeOK
<1>1. Inv => TypeOK
  BY DEF Inv
<1> QED BY <1>1, Invariance, PTL

\* The pool has every pbuf back when a callback returns.
THEOREM HoldsNoPbufHolds == Spec => []HoldsNoPbuf
<1>1. Inv => HoldsNoPbuf
  BY DEF Inv
<1> QED BY <1>1, Invariance, PTL

\* What echoUnpack reports as read is what was received.
THEOREM WindowIsWholeHolds == Spec => []WindowIsWhole
<1>1. Inv => WindowIsWhole
  BY DEF Inv
<1> QED BY <1>1, Invariance, PTL

\* Nothing but too long a chain or a tcp_write that failed makes echoUnpack spin.
THEOREM SpinsOnlyWhenOverfullHolds == Spec => []SpinsOnlyWhenOverfull
<1>1. Inv => SpinsOnlyWhenOverfull
  <2> SUFFICES ASSUME Inv, NEW c \in Conns, Spins(c), c \notin refused
               PROVE  came > STORAGE_SIZE_BYTES
    BY DEF SpinsOnlyWhenOverfull
  <2>1. Len(es[c].storage) + ChainLength(heap, es[c].p) = came
    BY DEF Inv, Measured, Spins
  <2>2. heap[Head(es[c].p)].len <= ChainLength(heap, es[c].p)
        /\ ChainLength(heap, es[c].p) \in Nat /\ heap[Head(es[c].p)].len \in Nat
    <3>1. heap \in Heaps /\ es[c].p # <<>> /\ Chain(es[c].p)
      BY DEF Inv, TypeOK, Spins
    <3>2. CASE \E p \in Pbufs : es[c].p = <<p>>
      BY <3>1, <3>2, LengthOfOne DEF Heaps, PbufRecord
    <3>3. CASE \E p, q \in Pbufs : es[c].p = <<p, q>>
      <4>1. PICK p, q \in Pbufs : es[c].p = <<p, q>>
        BY <3>3
      <4>2. heap[p].len \in Nat /\ heap[q].len \in Nat
        BY <3>1 DEF Heaps, PbufRecord
      <4> QED BY <3>1, <4>1, <4>2, LengthOfTwo
    <3> QED BY <3>1, <3>2, <3>3 DEF Chain
  <2>3. Len(es[c].storage) \in Nat
    BY DEF Inv, TypeOK
  <2>4. Len(es[c].storage) + heap[Head(es[c].p)].len > STORAGE_SIZE_BYTES
    BY <2>2, <2>3, SizesAssumption DEF Spins, fits, first, nextFreeStoragePos
  <2> QED BY <2>1, <2>2, <2>3, <2>4, SizesAssumption
<1> QED BY <1>1, Invariance, PTL

-----------------------------------------------------------------------------
(* The refinement.                                                         *)

\* What is in a chain that was received.
LEMMA ChainContents ==
    ASSUME NEW h \in Heaps, NEW s, Chain(s), Members(s) \subseteq Allocated(h),
           \A p \in Allocated(h) : h[p].body \in Bytes
    PROVE  /\ Contents(h, s) \in Seq(Bytes)
           /\ s # <<>> /\ (\A p \in Allocated(h) : h[p].len > 0) => Len(Contents(h, s)) > 0
<1>1. ASSUME NEW p \in Members(s), NEW q, q = Payload(h[p])
      PROVE  /\ q \in Seq(Bytes) /\ Len(q) \in Nat
             /\ (\A r \in Allocated(h) : h[r].len > 0) => Len(q) > 0
  <2>1. p \in Pbufs /\ h[p].len \in Nat /\ h[p].body \in Bytes
    BY DEF Heaps, PbufRecord, Allocated
  <2>2. q \in Seq(Bytes) /\ Len(q) = h[p].len
    BY <1>1, <2>1, PayloadType
  <2> QED BY <2>1, <2>2
<1>2. CASE s = <<>>
  <2>1. Contents(h, s) = <<>>
    BY <1>2, ContentsOfNone
  <2>2. <<>> \in Seq(Bytes)
    OBVIOUS
  <2> QED BY <1>2, <2>1, <2>2
<1>3. ASSUME NEW p \in Pbufs, s = <<p>>
      PROVE  /\ Contents(h, s) \in Seq(Bytes)
             /\ s # <<>> /\ (\A r \in Allocated(h) : h[r].len > 0) => Len(Contents(h, s)) > 0
  BY <1>1, <1>3, ContentsOfOne, MembersOfOne
<1>4. ASSUME NEW p \in Pbufs, NEW q \in Pbufs, s = <<p, q>>
      PROVE  /\ Contents(h, s) \in Seq(Bytes)
             /\ s # <<>> /\ (\A r \in Allocated(h) : h[r].len > 0) => Len(Contents(h, s)) > 0
  <2>1. PICK x, y : x = Payload(h[p]) /\ y = Payload(h[q])
    OBVIOUS
  <2>2. p \in Members(s) /\ q \in Members(s)
    <3>1. Members(s) = {p, q}
      BY <1>4, MembersOfTwo
    <3> QED BY <3>1
  <2>3. /\ x \in Seq(Bytes) /\ y \in Seq(Bytes) /\ Len(x) \in Nat /\ Len(y) \in Nat
        /\ (\A r \in Allocated(h) : h[r].len > 0) => Len(x) > 0
    BY <1>1, <2>1, <2>2
  <2>4. x \o y \in Seq(Bytes) /\ Len(x \o y) = Len(x) + Len(y)
    BY <2>3, ConcatProperties
  <2>5. Contents(h, s) = x \o y
    BY <1>4, <2>1, ContentsOfTwo
  <2> QED BY <2>3, <2>4, <2>5
<1> QED BY <1>2, <1>3, <1>4 DEF Chain

-----------------------------------------------------------------------------
(* The abstract state.                                                     *)

\* What a session has been given and has not handed to TCP.
Got(e, h) == e.storage \o Contents(h, e.p)
Pending == [c \in Conns |-> es[c].storage \o Contents(heap, es[c].p)]
Open == {c \in Conns : HasSession(c)}

\* What the steps need besides Inv: a callback has something to send, and a
\* connection that begins has nothing from an earlier one.
Sound ==
    /\ \A c \in Conns :
           /\ tcp[c] \in {"free", "syn_rcvd"} => sending[c] = <<>>
           /\ es[c].state = "none" => es[c].storage = <<>>
           /\ running = c => es[c].p # <<>> \/ es[c].storage # <<>>
    /\ \A p \in Allocated(heap) : heap[p].len > 0

\* Without a chain, that is what is in the storage.
LEMMA GotStorage ==
    ASSUME NEW h, NEW e, e.p = <<>>, e.storage \in Seq(Bytes)
    PROVE  Got(e, h) = e.storage
<1>1. Contents(h, <<>>) = <<>>
  BY ContentsOfNone
<1> QED BY <1>1, ConcatEmptySeq DEF Got

LEMMA PendingType ==
    ASSUME Inv, NEW c \in Conns
    PROVE  /\ Pending[c] = Got(es[c], heap) /\ Pending[c] \in Seq(Bytes)
           /\ es[c].storage \in Seq(Bytes)
           /\ es[c].p = <<>> => Pending[c] = es[c].storage
<1>1. es[c].storage \in Seq(Bytes) /\ heap \in Heaps /\ Chain(es[c].p)
  BY DEF Inv, TypeOK
<1>2. Members(es[c].p) \subseteq Allocated(heap)
  BY DEF Inv, HoldsNoPbuf
<1>3. \A p \in Allocated(heap) : heap[p].body \in Bytes
  BY DEF Inv, Filled
<1>4. Contents(heap, es[c].p) \in Seq(Bytes)
  BY <1>1, <1>2, <1>3, ChainContents
<1>5. Pending[c] = Got(es[c], heap)
  BY DEF Pending, Got
<1>6. Got(es[c], heap) \in Seq(Bytes)
  BY <1>1, <1>4, ConcatProperties DEF Got
<1> QED BY <1>1, <1>5, <1>6, GotStorage

\* A step between callbacks leaves what is pending of all other sessions.
LEMMA QuietPending ==
    ASSUME Inv, Idle, NEW c \in Conns, NEW e, e.p = <<>>, e.storage \in Seq(Bytes),
           es' = [es EXCEPT ![c] = e], heap' = heap
    PROVE  /\ Pending' = [Pending EXCEPT ![c] = e.storage]
           /\ Pending[c] = es[c].storage
           /\ Open' = IF e.state # "none" THEN Open \cup {c} ELSE Open \ {c}
<1>1. /\ es'[c] = e /\ \A d \in Conns \ {c} : es'[d] = es[d]
      /\ es[c].p = <<>>
  BY IdleInv DEF Inv, TypeOK
<1>2. Pending[c] = es[c].storage
  BY <1>1, PendingType
<1>3. Got(e, heap) = e.storage
  BY GotStorage
<1>4. Pending' = [d \in Conns |-> Got(es'[d], heap)]
  BY DEF Pending, Got
<1>5. Pending = [d \in Conns |-> Got(es[d], heap)]
  BY DEF Pending, Got
<1>6. Pending' = [Pending EXCEPT ![c] = e.storage]
  BY <1>1, <1>3, <1>4, <1>5
<1>7. Open' = IF e.state # "none" THEN Open \cup {c} ELSE Open \ {c}
  BY <1>1 DEF Open, HasSession
<1> QED BY <1>2, <1>6, <1>7

-----------------------------------------------------------------------------
(* Every step is one of the abstract server's, or one it does not see.     *)

Abstract(c) == \/ Echo!Open(c) \/ Echo!Receive(c) \/ Echo!Echo(c) \/ Echo!RunShort(c)
               \/ Echo!Acknowledged(c) \/ Echo!Finish(c) \/ Echo!Break(c)
               \/ UNCHANGED Echo!vars

LEMMA Unseen ==
    ASSUME NEW c \in Conns, Open' = Open, Pending' = Pending, sending' = sending,
           refused' = refused
    PROVE  Abstract(c)
<1>1. UNCHANGED Echo!vars
  BY DEF Echo!vars, Open, Pending
<1> QED BY <1>1 DEF Abstract

LEMMA SameEs ==
    ASSUME es' = es, heap' = heap
    PROVE  Open' = Open /\ Pending' = Pending
BY DEF Open, Pending, HasSession

LEMMA SynStep == ASSUME Inv, Sound, NEW c \in Conns, Syn(c) PROVE Sound' /\ Abstract(c)
<1>1. tcp[c] = "free" /\ es' = es /\ heap' = heap /\ sending' = sending /\ refused' = refused
      /\ running' = running /\ \A d \in Conns \ {c} : tcp'[d] = tcp[d]
  BY DEF Syn, Inv, TypeOK
<1>2. Sound'
  BY <1>1 DEF Sound, Allocated
<1> QED BY <1>1, <1>2, SameEs, Unseen

LEMMA LastAckStep == ASSUME Inv, Sound, NEW c \in Conns, LastAck(c) PROVE Sound' /\ Abstract(c)
<1>1. sending[c] = <<>> /\ es' = es /\ heap' = heap /\ sending' = sending /\ refused' = refused
      /\ running' = running /\ \A d \in Conns \ {c} : tcp'[d] = tcp[d]
  BY DEF LastAck, Inv, TypeOK
<1>2. Sound'
  BY <1>1 DEF Sound, Allocated
<1> QED BY <1>1, <1>2, SameEs, Unseen

LEMMA PollStep == ASSUME Inv, Sound, NEW c \in Conns, echoPoll(c) PROVE Sound' /\ Abstract(c)
<1>1. tcp' = tcp /\ es' = es /\ heap' = heap /\ sending' = sending /\ refused' = refused
      /\ running' = c /\ Len(es[c].storage) # 0
  BY DEF echoPoll, nextFreeStoragePos
<1>2. es[c].storage # <<>>
  BY <1>1
<1>3. Sound'
  BY <1>1, <1>2 DEF Sound, Allocated
<1> QED BY <1>1, <1>3, SameEs, Unseen

\* The session of c begins.
LEMMA BegunPending ==
    ASSUME Inv, Idle, NEW c \in Conns, es' = [es EXCEPT ![c] = NewEs], heap' = heap
    PROVE  /\ Pending' = [Pending EXCEPT ![c] = <<>>] /\ Open' = Open \cup {c}
           /\ Pending[c] = es[c].storage
<1>1. PICK e : e = NewEs
  OBVIOUS
<1>2. e.p = <<>> /\ e.storage = <<>> /\ e.state # "none"
  BY <1>1 DEF NewEs
<1>3. e.storage \in Seq(Bytes) /\ es' = [es EXCEPT ![c] = e]
  BY <1>1, <1>2
<1>4. /\ Pending' = [Pending EXCEPT ![c] = e.storage]
      /\ Pending[c] = es[c].storage
      /\ Open' = IF e.state # "none" THEN Open \cup {c} ELSE Open \ {c}
  BY <1>2, <1>3, QuietPending
<1> QED BY <1>2, <1>4

LEMMA AcceptStep == ASSUME Inv, Sound, NEW c \in Conns, echoAccept(c) PROVE Sound' /\ Abstract(c)
<1>1. /\ Idle /\ tcp[c] = "syn_rcvd" /\ heap' = heap /\ sending' = sending /\ refused' = refused
      /\ running' = running /\ es[c].state = "none"
  BY DEF echoAccept, Inv, Sessions
<1>2. sending[c] = <<>> /\ es[c].storage = <<>> /\ running # c
  BY <1>1, ConnsAssumption DEF Sound, Idle
<1>3. CASE tcp' = [tcp EXCEPT ![c] = "established"] /\ es' = [es EXCEPT ![c] = NewEs]
  <2>1. NewEs.p = <<>> /\ NewEs.storage = <<>> /\ NewEs.state # "none" /\ <<>> \in Seq(Bytes)
    BY DEF NewEs
  <2>2. /\ Pending' = [Pending EXCEPT ![c] = <<>>] /\ Pending[c] = <<>>
        /\ Open' = Open \cup {c}
    BY <1>1, <1>2, <1>3, BegunPending
  <2>3. Pending' = Pending /\ c \notin Open
    BY <1>1, <2>2 DEF Pending, Open, HasSession
  <2>4. Echo!Open(c)
    BY <1>1, <1>2, <2>2, <2>3 DEF Echo!Open, Pending, Open
  <2>5. \A d \in Conns \ {c} : tcp'[d] = tcp[d] /\ es'[d] = es[d]
    BY <1>3 DEF Inv, TypeOK
  <2>6. tcp'[c] = "established" /\ es'[c].state # "none"
    BY <1>3, <2>1 DEF Inv, TypeOK
  <2>7. Sound'
    BY <1>1, <1>2, <2>5, <2>6 DEF Sound, Allocated
  <2> QED BY <2>4, <2>7 DEF Abstract
<1>4. CASE tcp' = [tcp EXCEPT ![c] = "free"] /\ es' = es
  <2>1. \A d \in Conns \ {c} : tcp'[d] = tcp[d]
    BY <1>4 DEF Inv, TypeOK
  <2>2. Sound'
    BY <1>1, <1>2, <1>4, <2>1 DEF Sound, Allocated
  <2> QED BY <1>1, <1>4, <2>2, SameEs, Unseen
<1> QED BY <1>3, <1>4 DEF echoAccept

\* The session of c ends.
LEMMA EndedPending ==
    ASSUME Inv, Idle, NEW c \in Conns, es' = [es EXCEPT ![c] = NoEs], heap' = heap
    PROVE  /\ Pending' = [Pending EXCEPT ![c] = <<>>] /\ Open' = Open \ {c}
           /\ Pending[c] = es[c].storage
<1>1. PICK e : e = NoEs
  OBVIOUS
<1>2. e.p = <<>> /\ e.storage = <<>> /\ e.state = "none"
  BY <1>1 DEF NoEs
<1>3. e.storage \in Seq(Bytes) /\ es' = [es EXCEPT ![c] = e]
  BY <1>1, <1>2
<1>4. /\ Pending' = [Pending EXCEPT ![c] = e.storage]
      /\ Pending[c] = es[c].storage
      /\ Open' = IF e.state # "none" THEN Open \cup {c} ELSE Open \ {c}
  BY <1>2, <1>3, QuietPending
<1> QED BY <1>2, <1>4

LEMMA ErrorStep == ASSUME Inv, Sound, NEW c \in Conns, echoError(c) PROVE Sound' /\ Abstract(c)
<1>1. /\ Idle /\ heap' = heap /\ sending' = [sending EXCEPT ![c] = <<>>]
      /\ refused' = refused \ {c} /\ running' = running /\ es' = [es EXCEPT ![c] = NoEs]
  BY DEF echoError
<1>2. NoEs.p = <<>> /\ NoEs.storage = <<>> /\ NoEs.state = "none" /\ <<>> \in Seq(Bytes)
  BY DEF NoEs
<1>3. Pending' = [Pending EXCEPT ![c] = <<>>] /\ Open' = Open \ {c}
  BY <1>1, EndedPending
<1>4. Echo!Break(c)
  BY <1>1, <1>3 DEF Echo!Break, Pending, Open
<1>5. \A d \in Conns : running # d
  BY <1>1, ConnsAssumption DEF Idle
<1>6. /\ sending'[c] = <<>> /\ es'[c].storage = <<>>
      /\ \A d \in Conns \ {c} : tcp'[d] = tcp[d] /\ es'[d] = es[d] /\ sending'[d] = sending[d]
  BY <1>1, <1>2 DEF echoError, Inv, TypeOK
<1>7. Sound'
  BY <1>1, <1>5, <1>6 DEF Sound, Allocated
<1> QED BY <1>4, <1>7 DEF Abstract

LEMMA FinStep == ASSUME Inv, Sound, NEW c \in Conns, echoRecvFin(c) PROVE Sound' /\ Abstract(c)
<1>1. /\ Idle /\ heap' = heap /\ sending' = sending /\ tcp[c] = "established"
      /\ refused' = refused \ {c} /\ running' = running /\ es' = [es EXCEPT ![c] = NoEs]
  BY DEF echoRecvFin
<1>2. NoEs.p = <<>> /\ NoEs.storage = <<>> /\ NoEs.state = "none" /\ <<>> \in Seq(Bytes)
  BY DEF NoEs
<1>3. /\ Pending' = [Pending EXCEPT ![c] = <<>>] /\ Open' = Open \ {c}
      /\ Pending[c] = es[c].storage
  BY <1>1, EndedPending
<1>4. c \in Open /\ (Pending[c] # <<>> => c \in refused)
  BY <1>1, <1>3, IdleInv DEF Open, HasSession, Inv, Sessions
<1>5. Echo!Finish(c)
  BY <1>1, <1>3, <1>4 DEF Echo!Finish, Pending, Open
<1>6. \A d \in Conns : running # d
  BY <1>1, ConnsAssumption DEF Idle
<1>7. /\ tcp'[c] = "last_ack" /\ es'[c].storage = <<>>
      /\ \A d \in Conns \ {c} : tcp'[d] = tcp[d] /\ es'[d] = es[d]
  BY <1>1, <1>2, IdleInv DEF echoRecvFin, Inv, TypeOK
<1>8. Sound'
  BY <1>1, <1>6, <1>7 DEF Sound, Allocated
<1> QED BY <1>5, <1>8 DEF Abstract

-----------------------------------------------------------------------------
(* Prefixes and suffixes.                                                  *)

LEMMA LongerSeq ==
    ASSUME NEW s \in Seq(Bytes), NEW x \in Seq(Bytes), Len(x) > 0
    PROVE  Echo!IsStrictPrefix(s, s \o x) /\ Echo!Range(s \o x) \subseteq Bytes
<1>1. PICK u : u = s \o x
  OBVIOUS
<1>2. u \in Seq(Bytes) /\ Len(u) = Len(s) + Len(x) /\ Len(s) \in Nat /\ Len(x) \in Nat
  BY <1>1, ConcatProperties, LenProperties
<1>3. SubSeq(s, 1, Len(s)) = SubSeq(u, 1, Len(s))
  <2>1. CASE Len(s) = 0
    BY <2>1, SubSeqEmpty
  <2>2. CASE Len(s) # 0
    <3>1. 1 \in 1 .. Len(s) /\ Len(s) \in 1 .. Len(s)
      BY <1>2, <2>2
    <3> QED BY <1>1, <3>1, SubSeqOfConcat1
  <2> QED BY <2>1, <2>2
<1>4. Len(s) <= Len(u) /\ s # u
  BY <1>2
<1>5. Echo!IsStrictPrefix(s, u)
  BY <1>3, <1>4 DEF Echo!IsStrictPrefix, Echo!IsPrefix
<1>6. Echo!Range(u) \subseteq Bytes
  BY <1>2 DEF Echo!Range
<1> QED BY <1>1, <1>5, <1>6

LEMMA ShorterSeq ==
    ASSUME NEW s \in Seq(Bytes), NEW n \in 1 .. Len(s)
    PROVE  /\ Echo!IsSuffix(SubSeq(s, n + 1, Len(s)), s)
           /\ SubSeq(s, n + 1, Len(s)) \in Seq(Bytes)
<1> DEFINE k == Len(s) - n
<1>1. PICK t : t = SubSeq(s, n + 1, Len(s))
  OBVIOUS
<1>2. Len(s) \in Nat /\ n \in Nat /\ k \in Nat /\ n + 1 \in Int /\ Len(s) \in Int /\ k <= Len(s)
  BY LenProperties
<1>3. t \in Seq(Bytes) /\ Len(t) = k /\ \A i \in 1 .. k : t[i] = s[n + i]
  <2>1. \A i \in n + 1 .. Len(s) : s[i] \in Bytes
    BY <1>2, LenProperties, ElementOfSeq
  <2>2. /\ t \in Seq(Bytes)
        /\ Len(t) = IF n + 1 <= Len(s) THEN Len(s) - (n + 1) + 1 ELSE 0
        /\ \A i \in 1 .. Len(s) - (n + 1) + 1 : t[i] = s[(n + 1) + i - 1]
    BY <1>1, <1>2, <2>1, SubSeqProperties
  <2>3. \A i \in 1 .. k : (n + 1) + i - 1 = n + i /\ i \in 1 .. Len(s) - (n + 1) + 1
    BY <1>2
  <2>4. Len(t) = k
    BY <1>2, <2>2
  <2>5. \A i \in 1 .. k : t[i] = s[n + i]
    BY <2>2, <2>3
  <2> QED BY <2>2, <2>4, <2>5
<1> HIDE DEF k
<1>4. PICK a, b : a = Echo!Reverse(t) /\ b = Echo!Reverse(s)
  OBVIOUS
<1>5. /\ a = [i \in 1 .. k |-> t[(k - i) + 1]]
      /\ b = [i \in 1 .. Len(s) |-> s[(Len(s) - i) + 1]]
  BY <1>3, <1>4 DEF Echo!Reverse
<1>6. \A i \in 1 .. k : a[i] = b[i]
  <2>1. SUFFICES ASSUME NEW i \in 1 .. k PROVE a[i] = b[i]
    OBVIOUS
  <2>2. (k - i) + 1 \in 1 .. k /\ n + ((k - i) + 1) = (Len(s) - i) + 1 /\ i \in 1 .. Len(s)
    BY <1>2 DEF k
  <2>3. t[(k - i) + 1] = s[n + ((k - i) + 1)]
    BY <1>3, <2>2
  <2>4. a[i] = t[(k - i) + 1] /\ b[i] = s[(Len(s) - i) + 1]
    BY <1>5, <2>2
  <2> QED BY <2>2, <2>3, <2>4
<1>7. /\ a \in Seq(Bytes) /\ Len(a) = k /\ b \in Seq(Bytes) /\ Len(b) = Len(s)
  <2>1. \A i \in 1 .. k : t[(k - i) + 1] \in Bytes
    <3>1. \A i \in 1 .. k : (k - i) + 1 \in 1 .. Len(t)
      BY <1>2, <1>3
    <3> QED BY <1>3, <3>1, ElementOfSeq
  <2>2. \A i \in 1 .. Len(s) : s[(Len(s) - i) + 1] \in Bytes
    <3>1. \A i \in 1 .. Len(s) : (Len(s) - i) + 1 \in 1 .. Len(s)
      BY <1>2
    <3> QED BY <3>1, ElementOfSeq
  <2>3. a \in Seq(Bytes) /\ Len(a) = k
    BY <1>2, <1>5, <2>1
  <2>4. b \in Seq(Bytes) /\ Len(b) = Len(s)
    BY <1>2, <1>5, <2>2
  <2> QED BY <2>3, <2>4
<1>8. SubSeq(a, 1, k) = SubSeq(b, 1, k)
  <2>1. \A i \in 1 .. k : a[i] \in Bytes /\ b[i] \in Bytes
    <3>1. \A i \in 1 .. k : a[i] \in Bytes
      BY <1>7, ElementOfSeq
    <3> QED BY <1>6, <3>1
  <2>2. PICK x, y : x = SubSeq(a, 1, k) /\ y = SubSeq(b, 1, k)
    OBVIOUS
  <2>3. 1 \in Int /\ k \in Int /\ (1 <= k => k - 1 + 1 = k) /\ (~ 1 <= k => k = 0)
        /\ \A i \in 1 .. k : 1 + i - 1 = i /\ i \in 1 .. k - 1 + 1
    BY <1>2
  <2>4. /\ x \in Seq(Bytes) /\ Len(x) = IF 1 <= k THEN k - 1 + 1 ELSE 0
        /\ \A i \in 1 .. k - 1 + 1 : x[i] = a[1 + i - 1]
    BY <2>1, <2>2, <2>3, SubSeqProperties
  <2>5. /\ y \in Seq(Bytes) /\ Len(y) = IF 1 <= k THEN k - 1 + 1 ELSE 0
        /\ \A i \in 1 .. k - 1 + 1 : y[i] = b[1 + i - 1]
    BY <2>1, <2>2, <2>3, SubSeqProperties
  <2>6. Len(x) = k /\ Len(y) = k
    BY <2>3, <2>4, <2>5
  <2>7. \A i \in 1 .. Len(x) : x[i] = y[i]
    BY <1>6, <2>3, <2>4, <2>5, <2>6
  <2>8. x = y
    BY <2>4, <2>5, <2>6, <2>7, SeqEqual
  <2> QED BY <2>2, <2>8
<1>9. Echo!IsPrefix(a, b)
  BY <1>2, <1>7, <1>8 DEF Echo!IsPrefix
<1>10. Echo!IsSuffix(t, s)
  BY <1>4, <1>9 DEF Echo!IsSuffix
<1> QED BY <1>1, <1>3, <1>10

-----------------------------------------------------------------------------
LEMMA AckedStep == ASSUME Inv, Sound, NEW c \in Conns, Acked(c) PROVE Sound' /\ Abstract(c)
<1>1. PICK n \in 1 .. Len(sending[c]) :
          sending' = [sending EXCEPT ![c] = SubSeq(@, n + 1, Len(@))]
  BY DEF Acked
<1>2. PICK s : s = sending[c]
  OBVIOUS
<1>3. PICK t : t = SubSeq(s, n + 1, Len(s))
  OBVIOUS
<1>4. /\ s \in Seq(Bytes) /\ s # <<>> /\ n \in 1 .. Len(s)
      /\ sending'[c] = t /\ \A d \in Conns \ {c} : sending'[d] = sending[d]
  <2>1. sending \in [Conns -> Seq(Bytes)] /\ s \in Seq(Bytes) /\ n \in 1 .. Len(s)
    BY <1>2 DEF Inv, TypeOK
  <2>2. s # <<>>
    BY <2>1
  <2>3. sending' = [sending EXCEPT ![c] = t]
    BY <1>1, <1>2, <1>3
  <2> QED BY <2>1, <2>2, <2>3
<1>5. Echo!IsSuffix(t, s)
  BY <1>3, <1>4, ShorterSeq
<1>6. es' = es /\ heap' = heap /\ refused' = refused /\ tcp' = tcp /\ running' = running
  BY DEF Acked
<1>7. Open' = Open /\ Pending' = Pending
  BY <1>6, SameEs
<1>8. Echo!Acknowledged(c)
  BY <1>2, <1>4, <1>5, <1>6, <1>7 DEF Echo!Acknowledged, Echo!Only, Open, Pending
<1>9. Sound'
  BY <1>2, <1>4, <1>6 DEF Sound, Allocated
<1> QED BY <1>8, <1>9 DEF Abstract

LEMMA SendFailsStep ==
    ASSUME Inv, Sound, NEW c \in Conns, echoSendFails(c)
    PROVE  Sound' /\ Abstract(c)
<1>1. /\ running = c /\ es[c].p = <<>> /\ refused' = refused \cup {c} /\ running' = None
      /\ tcp' = tcp /\ es' = es /\ heap' = heap /\ sending' = sending
  BY DEF echoSendFails, Returns
<1>2. es[c].storage # <<>>
  BY <1>1 DEF Sound
<1>3. Open' = Open /\ Pending' = Pending /\ Pending[c] # <<>>
  BY <1>1, <1>2, SameEs, PendingType
<1>4. Echo!RunShort(c)
  BY <1>1, <1>3 DEF Echo!RunShort, Open, Pending
<1>5. Sound'
  BY <1>1, ConnsAssumption DEF Sound, Allocated
<1> QED BY <1>4, <1>5 DEF Abstract

LEMMA SendOkStep ==
    ASSUME Inv, Sound, NEW c \in Conns, echoSendOk(c)
    PROVE  Sound' /\ Abstract(c)
<1>1. /\ running = c /\ es[c].p = <<>> /\ refused' = refused \ {c} /\ running' = None
      /\ tcp' = tcp /\ heap' = heap
      /\ sending' = [sending EXCEPT ![c] = @ \o es[c].storage]
      /\ es' = [es EXCEPT ![c].storage = <<>>]
  BY DEF echoSendOk, Returns
<1>2. PICK s : s = es[c].storage
  OBVIOUS
<1>3. s # <<>> /\ s \in Seq(Bytes) /\ Pending[c] = s /\ Len(s) \in 1 .. Len(s)
  <2>1. s # <<>> /\ s \in Seq(Bytes) /\ Pending[c] = s
    BY <1>1, <1>2, PendingType DEF Sound
  <2>2. Len(s) \in Nat \ {0}
    BY <2>1, EmptySeq
  <2> QED BY <2>1, <2>2
<1>4. SubSeq(s, 1, Len(s)) = s /\ SubSeq(s, Len(s) + 1, Len(s)) = <<>>
  <2>1. Len(s) \in Nat /\ Len(s) + 1 \in Int /\ Len(s) < Len(s) + 1
    BY <1>3
  <2>2. SubSeq(s, 1, Len(s)) = s
    BY <1>3, SubSeqFull
  <2>3. SubSeq(s, Len(s) + 1, Len(s)) = <<>>
    BY <2>1, SubSeqEmpty
  <2> QED BY <2>2, <2>3
<1>5. /\ es'[c].p = <<>> /\ es'[c].storage = <<>> /\ es'[c].state = es[c].state
      /\ \A d \in Conns \ {c} : es'[d] = es[d]
  <2>1. es \in [Conns -> [state : EchoStates, p : Seq(Pbufs), storage : Seq(Bytes)]]
    BY DEF Inv, TypeOK
  <2> HIDE DEF Bytes
  <2> QED BY <1>1, <2>1
<1>6. Pending' = [Pending EXCEPT ![c] = <<>>]
  <2>1. Got(es'[c], heap) = <<>>
    <3>1. <<>> \in Seq(Bytes)
      OBVIOUS
    <3> QED BY <1>5, <3>1, GotStorage
  <2>2. Pending' = [d \in Conns |-> Got(es'[d], heap)]
    BY <1>1 DEF Pending, Got
  <2>3. Pending = [d \in Conns |-> Got(es[d], heap)]
    BY DEF Pending, Got
  <2> QED BY <1>5, <2>1, <2>2, <2>3
<1>7. Open' = Open
  BY <1>5 DEF Open, HasSession
<1>8. PICK n : n = Len(s)
  OBVIOUS
<1>9. /\ n \in 1 .. Len(Pending[c])
      /\ sending' = [sending EXCEPT ![c] = @ \o SubSeq(Pending[c], 1, n)]
      /\ Pending' = [Pending EXCEPT ![c] = SubSeq(@, n + 1, Len(@))]
  <2>1. n \in 1 .. Len(Pending[c])
    BY <1>3, <1>8
  <2>2. SubSeq(Pending[c], 1, n) = es[c].storage /\ SubSeq(Pending[c], n + 1, Len(Pending[c])) = <<>>
    BY <1>2, <1>3, <1>4, <1>8
  <2>3. sending' = [sending EXCEPT ![c] = @ \o SubSeq(Pending[c], 1, n)]
    BY <1>1, <2>2
  <2>4. Pending' = [Pending EXCEPT ![c] = SubSeq(Pending[c], n + 1, Len(Pending[c]))]
    BY <1>6, <2>2
  <2> QED BY <2>1, <2>3, <2>4
<1>10. Echo!Echo(c)
  BY <1>1, <1>7, <1>9 DEF Echo!Echo, Open, Pending
<1>11. Sound'
  <2>1. tcp[c] = "established" /\ \A d \in Conns : running' # d
    BY <1>1, ConnsAssumption DEF Inv, Sessions
  <2>2. \A d \in Conns \ {c} : sending'[d] = sending[d]
    BY <1>1 DEF Inv, TypeOK
  <2> QED BY <1>1, <1>5, <2>1, <2>2 DEF Sound, Allocated
<1> QED BY <1>10, <1>11 DEF Abstract

LEMMA RecvStep ==
    ASSUME Inv, Sound, NEW c \in Conns, NEW s, NEW h, NEW total, Chain(s), s # <<>>,
           h \in Heaps, Allocated(h) = Members(s),
           \A p \in Allocated(h) : h[p].body \in Bytes /\ h[p].len > 0,
           echoRecv(c, s, h, total)
    PROVE  Sound' /\ Abstract(c)
<1>1. /\ Idle /\ tcp[c] = "established" /\ heap' = h /\ running' = c
      /\ tcp' = tcp /\ refused' = refused /\ sending' = sending
      /\ es' = [es EXCEPT ![c].state = "receiving", ![c].p = s]
  BY DEF echoRecv
<1>2. /\ es'[c].p = s /\ es'[c].storage = es[c].storage /\ es'[c].state = "receiving"
      /\ \A d \in Conns \ {c} : es'[d] = es[d]
  <2>1. es \in [Conns -> [state : EchoStates, p : Seq(Pbufs), storage : Seq(Bytes)]]
    BY DEF Inv, TypeOK
  <2> HIDE DEF Bytes
  <2> QED BY <1>1, <2>1
<1>3. PICK x : x = Contents(h, s)
  OBVIOUS
<1>4. x \in Seq(Bytes) /\ Len(x) > 0
  BY <1>3, ChainContents
<1>5. PICK z : z = es[c].storage
  OBVIOUS
<1>6. z \in Seq(Bytes) /\ Pending[c] = z /\ Pending'[c] = z \o x
  <2>1. z \in Seq(Bytes) /\ Pending[c] = z
    BY <1>1, <1>5, PendingType, IdleInv
  <2>2. Pending'[c] = z \o x
    BY <1>1, <1>2, <1>3, <1>5 DEF Pending
  <2> QED BY <2>1, <2>2
<1>7. \A d \in Conns \ {c} : Pending'[d] = Pending[d]
  <2>1. SUFFICES ASSUME NEW d \in Conns \ {c} PROVE Pending'[d] = Pending[d]
    OBVIOUS
  <2>2. es[d].p = <<>> /\ es'[d] = es[d]
    BY <1>1, <1>2, IdleInv
  <2>3. Contents(heap', <<>>) = <<>> /\ Contents(heap, <<>>) = <<>>
    BY ContentsOfNone
  <2> QED BY <2>2, <2>3 DEF Pending
<1>8. Open' = Open /\ c \in Open
  BY <1>1, <1>2 DEF Open, HasSession, Inv, Sessions
<1>9. Echo!IsStrictPrefix(Pending[c], Pending'[c]) /\ Echo!Range(Pending'[c]) \subseteq Bytes
  BY <1>4, <1>6, LongerSeq
<1>10. Echo!Receive(c)
  BY <1>1, <1>7, <1>8, <1>9 DEF Echo!Receive, Echo!Only, Open, Pending
<1>11. Sound'
  BY <1>1, <1>2, ConnsAssumption DEF Sound, Allocated, Idle
<1> QED BY <1>10, <1>11 DEF Abstract

LEMMA RecvDataStep ==
    ASSUME Inv, Sound, NEW c \in Conns, RecvData(c)
    PROVE  Sound' /\ Abstract(c)
<1>1. PICK s, h : \E total \in Nat :
          /\ Chain(s) /\ s # <<>> /\ h \in Heaps /\ Allocated(h) = Members(s)
          /\ ChainLength(h, s) = total
          /\ \A p \in Allocated(h) : h[p].body \in Bytes /\ h[p].len > 0
          /\ echoRecv(c, s, h, total)
  BY RecvChain
<1> QED BY <1>1, RecvStep

\* A round moves bytes from the chain to the storage, where they are pending too.
LEMMA UnpackStep ==
    ASSUME Inv, Sound, NEW c \in Conns, echoUnpack(c)
    PROVE  Sound' /\ Abstract(c)
<1>1. PICK s, x, z, y : s = es[c].p /\ x = s[1] /\ z = es[c].storage /\ y = Payload(heap[x])
  OBVIOUS
<1>2. /\ running' = running /\ tcp' = tcp /\ sending' = sending /\ refused' = refused
      /\ running = c
  BY DEF echoUnpack
<1>3. /\ s \in Seq(Pbufs) /\ Head(s) = x /\ x \in Pbufs /\ heap \in Heaps
      /\ s = <<x>> \/ \E q \in Pbufs : q # x /\ s = <<x, q>>
      /\ \A d \in Conns \ {c} : es[d].p = <<>>
      /\ Allocated(heap) = Members(s)
      /\ heap' = [heap EXCEPT ![x] = FreePbuf] /\ heap' \in Heaps
  BY <1>1, UnpackFrees
<1>4. \A q \in Pbufs \ {x} : heap'[q] = heap[q]
  BY <1>3 DEF Heaps
<1>5. x \in Allocated(heap)
  <2>1. s # <<>>
    BY <1>1 DEF echoUnpack
  <2>2. 1 \in DOMAIN s
    BY <1>3, <2>1
  <2> QED BY <1>1, <1>3, <2>2 DEF Members
<1>6. y \in Seq(Bytes) /\ Len(y) > 0 /\ z \in Seq(Bytes)
  <2>1. heap[x].len \in Nat /\ heap[x].len > 0 /\ heap[x].body \in Bytes
    BY <1>3, <1>5 DEF Sound, Inv, Filled, Heaps, PbufRecord
  <2> QED BY <1>1, <2>1, PayloadType DEF Inv, TypeOK
<1>7. /\ es'[c].p = Tail(s) /\ es'[c].storage = z \o y /\ es'[c].state = es[c].state
      /\ \A d \in Conns \ {c} : es'[d] = es[d]
  <2>1. es' = [es EXCEPT ![c].storage = z \o y, ![c].p = Tail(s)]
    BY <1>1, <1>3 DEF echoUnpack, first, copied, Payload
  <2>2. es \in [Conns -> [state : EchoStates, p : Seq(Pbufs), storage : Seq(Bytes)]]
    BY DEF Inv, TypeOK
  <2>3. PICK zy : zy = z \o y
    OBVIOUS
  <2> HIDE DEF Bytes
  <2> QED BY <2>1, <2>2, <2>3
<1>8. PICK t : t = Contents(heap', Tail(s))
  OBVIOUS
<1>9. t \in Seq(Bytes) /\ Contents(heap, s) = y \o t
  <2>1. CASE s = <<x>>
    <3>1. Tail(s) = <<>>
      BY <2>1
    <3>2. t = <<>> /\ Contents(heap, s) = y
      BY <1>1, <1>3, <1>8, <2>1, <3>1, ContentsOfNone, ContentsOfOne
    <3>3. <<>> \in Seq(Bytes) /\ y \o <<>> = y
      BY <1>6, ConcatEmptySeq
    <3> QED BY <3>2, <3>3
  <2>2. ASSUME NEW q \in Pbufs, q # x, s = <<x, q>>
        PROVE  t \in Seq(Bytes) /\ Contents(heap, s) = y \o t
    <3>1. Tail(s) = <<q>> /\ heap'[q] = heap[q]
      BY <1>4, <2>2
    <3>2. t = Payload(heap[q])
      BY <1>3, <1>8, <3>1, ContentsOfOne
    <3>3. Contents(heap, s) = y \o t
      <4>1. Contents(heap, <<x, q>>) = Payload(heap[x]) \o Payload(heap[q])
        BY <1>3, ContentsOfTwo
      <4> QED BY <1>1, <2>2, <3>2, <4>1
    <3>4. q \in Allocated(heap)
      <4>1. x \in Pbufs
        BY <1>3
      <4>2. Members(<<x, q>>) = {x, q}
        BY <4>1, MembersOfTwo
      <4> QED BY <1>3, <2>2, <4>2
    <3>5. heap[q].len \in Nat /\ heap[q].body \in Bytes
      BY <1>3, <3>4 DEF Inv, Filled, Heaps, PbufRecord
    <3> QED BY <3>2, <3>3, <3>5, PayloadType
  <2> QED BY <1>3, <2>1, <2>2
<1>10. Pending' = Pending
  <2>1. Got(es'[c], heap') = Got(es[c], heap)
    <3>1. (z \o y) \o t = z \o (y \o t)
      BY <1>6, <1>9, ConcatAssociative
    <3> QED BY <1>1, <1>7, <1>8, <1>9, <3>1 DEF Got
  <2>2. ASSUME NEW d \in Conns \ {c} PROVE Got(es'[d], heap') = Got(es[d], heap)
    <3>1. Contents(heap', <<>>) = <<>> /\ Contents(heap, <<>>) = <<>>
      BY ContentsOfNone
    <3> QED BY <1>3, <1>7, <3>1 DEF Got
  <2>3. Pending' = [d \in Conns |-> Got(es'[d], heap')]
    BY DEF Pending, Got
  <2>4. Pending = [d \in Conns |-> Got(es[d], heap)]
    BY DEF Pending, Got
  <2> QED BY <2>1, <2>2, <2>3, <2>4
<1>11. Open' = Open
  BY <1>7 DEF Open, HasSession
<1>12. Sound'
  <2>1. z \o y # <<>>
    <3>1. Len(z \o y) = Len(z) + Len(y) /\ Len(z) \in Nat /\ Len(y) \in Nat
      BY <1>6, ConcatProperties, LenProperties
    <3> QED BY <1>6, <3>1
  <2>2. Allocated(heap') = Allocated(heap) \ {x}
    BY <1>3, <1>4 DEF Heaps, Allocated, FreePbuf
  <2>3. \A p \in Allocated(heap') : heap'[p].len > 0
    BY <1>4, <2>2 DEF Sound, Allocated
  <2>4. es[c].state # "none"
    BY <1>2 DEF Inv, Sessions
  <2>5. \A d \in Conns :
            /\ tcp'[d] \in {"free", "syn_rcvd"} => sending'[d] = <<>>
            /\ es'[d].state = "none" => es'[d].storage = <<>>
            /\ running' = d => es'[d].p # <<>> \/ es'[d].storage # <<>>
    BY <1>2, <1>7, <2>1, <2>4 DEF Sound
  <2> QED BY <2>3, <2>5 DEF Sound
<1> QED BY <1>2, <1>10, <1>11, <1>12, Unseen

-----------------------------------------------------------------------------
LEMMA InitStep == ASSUME Init PROVE Sound /\ Echo!Init
<1>1. \A c \in Conns : es[c] = NoEs /\ sending[c] = <<>> /\ running # c
  BY ConnsAssumption DEF Init
<1>2. NoEs.state = "none" /\ NoEs.p = <<>> /\ NoEs.storage = <<>>
  BY DEF NoEs
<1>3. Allocated(heap) = {}
  BY DEF Init, EmptyHeap, FreePbuf, Allocated
<1>4. Sound
  BY <1>1, <1>2, <1>3 DEF Sound
<1>5. Open = {}
  BY <1>1, <1>2 DEF Open, HasSession
<1>6. \A c \in Conns : Got(es[c], heap) = <<>>
  <2>1. <<>> \in Seq(Bytes)
    OBVIOUS
  <2> QED BY <1>1, <1>2, <2>1, GotStorage
<1>7. Pending = [c \in Conns |-> <<>>]
  <2>1. Pending = [c \in Conns |-> Got(es[c], heap)]
    BY DEF Pending, Got
  <2> QED BY <1>6, <2>1
<1>8. Echo!Init
  BY <1>5, <1>7 DEF Echo!Init, Init, Open, Pending
<1> QED BY <1>4, <1>8

\* Bytes go back in order, each once, however pbufs, the storage and tcp_write
\* cut the stream: the server implements EchoService.
THEOREM RefinesEchoService == Spec => ImplementsEchoService
<1>1. Init => Inv /\ Sound /\ Echo!Init
  BY InitInv, InitStep
<1>2. Inv /\ Sound /\ [Next]_vars => Sound' /\ [Echo!Next]_(Echo!vars)
  <2> SUFFICES ASSUME Inv, Sound, [Next]_vars PROVE Sound' /\ [Echo!Next]_(Echo!vars)
    OBVIOUS
  <2>1. CASE UNCHANGED vars
    <3>1. Sound'
      BY <2>1 DEF vars, Sound, Allocated
    <3>2. UNCHANGED Echo!vars
      BY <2>1 DEF vars, Echo!vars, HasSession
    <3> QED BY <3>1, <3>2
  <2>2. ASSUME NEW c \in Conns,
               Syn(c) \/ echoAccept(c) \/ echoError(c) \/ echoRecvFin(c) \/ LastAck(c)
               \/ RecvData(c) \/ echoUnpack(c) \/ echoSendOk(c) \/ echoSendFails(c)
               \/ echoPoll(c) \/ Acked(c)
        PROVE  Sound' /\ Abstract(c)
    BY <2>2, SynStep, AcceptStep, ErrorStep, FinStep, LastAckStep, RecvDataStep, UnpackStep,
       SendOkStep, SendFailsStep, PollStep, AckedStep
  <2>3. ASSUME NEW c \in Conns, Abstract(c) PROVE [Echo!Next]_(Echo!vars)
    BY <2>3 DEF Abstract, Echo!Next
  <2> QED BY <2>1, <2>2, <2>3 DEF Next
<1>3. Spec => []Inv
  BY Invariance
<1> QED BY <1>1, <1>2, <1>3, PTL DEF Spec, ImplementsEchoService, Echo!Spec
=============================================================================
