------------------------------- MODULE TcpEcho -------------------------------
(***************************************************************************)
(* The TCP echo server (examples/tcp_echo.c) on the lwIP raw TCP API.  A   *)
(* session stores what it receives in `storage', which echoSend hands to   *)
(* tcp_write as a whole.  A callback that unpacks is a sequence of steps,  *)
(* one for each round of echoUnpack's loop, with `running' set; no other   *)
(* callback can be called meanwhile, for lwIP runs in the main loop only.  *)
(*                                                                         *)
(* Nothing is ever left in es->p when a callback returns (HoldsNoPbuf), so *)
(* the branches for that case are not here: pbuf_chain in echoRecv, what   *)
(* follows a FIN with data left, all of echoSent but the acknowledgement,  *)
(* and closing from echoPoll.  Nor are those lwIP never takes: recv with   *)
(* an error or after the FIN, poll without a session.  echoAccept for no   *)
(* control block at all is doip_accept_no_pcb of DoIP.                     *)
(***************************************************************************)
EXTENDS Pbuf

CONSTANTS
    Conns,          \* the TCP control blocks
    None,           \* no connection
    SegLens,        \* possible lengths of a segment
    STORAGE_SIZE_BYTES,
    TCP_WND,        \* receive window of a connection
    TCP_SND_BUF     \* send buffer of a connection

ASSUME ConnsAssumption == None \notin Conns
ASSUME SizesAssumption ==
    /\ SegLens \subseteq Nat \ {0}
    /\ STORAGE_SIZE_BYTES \in Nat /\ TCP_WND \in Nat /\ TCP_SND_BUF \in Nat

VARIABLES
    tcp,            \* tcp[c]: state of the control block
    es,             \* es[c]: the session that is the callback arg, or NoEs
    heap,           \* the pbuf pool
    rcvWnd,         \* rcvWnd[c]: pcb->rcv_wnd, while there is a session
    sending,        \* sending[c]: bytes in the send buffer
    running,        \* the connection whose callback unpacks, or None
    refused,        \* the connections whose last tcp_write failed
    came            \* how many bytes the callback that runs has been given

vars == <<tcp, es, heap, rcvWnd, sending, running, refused, came>>

Bytes == Bodies \ {"none"}
TcpStates == {"free", "syn_rcvd", "established", "last_ack"}
EchoStates == {"none", "accepted", "receiving"}
NoEs == [state |-> "none", p |-> <<>>, storage |-> <<>>]
NewEs == [state |-> "accepted", p |-> <<>>, storage |-> <<>>]

HasSession(c) == es[c].state # "none"

\* The bytes of storage beyond this position are never read.
nextFreeStoragePos(c) == Len(es[c].storage)

TypeOK ==
    /\ tcp \in [Conns -> TcpStates]
    /\ es \in [Conns -> [state : EchoStates, p : Seq(Pbufs), storage : Seq(Bytes)]]
    /\ \A c \in Conns : nextFreeStoragePos(c) <= STORAGE_SIZE_BYTES
    /\ heap \in Heaps
    /\ rcvWnd \in [Conns -> 0 .. TCP_WND]
    /\ sending \in [Conns -> Seq(Bytes)]
    /\ running \in Conns \cup {None}
    /\ refused \subseteq Conns
    /\ came \in Nat

\* After TcpEchoInit: g_tcpEchoPcb is listening and nobody has connected.
Init ==
    /\ tcp = [c \in Conns |-> "free"]
    /\ es = [c \in Conns |-> NoEs]
    /\ heap = EmptyHeap
    /\ rcvWnd = [c \in Conns |-> TCP_WND]
    /\ sending = [c \in Conns |-> <<>>]
    /\ running = None
    /\ refused = {}
    /\ came = 0

Idle == running = None

-----------------------------------------------------------------------------
(* Connections come and go.                                                *)

Syn(c) ==
    /\ Idle
    /\ tcp[c] = "free"
    /\ tcp' = [tcp EXCEPT ![c] = "syn_rcvd"]
    /\ UNCHANGED <<es, heap, rcvWnd, sending, running, refused, came>>

\* Without memory for a session lwIP aborts the connection.
echoAccept(c) ==
    /\ Idle
    /\ tcp[c] = "syn_rcvd"
    /\ \/ /\ tcp' = [tcp EXCEPT ![c] = "established"]
          /\ es' = [es EXCEPT ![c] = NewEs]
       \/ /\ tcp' = [tcp EXCEPT ![c] = "free"]
          /\ UNCHANGED es
    /\ UNCHANGED <<heap, rcvWnd, sending, running, refused, came>>

\* The connection dies, and echoError frees the session if there is one.
echoError(c) ==
    /\ Idle
    /\ tcp[c] # "free"
    /\ tcp' = [tcp EXCEPT ![c] = "free"]
    /\ es' = [es EXCEPT ![c] = NoEs]
    /\ rcvWnd' = [rcvWnd EXCEPT ![c] = TCP_WND]
    /\ sending' = [sending EXCEPT ![c] = <<>>]
    /\ refused' = refused \ {c}
    /\ UNCHANGED <<heap, running, came>>

\* echoRecv with p = NULL: the peer has sent FIN, and nothing waits in es->p.
\* echoClose frees the session with whatever is in its storage; tcp_close
\* sends a FIN, or a RST when the receive window is not back at its maximum.
echoRecvFin(c) ==
    /\ Idle
    /\ tcp[c] = "established"
    /\ es' = [es EXCEPT ![c] = NoEs]
    /\ tcp' = [tcp EXCEPT ![c] = IF rcvWnd[c] = TCP_WND THEN "last_ack" ELSE "free"]
    /\ rcvWnd' = [rcvWnd EXCEPT ![c] = TCP_WND]
    /\ refused' = refused \ {c}
    /\ UNCHANGED <<heap, sending, running, came>>

\* The peer acknowledges the FIN of a closed connection.
LastAck(c) ==
    /\ Idle
    /\ tcp[c] = "last_ack"
    /\ sending[c] = <<>>
    /\ tcp' = [tcp EXCEPT ![c] = "free"]
    /\ UNCHANGED <<es, heap, rcvWnd, sending, running, refused, came>>

-----------------------------------------------------------------------------
(* Data.                                                                   *)

\* echoRecv with the chain s of `total' bytes in heap h.
echoRecv(c, s, h, total) ==
    /\ Idle
    /\ tcp[c] = "established"
    /\ total <= rcvWnd[c]
    /\ heap' = h
    /\ es' = [es EXCEPT ![c].state = "receiving", ![c].p = s]
    /\ rcvWnd' = [rcvWnd EXCEPT ![c] = @ - total]
    /\ running' = c
    /\ came' = total
    /\ UNCHANGED <<tcp, sending, refused>>

\* One segment is passed on, or two when the first had been missing.
RecvData(c) ==
    \E p \in FreePbufs(heap), n \in SegLens, b \in Bytes :
        \/ echoRecv(c, <<p>>, Received(heap, p, n, 0, b), n)
        \/ \E q \in FreePbufs(heap) \ {p}, m \in SegLens, d \in Bytes :
               echoRecv(c, <<p, q>>,
                   Received(Received(heap, q, m, 0, d), p, n, m, b), n + m)

first(c) == heap[Head(es[c].p)]

\* Mutants of fits: the length is forgotten, or the last byte not used.
fitsBefore(c) == nextFreeStoragePos(c) <= STORAGE_SIZE_BYTES
fitsStrictly(c) == nextFreeStoragePos(c) + first(c).len < STORAGE_SIZE_BYTES

fits(c) == nextFreeStoragePos(c) + first(c).len <= STORAGE_SIZE_BYTES

\* Mutants of copied: the copy starts at the beginning of the storage.
copiedToStart(storage, p) == [i \in 1 .. p.len |-> p.body]

\* memcpy to storage[nextFreeStoragePos]
copied(storage, p) == storage \o [i \in 1 .. p.len |-> p.body]

\* Mutant of tcp_recved: told the length of the rest of the chain.
tcp_recved_chain(w, p) == IF w + p.tot <= TCP_WND THEN w + p.tot ELSE TCP_WND

tcp_recved(w, p) == IF w + p.len <= TCP_WND THEN w + p.len ELSE TCP_WND

\* One round of echoUnpack's loop.  When the pbuf does not fit, the round
\* changes nothing, and neither does any later one.
echoUnpack(c) ==
    /\ running = c
    /\ es[c].p # <<>>
    /\ fits(c)
    /\ es' = [es EXCEPT ![c].storage = copied(@, first(c)), ![c].p = Tail(@)]
    /\ heap' = ChopFirst(heap, es[c].p)
    /\ rcvWnd' = [rcvWnd EXCEPT ![c] = tcp_recved(@, first(c))]
    /\ UNCHANGED <<tcp, sending, running, refused, came>>

Returns == running' = None /\ came' = 0

\* echoSend once the loop is done: tcp_write takes the whole storage ...
echoSendOk(c) ==
    /\ running = c
    /\ es[c].p = <<>>
    /\ nextFreeStoragePos(c) <= TCP_SND_BUF - Len(sending[c])
    /\ sending' = [sending EXCEPT ![c] = @ \o es[c].storage]
    /\ es' = [es EXCEPT ![c].storage = <<>>]
    /\ refused' = refused \ {c}
    /\ Returns
    /\ UNCHANGED <<tcp, heap, rcvWnd>>

\* ... or nothing: the send buffer has no room, or memory is short.
echoSendFails(c) ==
    /\ running = c
    /\ es[c].p = <<>>
    /\ refused' = refused \cup {c}
    /\ Returns
    /\ UNCHANGED <<tcp, es, heap, rcvWnd, sending>>

\* Mutant of echoPoll: it does not look at the storage.
echoPollNot(c) ==
    /\ Idle
    /\ HasSession(c)
    /\ es[c].p # <<>>
    /\ running' = c
    /\ came' = 0
    /\ UNCHANGED <<tcp, es, heap, rcvWnd, sending, refused>>

\* echoPoll, called by tcp_slowtmr, with data in the storage.
echoPoll(c) ==
    /\ Idle
    /\ HasSession(c)
    /\ nextFreeStoragePos(c) # 0
    /\ running' = c
    /\ came' = 0
    /\ UNCHANGED <<tcp, es, heap, rcvWnd, sending, refused>>

\* The peer acknowledges n bytes.  echoSent has nothing to do.
Acked(c) ==
    /\ Idle
    /\ \E n \in 1 .. Len(sending[c]) :
           sending' = [sending EXCEPT ![c] = SubSeq(@, n + 1, Len(@))]
    /\ UNCHANGED <<tcp, es, heap, rcvWnd, running, refused, came>>

-----------------------------------------------------------------------------
Next ==
    \E c \in Conns :
        \/ Syn(c) \/ echoAccept(c) \/ echoError(c) \/ echoRecvFin(c) \/ LastAck(c)
        \/ RecvData(c) \/ echoUnpack(c) \/ echoSendOk(c) \/ echoSendFails(c)
        \/ echoPoll(c) \/ Acked(c)

Spec == Init /\ [][Next]_vars

\* A callback goes on, tcp_slowtmr polls every connection again and again, and
\* memory for tcp_write is not short at every one of these polls.
Fairness ==
    \A c \in Conns :
        /\ WF_vars(echoUnpack(c)) /\ WF_vars(echoSendOk(c) \/ echoSendFails(c))
        /\ SF_vars(echoPoll(c)) /\ SF_vars(echoSendOk(c))

FairSpec == Spec /\ Fairness

-----------------------------------------------------------------------------
\* The pool has every pbuf back when a callback returns, also for connections
\* that die: the loop of echoUnpack takes the chain apart, although each round
\* drops the last reference to one pbuf while the next is in use.
HoldsNoPbuf ==
    /\ Allocated(heap) = UNION {Members(es[c].p) : c \in Conns}
    /\ \A c \in Conns : es[c].p # <<>> => running = c

\* What is reported as read is what was received: the window is whole when a
\* callback returns, so no close becomes a reset.
WindowIsWhole ==
    \A c \in Conns : rcvWnd[c] + ChainLength(heap, es[c].p) = TCP_WND

\* The loop of echoUnpack looks at a pbuf that does not fit, for ever.
Spins(c) == running = c /\ es[c].p # <<>> /\ ~ fits(c)

\* That takes more than the storage in one call, or a tcp_write that failed
\* before: no other sequence of calls leaves bytes in the storage.
SpinsOnlyWhenOverfull ==
    \A c \in Conns : Spins(c) => c \in refused \/ came > STORAGE_SIZE_BYTES

Echo == INSTANCE EchoService
    WITH open <- {c \in Conns : HasSession(c)},
         pending <- [c \in Conns |-> es[c].storage \o Contents(heap, es[c].p)],
         short <- refused

\* Bytes go back in order, each once, however pbufs, the storage and tcp_write
\* cut the stream; only a FIN after a failed tcp_write or an error drops any.
ImplementsEchoService == Echo!Spec

\* The peer acknowledges everything again and again.
PeerReads(c) == []<>(sending[c] = <<>>)

\* What tcp_write refused is sent by a later poll, or goes with its connection,
\* unless a callback spins.
StoredIsEchoed ==
    \A c \in Conns :
        [](\A d \in Conns : ~ Spins(d)) /\ PeerReads(c) =>
            (es[c].storage # <<>> ~> es[c].storage = <<>>)

\* tcp_echo.c:248: the loop is there to `process data while there still are
\* packets to process', which ends if each round processes one.
UnpackReturns == \A c \in Conns : running = c ~> running = None
=============================================================================
