-------------------------------- MODULE DoIP --------------------------------
(***************************************************************************)
(* The diagnostics server (examples/DoIP.c) on the lwIP raw TCP API: per   *)
(* connection a session `es' with the chain of received pbufs it still has *)
(* to send back, driven by the accept, recv, sent, poll and err callbacks. *)
(* lwIP runs in the main loop only, so callbacks do not interrupt each     *)
(* other; what is left open is their order, the sizes of requests, the     *)
(* peers' acknowledgements, resets, and memory running short.              *)
(*                                                                         *)
(* Branches of the source that no call of lwIP reaches, left out: recv     *)
(* with err # ERR_OK (tcp_input passes ERR_OK), with es->state             *)
(* ES_ACCEPTED (accept ends in ES_RECEIVED) or with data after the FIN;    *)
(* poll with a NULL arg (the callback is removed with the arg).            *)
(***************************************************************************)
EXTENDS Pbuf

CONSTANTS
    Conns,          \* the TCP control blocks (MEMP_NUM_TCP_PCB of them)
    ReqLens,        \* possible lengths of a request
    TCP_WND,        \* receive window of a connection
    TCP_SND_BUF,    \* send buffer of a connection
    MaxLeaked       \* bound: sessions allocated for no connection

\* sizeof(respMsg)
RespLen == 17

ASSUME ConnsAssumption == IsFiniteSet(Conns)
ASSUME SizesAssumption ==
    /\ ReqLens \subseteq Nat \ {0}
    /\ {TCP_WND, TCP_SND_BUF, MaxLeaked} \subseteq Nat
ASSUME MessagesAssumption == {"request", "answer"} \subseteq Bodies

VARIABLES
    tcp,            \* tcp[c]: state of the control block
    es,             \* es[c]: the session that is the callback arg, or NoEs
    heap,           \* the pbuf pool
    rcvWnd,         \* rcvWnd[c]: pcb->rcv_wnd, while there is a session
    sndBuf,         \* sndBuf[c]: pcb->snd_buf, while there is a session
    piped,          \* piped[c]: a request came before the last was answered
    echoed,         \* echoed[c]: a request was sent back as it came
    esLeaked,       \* sessions allocated for no connection
    lost,           \* pbufs a session held when its connection died
    reset           \* has a tcp_close answered with a RST?

conn == <<tcp, es, rcvWnd, sndBuf, piped, echoed>>
history == <<esLeaked, lost, reset>>
vars == <<conn, heap, history>>

TcpStates == {"free", "syn_rcvd", "established", "close_wait", "last_ack"}
NoEs == [state |-> "none", p |-> <<>>]
NewEs == [state |-> "received", p |-> <<>>]

HasSession(c) == es[c].state # "none"
Unanswered(c) == Members(es[c].p)

TypeOK ==
    /\ tcp \in [Conns -> TcpStates]
    /\ \A c \in Conns : /\ es[c].state \in {"none", "received", "closing"}
                        /\ es[c].p \in Seq(Pbufs)
    /\ heap \in Heaps
    /\ rcvWnd \in [Conns -> 0 .. TCP_WND]
    /\ sndBuf \in [Conns -> 0 .. TCP_SND_BUF]
    /\ {piped, echoed} \subseteq [Conns -> BOOLEAN]
    /\ esLeaked \in 0 .. MaxLeaked
    /\ lost \subseteq Pbufs
    /\ reset \in BOOLEAN

\* After DoIP_Init: doip_pcb is listening and nobody has connected.
Init ==
    /\ tcp = [c \in Conns |-> "free"]
    /\ es = [c \in Conns |-> NoEs]
    /\ heap = EmptyHeap
    /\ rcvWnd = [c \in Conns |-> TCP_WND]
    /\ sndBuf = [c \in Conns |-> TCP_SND_BUF]
    /\ piped = [c \in Conns |-> FALSE]
    /\ echoed = [c \in Conns |-> FALSE]
    /\ esLeaked = 0
    /\ lost = {}
    /\ reset = FALSE

-----------------------------------------------------------------------------
(* doip_send works on a send state: the heap, es->p, the send buffer and   *)
(* window of the connection, and whether a request was sent back unchanged. *)

SendState(c) ==
    [h |-> heap, p |-> es[c].p, snd |-> sndBuf[c], wnd |-> rcvWnd[c], echo |-> echoed[c]]

MinOf(a, b) == IF a <= b THEN a ELSE b

\* Mutants of tcp_recved: the window grows beyond its maximum, or not at all.
tcp_recved_unclamped(w, n) == w + n
tcp_recved_never(w, n) == w + 0 * n

tcp_recved(w, n) == MinOf(w + n, TCP_WND)

MaySend(st) == st.p # <<>> /\ st.h[Head(st.p)].len <= st.snd

\* One round of the loop with tcp_write successful: the first pbuf is copied
\* to the send buffer, chopped, and its length reported as read.
SendOne(st) ==
    LET first == st.h[Head(st.p)]
    IN  [h    |-> ChopFirst(st.h, st.p),
         p    |-> Tail(st.p),
         snd  |-> st.snd - first.len,
         wnd  |-> tcp_recved(st.wnd, first.len),
         echo |-> st.echo \/ first.body = "request"]

\* doip_send when tcp_write finds memory for `writes' buffers: the loop ends
\* when the chain is sent, when the send buffer is too full for the next
\* pbuf, or with ERR_MEM, which leaves es->p for doip_poll.
doip_send(st, writes) ==
    LET round[n \in 0 .. writes] ==
            IF n = 0 THEN st
            ELSE LET before == round[n - 1]
                 IN  IF MaySend(before) THEN SendOne(before) ELSE before
    IN  round[writes]

Plenty == Cardinality(Pbufs)
Writes == 0 .. Plenty

\* doip_send(st), and what it leaves is the state of c, its session in state s.
SendFrom(c, s, st, writes) ==
    \E after \in {doip_send(st, writes)} :
        /\ heap' = after.h
        /\ es' = [es EXCEPT ![c] = [state |-> s, p |-> after.p]]
        /\ sndBuf' = [sndBuf EXCEPT ![c] = after.snd]
        /\ rcvWnd' = [rcvWnd EXCEPT ![c] = after.wnd]
        /\ echoed' = [echoed EXCEPT ![c] = after.echo]

-----------------------------------------------------------------------------
(* Connections come and go.                                                *)

\* A SYN arrives and tcp_alloc finds a control block.
Syn(c) ==
    /\ tcp[c] = "free"
    /\ tcp' = [tcp EXCEPT ![c] = "syn_rcvd"]
    /\ UNCHANGED <<es, rcvWnd, sndBuf, piped, echoed, heap, history>>

\* doip_accept for a control block that reaches ESTABLISHED; without memory
\* for a session it returns ERR_MEM and lwIP aborts the connection.
doip_accept(c) ==
    /\ tcp[c] = "syn_rcvd"
    /\ \/ /\ tcp' = [tcp EXCEPT ![c] = "established"]
          /\ es' = [es EXCEPT ![c] = NewEs]
       \/ /\ tcp' = [tcp EXCEPT ![c] = "free"]
          /\ UNCHANGED es
    /\ UNCHANGED <<rcvWnd, sndBuf, piped, echoed, heap, history>>

\* A SYN arrives, every control block is in use and none may be killed (only
\* blocks in SYN_RCVD still have normal priority): lwIP calls doip_accept
\* with newpcb NULL and ERR_MEM.  The session it allocates reaches nobody,
\* because tcp_arg(NULL, es) does nothing.
doip_accept_no_pcb ==
    /\ \A c \in Conns : tcp[c] = "syn_rcvd"
    /\ esLeaked < MaxLeaked
    /\ esLeaked' = esLeaked + 1
    /\ UNCHANGED <<conn, heap, lost, reset>>

\* The session's part of a connection's state once the session is gone.
Forget(c) ==
    /\ rcvWnd' = [rcvWnd EXCEPT ![c] = TCP_WND]
    /\ sndBuf' = [sndBuf EXCEPT ![c] = TCP_SND_BUF]
    /\ piped' = [piped EXCEPT ![c] = FALSE]
    /\ echoed' = [echoed EXCEPT ![c] = FALSE]

\* Mutant of doip_error: the connection keeps its session.
doip_error_keeps(c) ==
    /\ tcp[c] # "free"
    /\ tcp' = [tcp EXCEPT ![c] = "free"]
    /\ Forget(c)
    /\ UNCHANGED <<es, heap, history>>

\* The connection dies: reset by the peer, out of retransmissions, or killed
\* for a new one (its priority is TCP_PRIO_MIN).  doip_error, when a session
\* is there, frees it and nothing else.
doip_error(c) ==
    /\ tcp[c] # "free"
    /\ tcp' = [tcp EXCEPT ![c] = "free"]
    /\ es' = [es EXCEPT ![c] = NoEs]
    /\ lost' = lost \cup Unanswered(c)
    /\ Forget(c)
    /\ UNCHANGED <<heap, esLeaked, reset>>

\* doip_close: the session is freed; tcp_close sends a FIN, or a RST when
\* the receive window is not back at its maximum.
doip_close(c) ==
    /\ es' = [es EXCEPT ![c] = NoEs]
    /\ tcp' = [tcp EXCEPT ![c] = IF rcvWnd[c] = TCP_WND THEN "last_ack" ELSE "free"]
    /\ reset' = (reset \/ rcvWnd[c] # TCP_WND)
    /\ Forget(c)
    /\ UNCHANGED <<heap, esLeaked, lost>>

\* The peer acknowledges the FIN of a closed connection.
LastAck(c) ==
    /\ tcp[c] = "last_ack"
    /\ tcp' = [tcp EXCEPT ![c] = "free"]
    /\ UNCHANGED <<es, rcvWnd, sndBuf, piped, echoed, heap, history>>

-----------------------------------------------------------------------------
(* Data.                                                                   *)

\* Mutant of Answer: the response is not copied over the request.
AnswerNotCopied(h, p) == [h EXCEPT ![p].len = RespLen]

\* es->p->len = 17; memcpy(es->p->payload, respMsg, sizeof(respMsg));
Answer(h, p) == [h EXCEPT ![p].len = RespLen, ![p].body = "answer"]

\* doip_recv with the chain s of `total' bytes in heap h.  Its first pbuf is
\* answered when none is waiting; otherwise the chain is queued as it is.
doip_recv(c, s, h, total, writes) ==
    /\ tcp[c] = "established"
    /\ total <= rcvWnd[c]
    /\ \/ /\ es[c].p = <<>>
          /\ SendFrom(c, "received",
                 [SendState(c) EXCEPT !.h = Answer(h, s[1]), !.p = s, !.wnd = @ - total],
                 writes)
          /\ piped' = [piped EXCEPT ![c] = @ \/ Len(s) > 1]
       \/ /\ es[c].p # <<>>
          /\ heap' = pbuf_chain(h, es[c].p, s)
          /\ es' = [es EXCEPT ![c].p = @ \o s]
          /\ rcvWnd' = [rcvWnd EXCEPT ![c] = @ - total]
          /\ piped' = [piped EXCEPT ![c] = TRUE]
          /\ UNCHANGED <<sndBuf, echoed>>
    /\ UNCHANGED <<tcp, esLeaked, lost, reset>>

\* One segment is passed on, or two when the first had been missing.
RecvData(c) ==
    \E p \in FreePbufs(heap), n \in ReqLens, writes \in Writes :
        \/ doip_recv(c, <<p>>, Received(heap, p, n, 0, "request"), n, writes)
        \/ \E q \in FreePbufs(heap) \ {p}, m \in ReqLens :
               doip_recv(c, <<p, q>>,
                   Received(Received(heap, q, m, 0, "request"), p, n, m, "request"), n + m, writes)

\* Mutant of doip_recv_fin: the state of the session is not set.
doip_recv_fin_forgets(c, writes) ==
    /\ tcp[c] = "established"
    /\ es[c].p # <<>>
    /\ tcp' = [tcp EXCEPT ![c] = "close_wait"]
    /\ SendFrom(c, "received", SendState(c), writes)
    /\ UNCHANGED <<piped, history>>

\* doip_recv with p = NULL (the peer sent FIN) while pbufs wait to be sent.
doip_recv_fin(c, writes) ==
    /\ tcp[c] = "established"
    /\ es[c].p # <<>>
    /\ tcp' = [tcp EXCEPT ![c] = "close_wait"]
    /\ SendFrom(c, "closing", SendState(c), writes)
    /\ UNCHANGED <<piped, history>>

\* doip_recv with p = NULL and nothing left to send.
doip_recv_fin_done(c) ==
    /\ tcp[c] = "established"
    /\ es[c].p = <<>>
    /\ doip_close(c)

RecvFin(c) == doip_recv_fin_done(c) \/ \E writes \in Writes : doip_recv_fin(c, writes)

\* Mutant of PollSends: only a closing session is polled to its end.
PollSendsClosing(c) == es[c].state = "closing" /\ es[c].p # <<>>

\* doip_poll finds a session with pbufs left to send ...
PollSends(c) == HasSession(c) /\ es[c].p # <<>>

\* ... or with nothing left but to close.
PollCloses(c) == es[c] = [state |-> "closing", p |-> <<>>]

\* doip_poll, called by tcp_slowtmr.  Without a session it is not called.
doip_poll(c, writes) ==
    \/ /\ PollSends(c)
       /\ SendFrom(c, es[c].state, SendState(c), writes)
       /\ UNCHANGED <<tcp, piped, history>>
    \/ /\ PollCloses(c)
       /\ doip_close(c)

Poll(c) == \E writes \in Writes : doip_poll(c, writes)

\* doip_sent: the peer has acknowledged n bytes.
doip_sent(c, n, writes) ==
    /\ HasSession(c)
    /\ n <= TCP_SND_BUF - sndBuf[c]
    /\ \/ /\ es[c].p # <<>>
          /\ SendFrom(c, es[c].state, [SendState(c) EXCEPT !.snd = @ + n], writes)
          /\ UNCHANGED <<tcp, piped, history>>
       \/ /\ es[c] = NewEs
          /\ sndBuf' = [sndBuf EXCEPT ![c] = @ + n]
          /\ UNCHANGED <<tcp, es, rcvWnd, piped, echoed, heap, history>>
       \/ /\ es[c] = [state |-> "closing", p |-> <<>>]
          /\ doip_close(c)

\* Everything in flight is acknowledged, or one message of it.
Acked(c) ==
    \E n \in {TCP_SND_BUF - sndBuf[c], RespLen} \ {0}, writes \in Writes :
        doip_sent(c, n, writes)

-----------------------------------------------------------------------------
Next ==
    \/ doip_accept_no_pcb
    \/ \E c \in Conns :
        \/ Syn(c)
        \/ doip_accept(c)
        \/ doip_error(c)
        \/ LastAck(c)
        \/ RecvData(c)
        \/ RecvFin(c)
        \/ Poll(c)
        \/ Acked(c)

Spec == Init /\ [][Next]_vars

\* A poll that finds memory has something to do: room for the first pbuf, or
\* the session to close.
PollActs(c) == (PollSends(c) /\ MaySend(SendState(c))) \/ PollCloses(c)

\* tcp_slowtmr polls every connection again and again, and memory for
\* tcp_write is not short at every one of these polls: WF of doip_poll(c,
\* Plenty), with PollActs written out for its ENABLED.
Fairness ==
    \A c \in Conns :
        []<>(~ PollActs(c)) \/ []<><<PollActs(c) /\ doip_poll(c, Plenty)>>_vars

FairSpec == Spec /\ Fairness

-----------
(* What the server has to keep true.                                       *)

Live == {c \in Conns : HasSession(c)}

\* lwIP calls doip_recv and doip_sent only with the session they dereference
\* without a check, and no control block that is gone keeps one: a session
\* exists exactly as long as the peer may still cause a callback.
SessionPerConnection ==
    \A c \in Conns : HasSession(c) <=> tcp[c] \in {"established", "close_wait"}

\* es->p never dangles, whatever pbuf_chain, the extra reference of doip_send
\* and its `try hard to free' loop do to the counters: every pbuf of a chain
\* is allocated and belongs to one connection only.
NoDanglingPbuf ==
    /\ \A c \in Conns : Unanswered(c) \subseteq Allocated(heap)
    /\ \A c, d \in Conns : c # d => Unanswered(c) \cap Unanswered(d) = {}

\* The pool gets back every pbuf that was sent, although a chained one has two
\* references: what is allocated waits in a session, or died with one.
SentPbufsAreFreed ==
    Allocated(heap) = lost \cup UNION {Unanswered(c) : c \in Conns}

\* The body that goes out is always the answer, never the peer's own bytes,
\* as long as the peer waits for an answer before it sends the next request.
LockstepIsAnswered == \A c \in Conns : ~ piped[c] => ~ echoed[c]

\* doip_send reports the answer's 17 bytes as read, not the request's: for
\* requests up to that length what waits to be sent makes up for the part
\* of the receive window that is closed, and a connection ends with a FIN and
\* not with a RST.
WindowComesBack ==
    (\A n \in ReqLens : n <= RespLen) =>
        /\ \A c \in Live : rcvWnd[c] + ChainLength(heap, es[c].p) >= TCP_WND
        /\ ~ reset

\* doip_recv sets len to 17 on a pbuf whose tot_len stays that of the request.
\* Whatever requests are chained behind it, and whatever has been sent and
\* chopped before, every other tot_len of a chain is what the rest of it holds:
\* the assertion of pbuf_cat (pbuf.c:866) fails behind an answer and nowhere else.
TotLenIsStaleForAnswersOnly ==
    \A c \in Conns :
        LET s == es[c].p
        IN  \A i \in DOMAIN s :
                heap[s[i]].body = "answer"
                    \/ heap[s[i]].tot = ChainLength(heap, SubSeq(s, i, Len(s)))

\* The peer acknowledges everything again and again.
PeerReads(c) == []<>(sndBuf[c] = TCP_SND_BUF)

\* A pbuf that tcp_write had no memory or the send buffer no room for leaves
\* the session: doip_poll tries again when no acknowledgement does.
DeferredIsSent ==
    \A c \in Conns, p \in Pbufs :
        PeerReads(c) => (p \in Unanswered(c) ~> p \notin Unanswered(c))

\* After the peer's FIN the rest is sent and the session closed.
FinEndsSession ==
    \A c \in Conns :
        PeerReads(c) => (tcp[c] = "close_wait" ~> tcp[c] # "close_wait")

-----------------------------------------------------------------------------
(* What the comments and documentation say, and the code does not keep.    *)

\* DoIP.c:27 keeps the `pbuf (chain) to recycle' in the session, and
\* doip_error frees the session without it.
NoPbufLost == lost = {}
=============================================================================
