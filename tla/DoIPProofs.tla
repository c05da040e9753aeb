----------------------------- MODULE DoIPProofs -----------------------------
(***************************************************************************)
(* The safety invariants of the diagnostics server, for any number of      *)
(* connections and pbufs, chains of any length and all sizes.              *)
(*                                                                         *)
(* Sessions is inductive by itself.  The others are not: what doip_send    *)
(* does depends on every field of every pbuf of the chain.  Good says of   *)
(* one session's chain what its rounds need and keep; that other sessions  *)
(* do not notice follows from chains being disjoint (DataInv).             *)
(***************************************************************************)
EXTENDS DoIP, PbufProofs, FiniteSetTheorems

SessionStates == {"none", "received", "closing"}
WithSession == {"established", "close_wait"}

\* A session is a record of a state and a chain, and goes with the state of
\* its control block.
Sessions ==
    /\ tcp \in [Conns -> TcpStates]
    /\ DOMAIN es = Conns
    /\ es = [c \in Conns |-> [state |-> es[c].state, p |-> es[c].p]]
    /\ \A c \in Conns : es[c].state \in SessionStates
    /\ SessionPerConnection

\* A callback that leaves c in tcp state t with a session in state s.
LEMMA Becomes ==
    ASSUME Sessions, NEW c \in Conns, NEW t \in TcpStates, NEW s \in SessionStates, NEW q,
           s # "none" <=> t \in WithSession,
           tcp' = [tcp EXCEPT ![c] = t],
           es' = [es EXCEPT ![c] = [state |-> s, p |-> q]]
    PROVE  Sessions'
BY DEF Sessions, SessionPerConnection, HasSession, WithSession, SessionStates, TcpStates

\* A callback that leaves every session in its state.
LEMMA Stays ==
    ASSUME Sessions, tcp' = tcp, es' = es
    PROVE  Sessions'
BY DEF Sessions, SessionPerConnection, HasSession

LEMMA Sends ==
    ASSUME Sessions, NEW c \in Conns, NEW s \in SessionStates, NEW st, NEW writes,
           s # "none", es[c].state # "none", tcp' = tcp, SendFrom(c, s, st, writes)
    PROVE  Sessions'
<1>1. PICK q : es' = [es EXCEPT ![c] = [state |-> s, p |-> q]]
  BY DEF SendFrom
<1>2. tcp[c] \in WithSession /\ tcp' = [tcp EXCEPT ![c] = tcp[c]] /\ tcp[c] \in TcpStates
  BY DEF Sessions, SessionPerConnection, HasSession, WithSession
<1> QED BY <1>1, <1>2, Becomes

LEMMA Closes == ASSUME Sessions, NEW c \in Conns, doip_close(c) PROVE Sessions'
<1>1. PICK t \in {"last_ack", "free"} : tcp' = [tcp EXCEPT ![c] = t]
  BY DEF doip_close
<1>2. es' = [es EXCEPT ![c] = [state |-> "none", p |-> <<>>]]
  BY DEF doip_close, NoEs
<1> QED BY <1>1, <1>2, Becomes DEF WithSession, SessionStates, TcpStates

\* doip_accept: a session for a connection that is established.
LEMMA AcceptSessions == ASSUME Sessions, NEW c \in Conns, doip_accept(c) PROVE Sessions'
<1>1. CASE tcp' = [tcp EXCEPT ![c] = "established"] /\ es' = [es EXCEPT ![c] = NewEs]
  BY <1>1, Becomes DEF NewEs, WithSession, SessionStates, TcpStates
<1>2. CASE tcp' = [tcp EXCEPT ![c] = "free"] /\ es' = es
  BY <1>2 DEF doip_accept, Sessions, SessionPerConnection, HasSession, TcpStates
<1> QED BY <1>1, <1>2 DEF doip_accept

\* lwIP's own steps, for control blocks without a session.
LEMMA StackSessions ==
    ASSUME Sessions, NEW c \in Conns, Syn(c) \/ LastAck(c)
    PROVE  Sessions'
BY DEF Syn, LastAck, Sessions, SessionPerConnection, HasSession, TcpStates

\* doip_error: the connection has died, and its session with it.
LEMMA ErrorSessions == ASSUME Sessions, NEW c \in Conns, doip_error(c) PROVE Sessions'
<1>1. es' = [es EXCEPT ![c] = [state |-> "none", p |-> <<>>]] /\ tcp' = [tcp EXCEPT ![c] = "free"]
  BY DEF doip_error, NoEs
<1> QED BY <1>1, Becomes DEF WithSession, SessionStates, TcpStates

\* doip_recv with data: answered or queued.
LEMMA RecvSessions ==
    ASSUME Sessions, NEW c \in Conns, NEW s, NEW h, NEW total, NEW writes,
           doip_recv(c, s, h, total, writes)
    PROVE  Sessions'
<1>1. tcp[c] = "established" /\ tcp' = tcp /\ es[c].state # "none"
  BY DEF doip_recv, Sessions, SessionPerConnection, HasSession
<1>2. CASE es[c].p = <<>>
  <2>1. PICK st : SendFrom(c, "received", st, writes)
    BY <1>2 DEF doip_recv
  <2> QED BY <1>1, <2>1, Sends DEF SessionStates
<1>3. CASE es[c].p # <<>>
  <2>1. es' = [es EXCEPT ![c].p = @ \o s]
    BY <1>3 DEF doip_recv
  <2>2. es' = [es EXCEPT ![c] = [state |-> es[c].state, p |-> es[c].p \o s]]
    <3>1. es[c] = [state |-> es[c].state, p |-> es[c].p] /\ DOMAIN es = Conns
      BY DEF Sessions
    <3>2. [es[c] EXCEPT !.p = @ \o s] = [state |-> es[c].state, p |-> es[c].p \o s]
      <4> DEFINE q == es[c].p \o s
      <4>1. [es[c] EXCEPT !.p = q] = [state |-> es[c].state, p |-> q]
        <5> HIDE DEF q
        <5> QED BY <3>1
      <4> QED BY <4>1
    <3> QED BY <2>1, <3>2
  <2>3. tcp' = [tcp EXCEPT ![c] = tcp[c]] /\ tcp[c] \in TcpStates /\ tcp[c] \in WithSession
    BY <1>1 DEF Sessions, WithSession
  <2>4. es[c].state \in SessionStates
    BY DEF Sessions
  <2> QED BY <1>1, <2>2, <2>3, <2>4, Becomes
<1> QED BY <1>2, <1>3

\* doip_recv with the peer's FIN: the session stays until the rest is sent.
LEMMA FinSessions == ASSUME Sessions, NEW c \in Conns, RecvFin(c) PROVE Sessions'
<1>1. CASE doip_recv_fin_done(c)
  BY <1>1, Closes DEF doip_recv_fin_done
<1>2. ASSUME NEW writes \in Writes, doip_recv_fin(c, writes) PROVE Sessions'
  <2>1. PICK q : es' = [es EXCEPT ![c] = [state |-> "closing", p |-> q]]
    BY <1>2 DEF doip_recv_fin, SendFrom
  <2>2. tcp' = [tcp EXCEPT ![c] = "close_wait"]
    BY <1>2 DEF doip_recv_fin
  <2> QED BY <2>1, <2>2, Becomes DEF WithSession, SessionStates, TcpStates
<1> QED BY <1>1, <1>2 DEF RecvFin

\* doip_poll and doip_sent: send or close.
LEMMA PollSessions == ASSUME Sessions, NEW c \in Conns, Poll(c) PROVE Sessions'
<1>1. PICK writes \in Writes : doip_poll(c, writes)
  BY DEF Poll
<1>2. CASE doip_close(c)
  BY <1>2, Closes
<1>3. CASE SendFrom(c, es[c].state, SendState(c), writes) /\ tcp' = tcp
  BY <1>1, <1>3, Sends DEF doip_poll, PollSends, PollCloses, HasSession, Sessions
<1> QED BY <1>1, <1>2, <1>3 DEF doip_poll, PollSends, PollCloses

LEMMA SentSessions == ASSUME Sessions, NEW c \in Conns, Acked(c) PROVE Sessions'
<1>1. PICK n \in {TCP_SND_BUF - sndBuf[c], RespLen} \ {0}, writes \in Writes : doip_sent(c, n, writes)
  BY DEF Acked
<1>2. CASE doip_close(c)
  BY <1>2, Closes
<1>3. ASSUME NEW st, SendFrom(c, es[c].state, st, writes), tcp' = tcp PROVE Sessions'
  BY <1>1, <1>3, Sends DEF doip_sent, HasSession, Sessions
<1>4. CASE tcp' = tcp /\ es' = es
  BY <1>4, Stays
<1> QED BY <1>1, <1>2, <1>3, <1>4 DEF doip_sent

-----------------------------------------------------------------------------
(* doip_send and the chain it works on.                                    *)

Round(x) == IF MaySend(x) THEN SendOne(x) ELSE x

\* What every round of doip_send keeps, doip_send keeps.
LEMMA SendKeeps ==
    ASSUME NEW S, NEW st \in S, NEW writes \in Nat, \A x \in S : Round(x) \in S
    PROVE  doip_send(st, writes) \in S
<1> DEFINE Rounds(f, k) == /\ f \in [0 .. k -> S] /\ f[0] = st
                           /\ \A i \in 1 .. k : f[i] = Round(f[i - 1])
           Def(f) == f = [n \in 0 .. writes |->
                             IF n = 0 THEN st
                             ELSE LET before == f[n - 1]
                                  IN  IF MaySend(before) THEN SendOne(before) ELSE before]
           round[n \in 0 .. writes] ==
               IF n = 0 THEN st
               ELSE LET before == round[n - 1]
                    IN  IF MaySend(before) THEN SendOne(before) ELSE before
           K == {k \in Nat : \E f : Rounds(f, k)}
<1>1. 0 \in K
  <2>1. Rounds([i \in 0 .. 0 |-> st], 0)
    OBVIOUS
  <2> QED BY <2>1
<1>2. ASSUME NEW k \in Nat, k \in K PROVE k + 1 \in K
  <2>1. PICK f : Rounds(f, k)
    BY <1>2
  <2> DEFINE g == [i \in 0 .. k + 1 |-> IF i = k + 1 THEN Round(f[k]) ELSE f[i]]
  <2>2. k + 1 \in 0 .. k + 1 /\ \A i \in 0 .. k : i \in 0 .. k + 1 /\ i # k + 1
    OBVIOUS
  <2>3. g[k + 1] = Round(f[k]) /\ \A i \in 0 .. k : g[i] = f[i]
    BY <2>2
  <2>4. f[k] \in S /\ Round(f[k]) \in S
    BY <2>1
  <2>5. g \in [0 .. k + 1 -> S]
    BY <2>1, <2>4
  <2> HIDE DEF g
  <2>6. ASSUME NEW i \in 1 .. k + 1 PROVE g[i] = Round(g[i - 1])
    <3>1. CASE i = k + 1
      <4>1. i - 1 = k /\ k \in 0 .. k
        BY <3>1
      <4> QED BY <2>3, <3>1, <4>1
    <3>2. CASE i # k + 1
      <4>1. i \in 1 .. k /\ i \in 0 .. k /\ i - 1 \in 0 .. k
        BY <3>2
      <4> QED BY <2>1, <2>3, <4>1
    <3> QED BY <3>1, <3>2
  <2>7. Rounds(g, k + 1)
    BY <2>1, <2>3, <2>5, <2>6
  <2> QED BY <2>7
<1>3. PICK f : Rounds(f, writes)
  <2> HIDE DEF Rounds
  <2>1. writes \in K
    <3> HIDE DEF K
    <3> QED BY <1>1, <1>2, Induction
  <2> QED BY <2>1
<1>4. Def(f)
  BY <1>3 DEF Round
<1>5. round = CHOOSE g : Def(g)
  OBVIOUS
<1>6. Def(round)
  <2> HIDE DEF Def, round
  <2> QED BY <1>4, <1>5
<1>7. doip_send(st, writes) = round[writes]
  BY DEF doip_send
<1> HIDE DEF round
<1>8. round[0] = st /\ \A i \in 1 .. writes : round[i] = Round(round[i - 1])
  BY <1>6 DEF Round
<1> DEFINE M == {n \in Nat : n <= writes => round[n] \in S}
<1>9. 0 \in M
  BY <1>8
<1>10. ASSUME NEW n \in Nat, n \in M PROVE n + 1 \in M
  <2>1. SUFFICES ASSUME n + 1 <= writes PROVE round[n + 1] \in S
    OBVIOUS
  <2>2. n + 1 \in 1 .. writes /\ (n + 1) - 1 = n /\ round[n] \in S
    BY <1>10, <2>1
  <2> QED BY <1>8, <2>2
<1>11. writes \in M
  <2> HIDE DEF M
  <2> QED BY <1>9, <1>10, Induction
<1> QED BY <1>7, <1>11

SmallRequests == \A n \in ReqLens : n <= RespLen

\* A tot_len is what the rest of the chain holds, but for an answer's.
TotLens(h, s) ==
    \A i \in 1 .. Len(s) :
        h[s[i]].body = "answer" \/ h[s[i]].tot = ChainLength(h, SubSeq(s, i, Len(s)))

\* A session's chain, the receive window of its connection, and what is known
\* of its history.
Good(h, s, wnd, pp, echo) ==
    /\ Distinct(s)
    /\ Members(s) \subseteq Allocated(h)
    /\ TotLens(h, s)
    /\ SmallRequests => wnd + ChainLength(h, s) >= TCP_WND
    /\ ~ pp => ~ echo /\ \A i \in 1 .. Len(s) : h[s[i]].body = "answer"

LEMMA SizeTypes == TCP_WND \in Nat /\ TCP_SND_BUF \in Nat /\ \A n \in ReqLens : n \in Nat
BY SizesAssumption

\* Good depends on the chain's own pbufs only.
LEMMA GoodAgrees ==
    ASSUME NEW h \in Heaps, NEW g \in Heaps, NEW s \in Seq(Pbufs), NEW wnd, NEW pp, NEW echo,
           Good(h, s, wnd, pp, echo), \A q \in Members(s) : g[q] = h[q]
    PROVE  Good(g, s, wnd, pp, echo)
<1>1. \A i \in 1 .. Len(s) : s[i] \in Members(s) /\ s[i] \in Pbufs /\ g[s[i]] = h[s[i]]
  BY MembersArePbufs
<1>2. Members(s) \subseteq Allocated(g)
  BY MembersArePbufs DEF Good, Allocated
<1>3. ChainLength(g, s) = ChainLength(h, s)
  BY <1>1, LengthAgrees
<1>4. ASSUME NEW i \in 1 .. Len(s)
      PROVE  ChainLength(g, SubSeq(s, i, Len(s))) = ChainLength(h, SubSeq(s, i, Len(s)))
  <2> DEFINE r == SubSeq(s, i, Len(s))
  <2>1. r \in Seq(Pbufs) /\ Len(r) = Len(s) - i + 1 /\ \A j \in 1 .. Len(r) : r[j] = s[i + j - 1]
    BY SuffixType
  <2>2. \A j \in 1 .. Len(r) : i + j - 1 \in 1 .. Len(s)
    BY <2>1, LenProperties
  <2> HIDE DEF r
  <2>3. \A j \in 1 .. Len(r) : h[r[j]].len = g[r[j]].len
    BY <1>1, <2>1, <2>2
  <2>4. ChainLength(h, r) = ChainLength(g, r)
    BY <2>1, <2>3, LengthAgrees
  <2> QED BY <2>4 DEF r
<1>5. TotLens(g, s)
  BY <1>1, <1>4 DEF Good, TotLens
<1> QED BY <1>1, <1>2, <1>3, <1>5 DEF Good

\* The first pbuf is taken off and its length reported as read.
LEMMA GoodChopped ==
    ASSUME NEW h \in Heaps, NEW s \in Seq(Pbufs), s # <<>>, NEW wnd \in 0 .. TCP_WND,
           NEW pp \in BOOLEAN, NEW echo \in BOOLEAN, Good(h, s, wnd, pp, echo)
    PROVE  /\ tcp_recved(wnd, h[s[1]].len) \in 0 .. TCP_WND
           /\ Good(ChopFirst(h, s), Tail(s), tcp_recved(wnd, h[s[1]].len), pp,
                   echo \/ h[s[1]].body = "request")
<1> DEFINE g == ChopFirst(h, s)
           t == Tail(s)
           k == h[s[1]].len
           w == tcp_recved(wnd, k)
<1>1. /\ g \in Heaps /\ Allocated(g) = Allocated(h) \ {s[1]}
      /\ \A q \in Pbufs \ {s[1]} : g[q] = h[q]
  BY Chopped DEF Good
<1>2. /\ t \in Seq(Pbufs) /\ Distinct(t) /\ Members(t) = Members(s) \ {s[1]}
      /\ Len(t) \in Nat /\ Len(s) \in Nat \ {0}
  <2>1. Distinct(s)
    BY DEF Good
  <2>2. t \in Seq(Pbufs) /\ Distinct(t) /\ Members(t) = Members(s) \ {s[1]}
    BY <2>1, MembersOfTail
  <2> HIDE DEF t
  <2>3. Len(t) \in Nat
    BY <2>2, LenProperties
  <2>4. Len(s) \in Nat \ {0}
    BY EmptySeq
  <2> QED BY <2>2, <2>3, <2>4
<1>3. k \in Nat /\ ChainLength(h, s) = k + ChainLength(h, t) /\ ChainLength(h, t) \in Nat
  <2>1. k \in Nat
    <3>1. 1 \in 1 .. Len(s)
      BY <1>2
    <3> QED BY <3>1, LensAreNat
  <2>2. ChainLength(h, s) = k + ChainLength(h, t)
    BY LengthOfTail
  <2> HIDE DEF t
  <2> QED BY <1>2, <2>1, <2>2, LengthType
<1>4. w \in 0 .. TCP_WND /\ w = IF wnd + k <= TCP_WND THEN wnd + k ELSE TCP_WND
  BY <1>3, SizeTypes DEF tcp_recved, MinOf
<1> HIDE DEF g, t, k, w
<1>5. Good(h, t, w, pp, echo \/ h[s[1]].body = "request")
  <2>1. Members(t) \subseteq Allocated(h)
    BY <1>2 DEF Good
  <2>2. TotLens(h, t)
    <3>1. SUFFICES ASSUME NEW i \in 1 .. Len(t)
                   PROVE  h[t[i]].body = "answer" \/ h[t[i]].tot = ChainLength(h, SubSeq(t, i, Len(t)))
      BY DEF TotLens
    <3>2. i + 1 \in 1 .. Len(s) /\ t[i] = s[i + 1] /\ SubSeq(t, i, Len(t)) = SubSeq(s, i + 1, Len(s))
      BY RestOfTail DEF t
    <3> QED BY <3>2 DEF Good, TotLens
  <2>3. SmallRequests => w + ChainLength(h, t) >= TCP_WND
    <3>1. SUFFICES ASSUME SmallRequests PROVE w + ChainLength(h, t) >= TCP_WND
      OBVIOUS
    <3>2. wnd + (k + ChainLength(h, t)) >= TCP_WND
      BY <1>3, <3>1 DEF Good
    <3> QED BY <1>3, <1>4, <3>2, SizeTypes
  <2>4. ASSUME ~ pp
        PROVE  /\ ~ (echo \/ h[s[1]].body = "request")
               /\ \A i \in 1 .. Len(t) : h[t[i]].body = "answer"
    <3>1. ~ echo /\ \A i \in 1 .. Len(s) : h[s[i]].body = "answer"
      BY <2>4 DEF Good
    <3>2. 1 \in 1 .. Len(s) /\ \A i \in 1 .. Len(t) : i + 1 \in 1 .. Len(s) /\ t[i] = s[i + 1]
      BY <1>2, RestOfTail DEF t
    <3> QED BY <3>1, <3>2
  <2> QED BY <1>2, <2>1, <2>2, <2>3, <2>4 DEF Good
<1>6. \A q \in Members(t) : g[q] = h[q]
  BY <1>1, <1>2, MembersArePbufs
<1>7. Good(g, t, w, pp, echo \/ h[s[1]].body = "request")
  BY <1>1, <1>2, <1>5, <1>6, GoodAgrees
<1> QED BY <1>4, <1>7 DEF g, t, w, k

SendStates ==
    [h : Heaps, p : Seq(Pbufs), snd : 0 .. TCP_SND_BUF, wnd : 0 .. TCP_WND, echo : BOOLEAN]

\* What doip_send, called for chain s in heap h, may leave.
GoodSends(h, s, pp) ==
    {x \in SendStates :
        /\ Good(x.h, x.p, x.wnd, pp, x.echo)
        /\ Members(x.p) \subseteq Members(s)
        /\ Allocated(x.h) = (Allocated(h) \ Members(s)) \cup Members(x.p)
        /\ \A q \in Pbufs \ Members(s) : x.h[q] = h[q]}

LEMMA RoundIsGood ==
    ASSUME NEW h, NEW s, NEW pp \in BOOLEAN, NEW x \in GoodSends(h, s, pp)
    PROVE  Round(x) \in GoodSends(h, s, pp)
<1> DEFINE first == x.h[x.p[1]]
           y == SendOne(x)
<1>1. /\ x.h \in Heaps /\ x.p \in Seq(Pbufs) /\ x.snd \in 0 .. TCP_SND_BUF
      /\ x.wnd \in 0 .. TCP_WND /\ x.echo \in BOOLEAN
      /\ Good(x.h, x.p, x.wnd, pp, x.echo)
      /\ Members(x.p) \subseteq Members(s)
      /\ Allocated(x.h) = (Allocated(h) \ Members(s)) \cup Members(x.p)
      /\ \A q \in Pbufs \ Members(s) : x.h[q] = h[q]
  BY DEF GoodSends, SendStates
<1>2. CASE ~ MaySend(x)
  BY <1>2 DEF Round
<1>3. CASE MaySend(x)
  <2>1. x.p # <<>> /\ Head(x.p) = x.p[1] /\ first.len <= x.snd
    BY <1>1, <1>3 DEF MaySend
  <2>2. first.len \in Nat /\ x.p[1] \in Members(s) /\ x.p[1] \in Pbufs
    <3>1. 1 \in 1 .. Len(x.p)
      BY <1>1, <2>1, EmptySeq
    <3> QED BY <1>1, <3>1, LensAreNat, MembersArePbufs
  <2>3. y = [h |-> ChopFirst(x.h, x.p), p |-> Tail(x.p), snd |-> x.snd - first.len,
             wnd |-> tcp_recved(x.wnd, first.len), echo |-> x.echo \/ first.body = "request"]
    BY <2>1 DEF SendOne
  <2>4. /\ tcp_recved(x.wnd, first.len) \in 0 .. TCP_WND
        /\ Good(ChopFirst(x.h, x.p), Tail(x.p), tcp_recved(x.wnd, first.len), pp,
                x.echo \/ first.body = "request")
    BY <1>1, <2>1, GoodChopped
  <2>5. /\ ChopFirst(x.h, x.p) \in Heaps
        /\ Allocated(ChopFirst(x.h, x.p)) = Allocated(x.h) \ {x.p[1]}
        /\ \A q \in Pbufs \ {x.p[1]} : ChopFirst(x.h, x.p)[q] = x.h[q]
    BY <1>1, <2>1, Chopped DEF Good
  <2>6. Tail(x.p) \in Seq(Pbufs) /\ Members(Tail(x.p)) = Members(x.p) \ {x.p[1]}
    BY <1>1, <2>1, MembersOfTail DEF Good
  <2>7. x.snd - first.len \in 0 .. TCP_SND_BUF
    BY <1>1, <2>1, <2>2, SizeTypes
  <2> HIDE DEF y, first
  <2>8. /\ y.h = ChopFirst(x.h, x.p) /\ y.p = Tail(x.p) /\ y.snd = x.snd - first.len
        /\ y.wnd = tcp_recved(x.wnd, first.len) /\ y.echo = (x.echo \/ first.body = "request")
    BY <2>3
  <2>9. y \in SendStates
    <3>1. (x.echo \/ first.body = "request") \in BOOLEAN
      BY <1>1
    <3> QED BY <2>3, <2>4, <2>5, <2>6, <2>7, <3>1 DEF SendStates
  <2>10. Good(y.h, y.p, y.wnd, pp, y.echo)
    BY <2>4, <2>8 DEF first
  <2>11. /\ Members(y.p) \subseteq Members(s)
         /\ Allocated(y.h) = (Allocated(h) \ Members(s)) \cup Members(y.p)
         /\ \A q \in Pbufs \ Members(s) : y.h[q] = h[q]
    BY <1>1, <2>2, <2>5, <2>6, <2>8
  <2>12. y \in GoodSends(h, s, pp)
    BY <2>9, <2>10, <2>11 DEF GoodSends
  <2> QED BY <1>3, <2>12 DEF y, Round
<1> QED BY <1>2, <1>3

LEMMA SendIsGood ==
    ASSUME NEW st \in SendStates, NEW pp \in BOOLEAN, NEW writes \in Nat,
           Good(st.h, st.p, st.wnd, pp, st.echo)
    PROVE  doip_send(st, writes) \in GoodSends(st.h, st.p, pp)
<1>1. st \in GoodSends(st.h, st.p, pp)
  BY DEF GoodSends, Good
<1> QED BY <1>1, RoundIsGood, SendKeeps
-----------------------------------------------------------------------------
(* The invariant.                                                          *)

\* TypeOK, with the session as a record.
Types ==
    /\ es \in [Conns -> [state : SessionStates, p : Seq(Pbufs)]]
    /\ heap \in Heaps
    /\ rcvWnd \in [Conns -> 0 .. TCP_WND]
    /\ sndBuf \in [Conns -> 0 .. TCP_SND_BUF]
    /\ piped \in [Conns -> BOOLEAN]
    /\ echoed \in [Conns -> BOOLEAN]
    /\ esLeaked \in 0 .. MaxLeaked
    /\ lost \subseteq Pbufs
    /\ reset \in BOOLEAN

\* Chains belong to sessions, and no pbuf to two chains or to a chain and to
\* a connection that is gone.
Apart ==
    /\ \A c \in Conns : es[c].state = "none" => es[c].p = <<>>
    /\ \A c, d \in Conns : c # d => Unanswered(c) \cap Unanswered(d) = {}
    /\ \A c \in Conns : Unanswered(c) \cap lost = {}

DataInv ==
    /\ Types
    /\ \A c \in Conns : Good(heap, es[c].p, rcvWnd[c], piped[c], echoed[c])
    /\ Apart
    /\ SentPbufsAreFreed
    /\ SmallRequests => ~ reset

LEMMA GoodOfNone ==
    ASSUME NEW h \in Heaps, NEW pp
    PROVE  Good(h, <<>>, TCP_WND, pp, FALSE)
<1>1. <<>> \in Seq(Pbufs) /\ Len(<<>>) = 0 /\ Members(<<>>) = {}
  BY EmptySeq, MembersOfNone
<1>2. TCP_WND + ChainLength(h, <<>>) >= TCP_WND
  BY LengthOfNone, SizeTypes
<1> QED BY <1>1, <1>2 DEF Good, Distinct, TotLens

\* Session c may go on with what x leaves of the heap and of its chain: the
\* chain is made of what it had and of free pbufs, and what it no longer has
\* is free.
Continues(c, x, pp) ==
    /\ x \in SendStates
    /\ Good(x.h, x.p, x.wnd, pp, x.echo)
    /\ Members(x.p) \subseteq Unanswered(c) \cup FreePbufs(heap)
    /\ Allocated(x.h) = (Allocated(heap) \ Unanswered(c)) \cup Members(x.p)
    /\ \A q \in Allocated(heap) \ Unanswered(c) : x.h[q] = heap[q]

\* That is what the step makes of it.
Leaves(c, s, x, pp) ==
    /\ heap' = x.h
    /\ es' = [es EXCEPT ![c] = [state |-> s, p |-> x.p]]
    /\ sndBuf' = [sndBuf EXCEPT ![c] = x.snd]
    /\ rcvWnd' = [rcvWnd EXCEPT ![c] = x.wnd]
    /\ echoed' = [echoed EXCEPT ![c] = x.echo]
    /\ piped' = [piped EXCEPT ![c] = pp]
    /\ esLeaked' = esLeaked
    /\ lost' = lost
    /\ reset' = reset

LEMMA Replaced ==
    ASSUME DataInv, NEW c \in Conns, NEW s \in SessionStates, NEW x, NEW pp \in BOOLEAN,
           Continues(c, x, pp), s = "none" => x.p = <<>>, Leaves(c, s, x, pp)
    PROVE  DataInv'
<1> DEFINE g == x.h
           p == x.p
           snd == x.snd
           w == x.wnd
           e == x.echo
<1>a. /\ g \in Heaps /\ p \in Seq(Pbufs) /\ snd \in 0 .. TCP_SND_BUF
      /\ w \in 0 .. TCP_WND /\ e \in BOOLEAN
      /\ Good(g, p, w, pp, e) /\ (s = "none" => p = <<>>)
  BY DEF Continues, SendStates
<1>b. /\ Members(p) \subseteq Unanswered(c) \cup FreePbufs(heap)
      /\ Allocated(g) = (Allocated(heap) \ Unanswered(c)) \cup Members(p)
      /\ \A q \in Allocated(heap) \ Unanswered(c) : g[q] = heap[q]
  BY DEF Continues
<1>c. /\ heap' = g /\ es' = [es EXCEPT ![c] = [state |-> s, p |-> p]]
      /\ sndBuf' = [sndBuf EXCEPT ![c] = snd] /\ rcvWnd' = [rcvWnd EXCEPT ![c] = w]
      /\ echoed' = [echoed EXCEPT ![c] = e] /\ piped' = [piped EXCEPT ![c] = pp]
      /\ esLeaked' = esLeaked /\ lost' = lost /\ reset' = reset
  BY DEF Leaves
<1> HIDE DEF g, p, snd, w, e
<1> USE <1>a, <1>b, <1>c
<1>1. Types'
  <2>1. [state |-> s, p |-> p] \in [state : SessionStates, p : Seq(Pbufs)]
    OBVIOUS
  <2>2. es' \in [Conns -> [state : SessionStates, p : Seq(Pbufs)]]
    BY <2>1 DEF DataInv, Types
  <2>3. piped' \in [Conns -> BOOLEAN] /\ echoed' \in [Conns -> BOOLEAN]
    BY DEF DataInv, Types
  <2>4. rcvWnd' \in [Conns -> 0 .. TCP_WND] /\ sndBuf' \in [Conns -> 0 .. TCP_SND_BUF]
    BY DEF DataInv, Types
  <2> QED BY <2>2, <2>3, <2>4 DEF DataInv, Types
<1>2. es'[c] = [state |-> s, p |-> p] /\ \A d \in Conns \ {c} : es'[d] = es[d]
  BY DEF DataInv, Types
<1>3. /\ rcvWnd'[c] = w /\ piped'[c] = pp /\ echoed'[c] = e
      /\ \A d \in Conns \ {c} : rcvWnd'[d] = rcvWnd[d] /\ piped'[d] = piped[d] /\ echoed'[d] = echoed[d]
  BY DEF DataInv, Types
<1>4. \A d \in Conns : Unanswered(d) \subseteq Allocated(heap)
  BY DEF DataInv, Good, Unanswered
<1>5. Unanswered(c)' = Members(p) /\ \A d \in Conns \ {c} : Unanswered(d)' = Unanswered(d)
  BY <1>2 DEF Unanswered
<1>6. \A d \in Conns \ {c} : Unanswered(d) \cap Members(p) = {} /\ Unanswered(d) \cap Unanswered(c) = {}
  BY <1>4 DEF DataInv, Apart, FreePbufs
<1>7. lost \subseteq Allocated(heap)
  BY DEF DataInv, SentPbufsAreFreed
<1>8. \A d \in Conns : Good(heap, es[d].p, rcvWnd[d], piped[d], echoed[d])'
  <2>1. SUFFICES ASSUME NEW d \in Conns
                 PROVE  Good(heap', es'[d].p, rcvWnd'[d], piped'[d], echoed'[d])
    BY DEF Good, TotLens
  <2>2. CASE d = c
    BY <1>2, <1>3, <2>2
  <2>3. CASE d # c
    <3>1. Good(heap, es[d].p, rcvWnd[d], piped[d], echoed[d]) /\ es[d].p \in Seq(Pbufs)
          /\ heap \in Heaps
      BY DEF DataInv, Types
    <3>2. \A q \in Members(es[d].p) : g[q] = heap[q]
      BY <1>4, <1>6, <2>3 DEF Unanswered
    <3>3. Good(g, es[d].p, rcvWnd[d], piped[d], echoed[d])
      BY <3>1, <3>2, GoodAgrees
    <3> QED BY <1>2, <1>3, <2>3, <3>3
  <2> QED BY <2>2, <2>3
<1>9. Apart'
  <2>1. \A d \in Conns : es'[d].state = "none" => es'[d].p = <<>>
    BY <1>2 DEF DataInv, Apart
  <2>2. \A d, f \in Conns : d # f => Unanswered(d)' \cap Unanswered(f)' = {}
    BY <1>5, <1>6 DEF DataInv, Apart
  <2>3. \A d \in Conns : Unanswered(d)' \cap lost = {}
    BY <1>5, <1>7 DEF DataInv, Apart, FreePbufs
  <2> QED BY <2>1, <2>2, <2>3 DEF Apart
<1>10. SentPbufsAreFreed'
  <2> DEFINE Others == UNION {Unanswered(d) : d \in Conns \ {c}}
  <2>1. Allocated(heap) = lost \cup Unanswered(c) \cup Others
    BY DEF DataInv, SentPbufsAreFreed
  <2>2. Unanswered(c) \cap (lost \cup Others) = {}
    BY <1>6 DEF DataInv, Apart
  <2>3. UNION {Unanswered(d)' : d \in Conns} = Members(p) \cup Others
    BY <1>5
  <2> HIDE DEF Others
  <2>4. Allocated(heap)' = lost \cup Members(p) \cup Others
    <3>1. Allocated(heap)' = Allocated(g)
      BY DEF Allocated
    <3> QED BY <2>1, <2>2, <3>1
  <2> QED BY <2>3, <2>4 DEF SentPbufsAreFreed
<1> QED BY <1>1, <1>8, <1>9, <1>10 DEF DataInv, SmallRequests

\* Session c ends; what it still had to send is lost.
LEMMA Ended ==
    ASSUME DataInv, NEW c \in Conns, es' = [es EXCEPT ![c] = NoEs], Forget(c), heap' = heap,
           lost' = lost \cup Unanswered(c), esLeaked' = esLeaked,
           reset' \in BOOLEAN, SmallRequests => ~ reset'
    PROVE  DataInv'
<1>1. NoEs \in [state : SessionStates, p : Seq(Pbufs)] /\ NoEs.p = <<>>
  <2>1. <<>> \in Seq(Pbufs)
    BY EmptySeq
  <2> QED BY <2>1 DEF NoEs, SessionStates
<1>2. es'[c] = NoEs /\ \A d \in Conns \ {c} : es'[d] = es[d]
  BY DEF DataInv, Types
<1>3. /\ rcvWnd'[c] = TCP_WND /\ piped'[c] = FALSE /\ echoed'[c] = FALSE
      /\ \A d \in Conns \ {c} : rcvWnd'[d] = rcvWnd[d] /\ piped'[d] = piped[d] /\ echoed'[d] = echoed[d]
  BY DEF DataInv, Types, Forget
<1>4. Unanswered(c)' = {} /\ \A d \in Conns \ {c} : Unanswered(d)' = Unanswered(d)
  BY <1>1, <1>2, MembersOfNone DEF Unanswered
<1>5. Types'
  <2>1. es' \in [Conns -> [state : SessionStates, p : Seq(Pbufs)]]
    BY <1>1 DEF DataInv, Types
  <2>2. piped' \in [Conns -> BOOLEAN] /\ echoed' \in [Conns -> BOOLEAN]
    BY DEF DataInv, Types, Forget
  <2>3. rcvWnd' \in [Conns -> 0 .. TCP_WND] /\ sndBuf' \in [Conns -> 0 .. TCP_SND_BUF]
    BY SizeTypes DEF DataInv, Types, Forget
  <2>4. lost' \subseteq Pbufs
    BY MembersArePbufs DEF DataInv, Types, Unanswered
  <2> QED BY <2>1, <2>2, <2>3, <2>4 DEF DataInv, Types
<1>6. \A d \in Conns : Good(heap, es[d].p, rcvWnd[d], piped[d], echoed[d])'
  <2>1. SUFFICES ASSUME NEW d \in Conns
                 PROVE  Good(heap, es'[d].p, rcvWnd'[d], piped'[d], echoed'[d])
    BY DEF Good, TotLens
  <2>2. CASE d = c
    <3>1. /\ heap \in Heaps /\ es'[d].p = <<>> /\ rcvWnd'[d] = TCP_WND
          /\ piped'[d] = FALSE /\ echoed'[d] = FALSE
      BY <1>1, <1>2, <1>3, <2>2 DEF DataInv, Types
    <3>2. Good(heap, <<>>, TCP_WND, FALSE, FALSE)
      BY <3>1, GoodOfNone
    <3> QED BY <3>1, <3>2
  <2>3. CASE d # c
    BY <1>2, <1>3, <2>3 DEF DataInv
  <2> QED BY <2>2, <2>3
<1>7. Apart'
  <2>1. \A d \in Conns : es'[d].state = "none" => es'[d].p = <<>>
    BY <1>1, <1>2 DEF DataInv, Apart
  <2>2. \A d, f \in Conns : d # f => Unanswered(d)' \cap Unanswered(f)' = {}
    BY <1>4 DEF DataInv, Apart
  <2>3. \A d \in Conns : Unanswered(d)' \cap lost' = {}
    BY <1>4 DEF DataInv, Apart
  <2> QED BY <2>1, <2>2, <2>3 DEF Apart
<1>8. SentPbufsAreFreed'
  <2>1. (UNION {Unanswered(d)' : d \in Conns}) \cup lost'
            = (UNION {Unanswered(d) : d \in Conns}) \cup lost
    BY <1>4
  <2>2. Allocated(heap)' = Allocated(heap)
    BY DEF Allocated
  <2> QED BY <2>1, <2>2 DEF DataInv, SentPbufsAreFreed
<1> QED BY <1>5, <1>6, <1>7, <1>8 DEF DataInv, SmallRequests

LEMMA SendStateType ==
    ASSUME NEW h \in Heaps, NEW p \in Seq(Pbufs), NEW snd \in 0 .. TCP_SND_BUF,
           NEW w \in 0 .. TCP_WND, NEW e \in BOOLEAN, NEW st,
           st = [h |-> h, p |-> p, snd |-> snd, wnd |-> w, echo |-> e]
    PROVE  /\ st \in SendStates
           /\ st.h = h /\ st.p = p /\ st.snd = snd /\ st.wnd = w /\ st.echo = e
BY DEF SendStates

\* doip_send, in any callback.
LEMMA SendData ==
    ASSUME DataInv, NEW c \in Conns, NEW s \in SessionStates \ {"none"}, NEW st,
           NEW writes \in Nat, NEW pp \in BOOLEAN,
           Continues(c, st, pp), SendFrom(c, s, st, writes), piped' = [piped EXCEPT ![c] = pp],
           esLeaked' = esLeaked, lost' = lost, reset' = reset
    PROVE  DataInv'
<1>a. st \in SendStates /\ Good(st.h, st.p, st.wnd, pp, st.echo)
  BY DEF Continues
<1>b. /\ Members(st.p) \subseteq Unanswered(c) \cup FreePbufs(heap)
      /\ Allocated(st.h) = (Allocated(heap) \ Unanswered(c)) \cup Members(st.p)
      /\ \A q \in Allocated(heap) \ Unanswered(c) : st.h[q] = heap[q]
  BY DEF Continues
<1>1. PICK y \in GoodSends(st.h, st.p, pp) :
          /\ heap' = y.h
          /\ es' = [es EXCEPT ![c] = [state |-> s, p |-> y.p]]
          /\ sndBuf' = [sndBuf EXCEPT ![c] = y.snd]
          /\ rcvWnd' = [rcvWnd EXCEPT ![c] = y.wnd]
          /\ echoed' = [echoed EXCEPT ![c] = y.echo]
  BY <1>a, SendIsGood DEF SendFrom
<1>2. /\ y \in SendStates
      /\ Good(y.h, y.p, y.wnd, pp, y.echo)
      /\ Members(y.p) \subseteq Members(st.p)
      /\ Allocated(y.h) = (Allocated(st.h) \ Members(st.p)) \cup Members(y.p)
      /\ \A q \in Pbufs \ Members(st.p) : y.h[q] = st.h[q]
  BY DEF GoodSends
<1>3. \A q \in Allocated(heap) \ Unanswered(c) : q \in Pbufs /\ q \notin Members(st.p)
  BY <1>b DEF FreePbufs, Allocated
<1>4. /\ Members(y.p) \subseteq Unanswered(c) \cup FreePbufs(heap)
      /\ Allocated(y.h) = (Allocated(heap) \ Unanswered(c)) \cup Members(y.p)
      /\ \A q \in Allocated(heap) \ Unanswered(c) : y.h[q] = heap[q]
  BY <1>b, <1>2, <1>3
<1>5. Continues(c, y, pp)
  BY <1>2, <1>4 DEF Continues
<1>6. Leaves(c, s, y, pp)
  BY <1>1 DEF Leaves
<1>7. s \in SessionStates /\ s # "none"
  OBVIOUS
<1> QED BY <1>5, <1>6, <1>7, Replaced

\* The session and its chain as they are, with snd bytes of send buffer.
AsIs(c, snd) ==
    [h |-> heap, p |-> es[c].p, snd |-> snd, wnd |-> rcvWnd[c], echo |-> echoed[c]]

LEMMA AsItIs ==
    ASSUME DataInv, NEW c \in Conns, NEW snd \in 0 .. TCP_SND_BUF, NEW st,
           st = AsIs(c, snd)
    PROVE  Continues(c, st, piped[c]) /\ piped[c] \in BOOLEAN
<1>1. /\ es[c].p \in Seq(Pbufs) /\ heap \in Heaps /\ rcvWnd[c] \in 0 .. TCP_WND
      /\ echoed[c] \in BOOLEAN /\ piped[c] \in BOOLEAN
      /\ Good(heap, es[c].p, rcvWnd[c], piped[c], echoed[c])
  <2>1. es[c] \in [state : SessionStates, p : Seq(Pbufs)]
    BY DEF DataInv, Types
  <2>2. echoed[c] \in BOOLEAN /\ piped[c] \in BOOLEAN
    BY DEF DataInv, Types
  <2> QED BY <2>1, <2>2 DEF DataInv, Types
<1>2. st = [h |-> heap, p |-> es[c].p, snd |-> snd, wnd |-> rcvWnd[c], echo |-> echoed[c]]
  BY DEF AsIs
<1>3. st \in SendStates /\ st.h = heap /\ st.p = es[c].p /\ st.wnd = rcvWnd[c] /\ st.echo = echoed[c]
  <2> DEFINE a == es[c].p
             w == rcvWnd[c]
             e == echoed[c]
  <2>1. /\ a \in Seq(Pbufs) /\ w \in 0 .. TCP_WND /\ e \in BOOLEAN /\ heap \in Heaps
        /\ st = [h |-> heap, p |-> a, snd |-> snd, wnd |-> w, echo |-> e]
    BY <1>1, <1>2
  <2> HIDE DEF a, w, e
  <2>2. st \in SendStates /\ st.h = heap /\ st.p = a /\ st.wnd = w /\ st.echo = e
    BY <2>1, SendStateType
  <2> QED BY <2>2 DEF a, w, e
<1>4. Unanswered(c) \subseteq Allocated(heap) /\ Unanswered(c) = Members(st.p)
  BY <1>1, <1>3 DEF Good, Unanswered
<1>5. Good(st.h, st.p, st.wnd, piped[c], st.echo)
  BY <1>1, <1>3
<1>6. Allocated(st.h) = Allocated(heap) /\ \A q : st.h[q] = heap[q]
  BY <1>3
<1> QED BY <1>1, <1>3, <1>4, <1>5, <1>6 DEF Continues

\* doip_send for the chain that waits already.
LEMMA ResendData ==
    ASSUME DataInv, NEW c \in Conns, NEW s \in SessionStates \ {"none"}, NEW st, NEW writes \in Nat,
           NEW snd \in 0 .. TCP_SND_BUF, st = AsIs(c, snd),
           SendFrom(c, s, st, writes), UNCHANGED <<piped, history>>
    PROVE  DataInv'
<1>1. Continues(c, st, piped[c]) /\ piped[c] \in BOOLEAN
  BY AsItIs
<1>2. piped' = [piped EXCEPT ![c] = piped[c]] /\ esLeaked' = esLeaked /\ lost' = lost /\ reset' = reset
  BY DEF DataInv, Types, history
<1> QED BY <1>1, <1>2, SendData

-----------------------------------------------------------------------------
(* Requests.                                                               *)

\* s is a chain of pbufs just received, total bytes long, in heap h.
Fresh(h, s, total) ==
    /\ h \in Heaps
    /\ s \in Seq(Pbufs)
    /\ Len(s) >= 1
    /\ Distinct(s)
    /\ Members(s) \subseteq FreePbufs(heap)
    /\ Allocated(h) = Allocated(heap) \cup Members(s)
    /\ \A q \in Pbufs \ Members(s) : h[q] = heap[q]
    /\ \A i \in 1 .. Len(s) : h[s[i]].tot = ChainLength(h, SubSeq(s, i, Len(s)))
    /\ total \in Nat
    /\ total = ChainLength(h, s)
    /\ h[s[1]].tot = total
    /\ h[s[1]].len \in ReqLens

LEMMA FreshOne ==
    ASSUME heap \in Heaps, NEW p \in FreePbufs(heap), NEW n \in ReqLens
    PROVE  Fresh(Received(heap, p, n, 0, "request"), <<p>>, n)
<1> DEFINE h == Received(heap, p, n, 0, "request")
           s == <<p>>
<1>1. p \in Pbufs /\ n \in Nat /\ 0 \in Nat /\ n + 0 = n /\ "request" \in Bodies
  BY SizeTypes, MessagesAssumption DEF FreePbufs
<1>2. /\ h \in Heaps /\ h[p].len = n /\ h[p].tot = n
      /\ \A q \in Pbufs \ {p} : h[q] = heap[q]
      /\ Allocated(h) = Allocated(heap) \cup {p}
  <2>1. Delivered(h, heap, p, n, n, "request")
    BY <1>1, ReceivedAlone
  <2> HIDE DEF h
  <2> QED BY <2>1 DEF Delivered
<1>3. /\ s \in Seq(Pbufs) /\ Len(s) = 1 /\ s[1] = p /\ Members(s) = {p} /\ Distinct(s)
  BY <1>1, MembersOfOne DEF Distinct
<1>4. SubSeq(s, 1, Len(s)) = s
  BY <1>3, SubSeqFull
<1> HIDE DEF h
<1>5. ChainLength(h, s) = n
  BY <1>1, <1>2, LengthOfOne
<1> HIDE DEF s
<1>6. \A i \in 1 .. Len(s) : i = 1
  BY <1>3
<1>7. \A i \in 1 .. Len(s) : h[s[i]].tot = ChainLength(h, SubSeq(s, i, Len(s)))
  BY <1>2, <1>3, <1>4, <1>5, <1>6
<1>8. Fresh(h, s, n)
  BY <1>1, <1>2, <1>3, <1>5, <1>7 DEF Fresh
<1> QED BY <1>8 DEF h, s

LEMMA FreshTwo ==
    ASSUME heap \in Heaps, NEW p \in FreePbufs(heap), NEW q \in FreePbufs(heap) \ {p},
           NEW n \in ReqLens, NEW m \in ReqLens
    PROVE  Fresh(Received(Received(heap, q, m, 0, "request"), p, n, m, "request"), <<p, q>>, n + m)
<1> DEFINE body == "request"
           h == Received(Received(heap, q, m, 0, body), p, n, m, body)
           s == <<p, q>>
<1>1. p \in Pbufs /\ q \in Pbufs /\ p # q /\ n \in Nat /\ m \in Nat /\ n + m \in Nat /\ body \in Bodies
  BY SizeTypes, MessagesAssumption DEF FreePbufs
<1> HIDE DEF body
<1>2. DeliveredTwo(h, heap, p, n, body, q, m, body)
  BY <1>1, ReceivedTwo
<1> HIDE DEF h
<1>3. /\ h \in Heaps /\ h[p].len = n /\ h[p].tot = n + m
      /\ \A r \in Pbufs \ {p, q} : h[r] = heap[r]
      /\ Allocated(h) = Allocated(heap) \cup {p, q}
  BY <1>2 DEF DeliveredTwo
<1>4. h[q].len = m /\ h[q].tot = m
  BY <1>2 DEF DeliveredTwo
<1>5. /\ s \in Seq(Pbufs) /\ Len(s) = 2 /\ s[1] = p /\ s[2] = q /\ Members(s) = {p, q} /\ Distinct(s)
  <2>1. s \in Seq(Pbufs) /\ Len(s) = 2 /\ s[1] = p /\ s[2] = q /\ Members(s) = {p, q}
    BY <1>1, MembersOfTwo
  <2> HIDE DEF s
  <2>2. \A i \in 1 .. Len(s) : i = 1 \/ i = 2
    BY <2>1
  <2> QED BY <1>1, <2>1, <2>2 DEF Distinct
<1>6. SubSeq(s, 1, Len(s)) = s /\ SubSeq(s, 2, Len(s)) = <<q>>
  <2>1. Tail(s) = <<q>>
    BY <1>1
  <2> HIDE DEF s
  <2>2. SubSeq(s, 1, Len(s)) = s
    BY <1>5, SubSeqFull
  <2>3. Tail(SubSeq(s, 1, Len(s))) = SubSeq(s, 1 + 1, Len(s))
    <3>1. 1 \in 1 .. Len(s) /\ Len(s) \in 1 .. Len(s)
      BY <1>5
    <3> QED BY <1>5, <3>1, HeadTailOfSubSeq
  <2>4. 1 + 1 = 2
    OBVIOUS
  <2> QED BY <2>1, <2>2, <2>3, <2>4, Zenon
<1>7. ChainLength(h, s) = n + m /\ ChainLength(h, <<q>>) = m
  BY <1>1, <1>3, <1>4, LengthOfOne, LengthOfTwo
<1> HIDE DEF s
<1>8. \A i \in 1 .. Len(s) : i = 1 \/ i = 2
  BY <1>5
<1>9. \A i \in 1 .. Len(s) : h[s[i]].tot = ChainLength(h, SubSeq(s, i, Len(s)))
  BY <1>3, <1>4, <1>5, <1>6, <1>7, <1>8
<1>10. /\ Members(s) \subseteq FreePbufs(heap)
       /\ Allocated(h) = Allocated(heap) \cup Members(s)
       /\ \A r \in Pbufs \ Members(s) : h[r] = heap[r]
  BY <1>3, <1>5
<1>11. Len(s) >= 1
  BY <1>5
<1>12. Fresh(h, s, n + m)
  BY <1>1, <1>3, <1>5, <1>7, <1>9, <1>10, <1>11 DEF Fresh
<1> QED BY <1>12 DEF h, s, body

LEMMA AnswerHeap ==
    ASSUME NEW h \in Heaps, NEW p \in Pbufs
    PROVE  /\ Answer(h, p) \in Heaps
           /\ Answer(h, p)[p].len = RespLen /\ Answer(h, p)[p].body = "answer"
           /\ Allocated(Answer(h, p)) = Allocated(h)
           /\ \A q \in Pbufs \ {p} : Answer(h, p)[q] = h[q]
<1> DEFINE r == [[h[p] EXCEPT !.len = RespLen] EXCEPT !.body = "answer"]
<1>1. h[p] \in PbufRecord /\ "answer" \in Bodies /\ RespLen \in Nat
  BY MessagesAssumption DEF Heaps, RespLen
<1>2. r \in PbufRecord /\ r.len = RespLen /\ r.body = "answer" /\ r.ref = h[p].ref
  <2> HIDE DEF r
  <2> DEFINE old == h[p]
             k == RespLen
  <2>1. old \in PbufRecord /\ k \in Nat
    BY <1>1
  <2>2. r = [[old EXCEPT !.len = k] EXCEPT !.body = "answer"]
    BY DEF r
  <2> HIDE DEF old, k
  <2>3. r \in PbufRecord /\ r.len = k /\ r.body = "answer" /\ r.ref = old.ref
    BY <1>1, <2>1, <2>2 DEF PbufRecord
  <2> QED BY <2>3 DEF old, k
<1>4. Answer(h, p) = [h EXCEPT ![p] = r]
  BY DEF Answer, Heaps
<1> HIDE DEF r
<1>5. /\ Answer(h, p) \in Heaps /\ Answer(h, p)[p] = r
      /\ \A q \in Pbufs \ {p} : Answer(h, p)[q] = h[q]
  BY <1>2, <1>4 DEF Heaps
<1>6. \A q \in Pbufs : Answer(h, p)[q].ref = h[q].ref
  BY <1>2, <1>5
<1> QED BY <1>2, <1>5, <1>6 DEF Allocated

\* What is known of session c and its chain.
LEMMA SessionType ==
    ASSUME DataInv, NEW c \in Conns
    PROVE  /\ es[c] = [state |-> es[c].state, p |-> es[c].p]
           /\ es[c].state \in SessionStates /\ es[c].p \in Seq(Pbufs)
           /\ heap \in Heaps /\ rcvWnd[c] \in 0 .. TCP_WND /\ sndBuf[c] \in 0 .. TCP_SND_BUF
           /\ echoed[c] \in BOOLEAN /\ piped[c] \in BOOLEAN
           /\ Good(heap, es[c].p, rcvWnd[c], piped[c], echoed[c])
           /\ Unanswered(c) = Members(es[c].p) /\ Unanswered(c) \subseteq Allocated(heap)
<1>1. es[c] \in [state : SessionStates, p : Seq(Pbufs)]
  BY DEF DataInv, Types
<1>2. echoed[c] \in BOOLEAN /\ piped[c] \in BOOLEAN
  BY DEF DataInv, Types
<1>3. Good(heap, es[c].p, rcvWnd[c], piped[c], echoed[c])
  BY DEF DataInv
<1>4. heap \in Heaps /\ rcvWnd[c] \in 0 .. TCP_WND /\ sndBuf[c] \in 0 .. TCP_SND_BUF
  BY DEF DataInv, Types
<1> QED BY <1>1, <1>2, <1>3, <1>4 DEF Good, Unanswered

\* The first pbuf of a fresh chain becomes the answer.
LEMMA AnswerContinues ==
    ASSUME DataInv, NEW c \in Conns, NEW s, NEW h, NEW total, Fresh(h, s, total),
           total <= rcvWnd[c], es[c].p = <<>>, NEW pp \in BOOLEAN, pp = (piped[c] \/ Len(s) > 1),
           NEW st, st = [h |-> Answer(h, s[1]), p |-> s, snd |-> sndBuf[c],
                         wnd |-> rcvWnd[c] - total, echo |-> echoed[c]]
    PROVE  Continues(c, st, pp)
<1> DEFINE g == Answer(h, s[1])
           w == rcvWnd[c] - total
           rest == Tail(s)
<1>1. /\ h \in Heaps /\ s \in Seq(Pbufs) /\ s # <<>> /\ Len(s) \in Nat \ {0} /\ Distinct(s)
      /\ Members(s) \subseteq FreePbufs(heap)
      /\ Allocated(h) = Allocated(heap) \cup Members(s)
      /\ \A q \in Pbufs \ Members(s) : h[q] = heap[q]
      /\ total \in Nat /\ total = ChainLength(h, s) /\ h[s[1]].len \in ReqLens
  <2>1. s \in Seq(Pbufs) /\ Len(s) \in Nat \ {0}
    BY LenProperties DEF Fresh
  <2>2. s # <<>>
    BY <2>1, EmptySeq
  <2> QED BY <2>1, <2>2 DEF Fresh
<1>2. /\ rcvWnd[c] \in 0 .. TCP_WND /\ sndBuf[c] \in 0 .. TCP_SND_BUF /\ heap \in Heaps
      /\ echoed[c] \in BOOLEAN /\ piped[c] \in BOOLEAN
      /\ Good(heap, <<>>, rcvWnd[c], piped[c], echoed[c])
      /\ Unanswered(c) = {}
  BY SessionType, MembersOfNone
<1>3. s[1] \in Members(s) /\ s[1] \in Pbufs /\ \A i \in 1 .. Len(s) : s[i] \in Members(s)
  BY <1>1, MembersArePbufs
<1>4. /\ g \in Heaps /\ g[s[1]].len = RespLen /\ g[s[1]].body = "answer"
      /\ Allocated(g) = Allocated(h) /\ \A q \in Pbufs \ {s[1]} : g[q] = h[q]
  BY <1>1, <1>3, AnswerHeap
<1>5. w \in 0 .. TCP_WND
  BY <1>1, <1>2, SizeTypes
<1> HIDE DEF g, w
<1>6. \A i \in 1 .. Len(s) : i # 1 => s[i] # s[1] /\ s[i] \in Pbufs /\ g[s[i]] = h[s[i]]
  <2>1. \A i \in 1 .. Len(s) : i # 1 => s[i] # s[1] /\ s[i] \in Pbufs
    BY <1>1, <1>3, MembersArePbufs DEF Distinct
  <2> QED BY <1>4, <2>1
<1>7. TotLens(g, s)
  <2>1. SUFFICES ASSUME NEW i \in 1 .. Len(s), i # 1
                 PROVE  g[s[i]].tot = ChainLength(g, SubSeq(s, i, Len(s)))
    BY <1>4 DEF TotLens
  <2> DEFINE r == SubSeq(s, i, Len(s))
  <2>2. g[s[i]].tot = ChainLength(h, r)
    BY <1>6, <2>1 DEF Fresh
  <2>3. r \in Seq(Pbufs) /\ Len(r) = Len(s) - i + 1 /\ \A j \in 1 .. Len(s) - i + 1 : r[j] = s[i + j - 1]
    BY <1>1, SuffixType
  <2> HIDE DEF r
  <2>4. \A j \in 1 .. Len(r) : i + j - 1 \in 1 .. Len(s) /\ i + j - 1 # 1
    BY <1>1, <2>1, <2>3
  <2>5. ASSUME NEW j \in 1 .. Len(r) PROVE g[r[j]].len = h[r[j]].len
    <3>1. r[j] = s[i + j - 1] /\ i + j - 1 \in 1 .. Len(s) /\ i + j - 1 # 1
      BY <2>3, <2>4
    <3>2. g[s[i + j - 1]] = h[s[i + j - 1]]
      BY <1>6, <3>1
    <3> QED BY <3>1, <3>2
  <2>6. ChainLength(g, r) = ChainLength(h, r)
    BY <1>1, <1>4, <2>3, <2>5, LengthAgrees
  <2> QED BY <2>2, <2>6 DEF r
<1>8. SmallRequests => w + ChainLength(g, s) >= TCP_WND
  <2>1. SUFFICES ASSUME SmallRequests PROVE w + ChainLength(g, s) >= TCP_WND
    OBVIOUS
  <2>2. ChainLength(g, s) = RespLen + ChainLength(g, rest)
    BY <1>1, <1>4, LengthOfTail
  <2>3. ChainLength(h, s) = h[s[1]].len + ChainLength(h, rest)
    BY <1>1, LengthOfTail
  <2>4. rest \in Seq(Pbufs) /\ \A i \in 1 .. Len(rest) : i + 1 \in 1 .. Len(s) /\ rest[i] = s[i + 1]
    BY <1>1, MembersOfTail, RestOfTail
  <2> HIDE DEF rest
  <2>5. ASSUME NEW i \in 1 .. Len(rest) PROVE g[rest[i]].len = h[rest[i]].len
    <3>1. i + 1 \in 1 .. Len(s) /\ rest[i] = s[i + 1] /\ i + 1 # 1
      BY <2>4
    <3>2. g[s[i + 1]] = h[s[i + 1]]
      BY <1>6, <3>1
    <3> QED BY <3>1, <3>2
  <2>6. ChainLength(g, rest) = ChainLength(h, rest) /\ ChainLength(h, rest) \in Nat
    BY <1>1, <1>4, <2>4, <2>5, LengthAgrees, LengthType
  <2>7. rcvWnd[c] + 0 >= TCP_WND
    BY <1>2, <2>1, LengthOfNone DEF Good
  <2>8. h[s[1]].len \in Nat /\ h[s[1]].len <= RespLen /\ RespLen \in Nat
    BY <1>1, <2>1, SizeTypes DEF SmallRequests, RespLen
  <2>9. w = rcvWnd[c] - total
    BY DEF w
  <2> DEFINE all == rcvWnd[c]
             first == h[s[1]].len
             others == ChainLength(h, rest)
  <2>10. /\ all \in Nat /\ first \in Nat /\ others \in Nat /\ TCP_WND \in Nat
         /\ all + 0 >= TCP_WND /\ first <= RespLen /\ RespLen \in Nat
    BY <1>2, <2>6, <2>7, <2>8, SizeTypes
  <2>11. ChainLength(g, s) = RespLen + others /\ w = all - (first + others)
    BY <1>1, <2>2, <2>3, <2>6, <2>9
  <2> HIDE DEF all, first, others
  <2> QED BY <2>10, <2>11
<1>9. ~ pp => ~ echoed[c] /\ \A i \in 1 .. Len(s) : g[s[i]].body = "answer"
  <2>1. SUFFICES ASSUME ~ pp PROVE ~ echoed[c] /\ \A i \in 1 .. Len(s) : g[s[i]].body = "answer"
    OBVIOUS
  <2>2. ~ piped[c] /\ ~ (Len(s) > 1)
    BY <2>1
  <2>3. ~ echoed[c]
    BY <1>2, <2>2 DEF Good
  <2>4. \A i \in 1 .. Len(s) : i = 1
    BY <1>1, <2>2
  <2> QED BY <1>4, <2>3, <2>4
<1>10. Members(s) \subseteq Allocated(g)
  BY <1>1, <1>4
<1>11. Good(g, s, w, pp, echoed[c])
  BY <1>1, <1>7, <1>8, <1>9, <1>10 DEF Good
<1>12. /\ st \in SendStates /\ st.h = g /\ st.p = s /\ st.wnd = w /\ st.echo = echoed[c]
  <2> DEFINE snd == sndBuf[c]
             e == echoed[c]
  <2>1. snd \in 0 .. TCP_SND_BUF /\ e \in BOOLEAN
        /\ st = [h |-> g, p |-> s, snd |-> snd, wnd |-> w, echo |-> e]
    BY <1>2 DEF g, w
  <2> HIDE DEF snd, e
  <2>2. st \in SendStates /\ st.h = g /\ st.p = s /\ st.wnd = w /\ st.echo = e
    BY <1>1, <1>4, <1>5, <2>1, SendStateType
  <2> QED BY <2>2 DEF e
<1>13. \A q \in Allocated(heap) \ Unanswered(c) : q \in Pbufs /\ q \notin Members(s) /\ g[q] = heap[q]
  <2>1. \A q \in Allocated(heap) : q \in Pbufs /\ q \notin Members(s)
    BY <1>1 DEF FreePbufs, Allocated
  <2> QED BY <1>1, <1>3, <1>4, <2>1
<1>14. Allocated(g) = (Allocated(heap) \ Unanswered(c)) \cup Members(s)
  BY <1>1, <1>2, <1>4
<1> QED BY <1>1, <1>11, <1>12, <1>13, <1>14 DEF Continues

\* A fresh chain is queued behind the one that waits.
Queued(c, s, h, total) ==
    [h |-> pbuf_chain(h, es[c].p, s), p |-> es[c].p \o s, snd |-> sndBuf[c],
     wnd |-> rcvWnd[c] - total, echo |-> echoed[c]]

LEMMA QueueContinues ==
    ASSUME DataInv, NEW c \in Conns, NEW s, NEW h, NEW total, Fresh(h, s, total),
           total <= rcvWnd[c], NEW p, p = es[c].p,
           NEW st, st = Queued(c, s, h, total)
    PROVE  Continues(c, st, TRUE)
<1> DEFINE g == pbuf_chain(h, p, s)
           w == rcvWnd[c] - total
           u == p \o s
<1>1. /\ h \in Heaps /\ s \in Seq(Pbufs) /\ s # <<>> /\ Len(s) \in Nat \ {0} /\ Distinct(s)
      /\ Members(s) \subseteq FreePbufs(heap)
      /\ Allocated(h) = Allocated(heap) \cup Members(s)
      /\ \A q \in Pbufs \ Members(s) : h[q] = heap[q]
      /\ total \in Nat /\ total = ChainLength(h, s) /\ h[s[1]].tot = total
  <2>1. s \in Seq(Pbufs) /\ Len(s) \in Nat \ {0}
    BY LenProperties DEF Fresh
  <2>2. s # <<>>
    BY <2>1, EmptySeq
  <2> QED BY <2>1, <2>2 DEF Fresh
<1>2. /\ rcvWnd[c] \in 0 .. TCP_WND /\ sndBuf[c] \in 0 .. TCP_SND_BUF /\ heap \in Heaps
      /\ echoed[c] \in BOOLEAN /\ piped[c] \in BOOLEAN /\ p \in Seq(Pbufs) /\ Len(p) \in Nat
      /\ Good(heap, p, rcvWnd[c], piped[c], echoed[c])
      /\ Unanswered(c) = Members(p) /\ Members(p) \subseteq Allocated(heap)
  <2>1. p \in Seq(Pbufs)
    BY SessionType
  <2> QED BY <2>1, SessionType, LenProperties
<1>3. Members(p) \cap Members(s) = {}
  BY <1>1, <1>2 DEF FreePbufs
<1>4. /\ g \in Heaps /\ Allocated(g) = Allocated(h)
      /\ \A q \in Pbufs : /\ g[q].len = h[q].len /\ g[q].body = h[q].body
                          /\ g[q].tot = IF q \in Members(p) THEN h[q].tot + h[s[1]].tot ELSE h[q].tot
                          /\ q \notin Members(p) \cup Members(s) => g[q] = h[q]
  <2>1. Members(s) \subseteq Allocated(h)
    BY <1>1
  <2> QED BY <1>1, <1>2, <1>3, <2>1, ChainedHeap
<1>5. /\ u \in Seq(Pbufs) /\ Len(u) = Len(p) + Len(s) /\ Members(u) = Members(p) \cup Members(s)
      /\ Distinct(u)
  <2>1. Distinct(p)
    BY <1>2 DEF Good
  <2> QED BY <1>1, <1>2, <1>3, <2>1, MembersOfConcat
<1>6. w \in 0 .. TCP_WND
  BY <1>1, <1>2, SizeTypes
<1> HIDE DEF g, w
\* Lengths are what they were.
<1>7. ASSUME NEW r \in Seq(Pbufs) PROVE ChainLength(g, r) = ChainLength(h, r)
  <2>1. \A i \in 1 .. Len(r) : g[r[i]].len = h[r[i]].len
    BY <1>4, MembersArePbufs
  <2> QED BY <1>1, <1>4, <2>1, LengthAgrees
<1>8. \A i \in 1 .. Len(p) : p[i] \in Members(p) /\ p[i] \in Pbufs /\ h[p[i]] = heap[p[i]]
  <2>1. \A i \in 1 .. Len(p) : p[i] \in Members(p) /\ p[i] \in Pbufs
    BY <1>2, MembersArePbufs
  <2> QED BY <1>1, <1>3, <2>1
<1>9. ASSUME NEW i \in 1 .. Len(p) PROVE ChainLength(h, SubSeq(p, i, Len(p))) = ChainLength(heap, SubSeq(p, i, Len(p)))
  <2> DEFINE r == SubSeq(p, i, Len(p))
  <2>1. r \in Seq(Pbufs) /\ Len(r) = Len(p) - i + 1 /\ \A j \in 1 .. Len(p) - i + 1 : r[j] = p[i + j - 1]
    BY <1>2, SuffixType
  <2> HIDE DEF r
  <2>2. \A j \in 1 .. Len(r) : i + j - 1 \in 1 .. Len(p)
    BY <1>2, <2>1
  <2>3. ASSUME NEW j \in 1 .. Len(r) PROVE h[r[j]].len = heap[r[j]].len
    <3>1. i + j - 1 \in 1 .. Len(p) /\ r[j] = p[i + j - 1]
      BY <2>1, <2>2
    <3>2. h[p[i + j - 1]] = heap[p[i + j - 1]]
      BY <1>8, <3>1
    <3> QED BY <3>1, <3>2
  <2>4. ChainLength(h, r) = ChainLength(heap, r)
    BY <1>1, <1>2, <2>1, <2>3, LengthAgrees
  <2> QED BY <2>4 DEF r
<1>10. ChainLength(h, p) = ChainLength(heap, p)
  <2>1. \A i \in 1 .. Len(p) : h[p[i]].len = heap[p[i]].len
    BY <1>8
  <2> QED BY <1>1, <1>2, <2>1, LengthAgrees
<1>11. ASSUME NEW i \in 1 .. Len(p)
       PROVE  g[u[i]].body = "answer" \/ g[u[i]].tot = ChainLength(g, SubSeq(u, i, Len(u)))
  <2> DEFINE r == SubSeq(p, i, Len(p))
  <2>1. u[i] = p[i]
    BY <1>1, <1>2, ConcatProperties
  <2>2. SubSeq(u, i, Len(u)) = r \o s
    <3>1. p \in Seq(Pbufs) /\ s \in Seq(Pbufs)
      BY <1>1, <1>2
    <3>2. SubSeq(u, i, Len(p) + Len(s)) = r \o s
      BY <3>1, RestOfFront
    <3> QED BY <1>5, <3>2
  <2>3. r \in Seq(Pbufs)
    BY <1>2, SuffixType
  <2>4. heap[p[i]].body = "answer" \/ heap[p[i]].tot = ChainLength(heap, r)
    BY <1>2 DEF Good, TotLens
  <2>5. ChainLength(heap, r) = ChainLength(h, r)
    BY <1>9
  <2> HIDE DEF r, u
  <2>6. ChainLength(g, r \o s) = ChainLength(h, r) + total
    <3>1. r \o s \in Seq(Pbufs)
      BY <1>1, <2>3, ConcatProperties
    <3>2. ChainLength(g, r \o s) = ChainLength(h, r \o s)
      BY <1>7, <3>1
    <3> QED BY <1>1, <2>3, <3>2, LengthOfConcat
  <2>7. g[p[i]].body = heap[p[i]].body /\ g[p[i]].tot = heap[p[i]].tot + total
    <3>1. p[i] \in Members(p) /\ p[i] \in Pbufs /\ h[p[i]] = heap[p[i]]
      BY <1>8
    <3> QED BY <1>1, <1>4, <3>1
  <2> QED BY <2>1, <2>2, <2>4, <2>5, <2>6, <2>7
<1>12. ASSUME NEW i \in Len(p) + 1 .. Len(p) + Len(s)
       PROVE  g[u[i]].tot = ChainLength(g, SubSeq(u, i, Len(u)))
  <2> DEFINE k == i - Len(p)
             r == SubSeq(s, k, Len(s))
  <2>1. k \in 1 .. Len(s) /\ u[i] = s[k] /\ SubSeq(u, i, Len(u)) = r
    <3>1. p \in Seq(Pbufs) /\ s \in Seq(Pbufs)
      BY <1>1, <1>2
    <3>2. k \in 1 .. Len(s) /\ u[i] = s[k] /\ SubSeq(u, i, Len(p) + Len(s)) = r
      BY <3>1, RestOfBack
    <3> QED BY <1>5, <3>2
  <2> HIDE DEF k, u
  <2>2. r \in Seq(Pbufs)
    BY <1>1, <2>1, SuffixType
  <2>3. h[s[k]].tot = ChainLength(h, r)
    BY <2>1 DEF Fresh
  <2>4. s[k] \in Members(s) /\ s[k] \in Pbufs /\ s[k] \notin Members(p)
    BY <1>1, <1>3, <2>1, MembersArePbufs
  <2>5. g[s[k]].tot = h[s[k]].tot
    BY <1>4, <2>4
  <2> HIDE DEF r
  <2> QED BY <1>7, <2>1, <2>2, <2>3, <2>5
<1>13. TotLens(g, u)
  <2>1. SUFFICES ASSUME NEW i \in 1 .. Len(u)
                 PROVE  g[u[i]].body = "answer" \/ g[u[i]].tot = ChainLength(g, SubSeq(u, i, Len(u)))
    BY DEF TotLens
  <2>2. i \in 1 .. Len(p) \/ i \in Len(p) + 1 .. Len(p) + Len(s)
    BY <1>1, <1>2, <1>5
  <2> HIDE DEF u
  <2> QED BY <1>11, <1>12, <2>2
<1>14. SmallRequests => w + ChainLength(g, u) >= TCP_WND
  <2>1. ChainLength(g, u) = ChainLength(h, u)
    BY <1>5, <1>7
  <2>2. ChainLength(h, u) = ChainLength(h, p) + total
    BY <1>1, <1>2, LengthOfConcat
  <2>3. SmallRequests => rcvWnd[c] + ChainLength(heap, p) >= TCP_WND
    BY <1>2 DEF Good
  <2>4. ChainLength(heap, p) \in Nat /\ w = rcvWnd[c] - total
    BY <1>2, LengthType DEF w
  <2> HIDE DEF u
  <2> QED BY <1>1, <1>2, <1>10, <2>1, <2>2, <2>3, <2>4, SizeTypes
<1>15. Members(u) \subseteq Allocated(g)
  BY <1>1, <1>2, <1>4, <1>5
<1> HIDE DEF u
<1>16. Good(g, u, w, TRUE, echoed[c])
  BY <1>5, <1>13, <1>14, <1>15 DEF Good
<1>17. /\ st \in SendStates /\ st.h = g /\ st.p = u /\ st.wnd = w /\ st.echo = echoed[c]
  <2> DEFINE snd == sndBuf[c]
             e == echoed[c]
  <2>1. snd \in 0 .. TCP_SND_BUF /\ e \in BOOLEAN
        /\ st = [h |-> g, p |-> u, snd |-> snd, wnd |-> w, echo |-> e]
    BY <1>2 DEF g, w, u, Queued
  <2> HIDE DEF snd, e
  <2>2. st \in SendStates /\ st.h = g /\ st.p = u /\ st.wnd = w /\ st.echo = e
    <3>1. g \in Heaps /\ u \in Seq(Pbufs)
      BY <1>4, <1>5
    <3> QED BY <1>6, <2>1, <3>1 DEF SendStates
  <2> QED BY <2>2 DEF e
<1>18. \A q \in Allocated(heap) \ Unanswered(c) : g[q] = heap[q]
  <2>1. \A q \in Allocated(heap) : q \in Pbufs /\ q \notin Members(s)
    BY <1>1 DEF FreePbufs, Allocated
  <2>2. \A q \in Allocated(heap) \ Members(p) : q \in Pbufs \ Members(s) /\ g[q] = h[q]
    BY <1>4, <2>1
  <2> QED BY <1>1, <1>2, <2>2
<1>19. /\ Members(u) \subseteq Unanswered(c) \cup FreePbufs(heap)
       /\ Allocated(g) = (Allocated(heap) \ Unanswered(c)) \cup Members(u)
  BY <1>1, <1>2, <1>4, <1>5
<1> QED BY <1>16, <1>17, <1>18, <1>19 DEF Continues

-----------------------------------------------------------------------------
(* The callbacks.                                                          *)

LEMMA WritesAreNat == Writes \subseteq Nat
<1>1. Plenty \in Nat
  BY PbufsAssumption, FS_CardinalityType DEF Plenty
<1> QED BY <1>1 DEF Writes

\* A step that leaves every session and the pool alone.
LEMMA RestData ==
    ASSUME DataInv, UNCHANGED <<es, rcvWnd, sndBuf, piped, echoed, heap, lost, reset>>,
           esLeaked' \in 0 .. MaxLeaked
    PROVE  DataInv'
<1>1. Types'
  BY DEF DataInv, Types
<1>2. \A c \in Conns : Unanswered(c)' = Unanswered(c)
  BY DEF Unanswered
<1>3. Apart'
  BY <1>2 DEF DataInv, Apart
<1>4. SentPbufsAreFreed'
  BY <1>2 DEF DataInv, SentPbufsAreFreed, Allocated
<1>5. \A c \in Conns : Good(heap, es[c].p, rcvWnd[c], piped[c], echoed[c])'
  <2>1. SUFFICES ASSUME NEW c \in Conns
                 PROVE  Good(heap', es'[c].p, rcvWnd'[c], piped'[c], echoed'[c])
    BY DEF Good, TotLens
  <2> QED BY DEF DataInv
<1> QED BY <1>1, <1>3, <1>4, <1>5 DEF DataInv, SmallRequests

LEMMA CloseData ==
    ASSUME DataInv, NEW c \in Conns, es[c].p = <<>>, doip_close(c)
    PROVE  DataInv'
<1>1. /\ heap \in Heaps /\ rcvWnd[c] \in 0 .. TCP_WND
      /\ Good(heap, <<>>, rcvWnd[c], piped[c], echoed[c]) /\ Unanswered(c) = {}
  BY SessionType, MembersOfNone
<1>2. reset' \in BOOLEAN
  BY DEF doip_close, DataInv, Types
<1>3. SmallRequests => ~ reset'
  <2>1. SUFFICES ASSUME SmallRequests PROVE ~ reset'
    OBVIOUS
  <2>2. rcvWnd[c] + 0 >= TCP_WND
    BY <1>1, <2>1, LengthOfNone DEF Good
  <2>3. rcvWnd[c] = TCP_WND
    BY <1>1, <2>2, SizeTypes
  <2> QED BY <2>1, <2>3 DEF doip_close, DataInv
<1>4. lost' = lost \cup Unanswered(c)
  BY <1>1 DEF doip_close
<1>5. es' = [es EXCEPT ![c] = NoEs] /\ Forget(c) /\ heap' = heap /\ esLeaked' = esLeaked
  BY DEF doip_close
<1> QED BY <1>2, <1>3, <1>4, <1>5, Ended

\* doip_send for the chain that waits, in the state the session has or in closing.
LEMMA SendAgain ==
    ASSUME DataInv, NEW c \in Conns, NEW s \in SessionStates \ {"none"}, NEW writes \in Writes,
           SendFrom(c, s, SendState(c), writes), UNCHANGED <<piped, history>>
    PROVE  DataInv'
<1>1. writes \in Nat /\ sndBuf[c] \in 0 .. TCP_SND_BUF
  BY WritesAreNat, SessionType
<1>2. PICK st : st = SendState(c)
  OBVIOUS
<1>3. st = AsIs(c, sndBuf[c]) /\ SendFrom(c, s, st, writes)
  BY <1>2 DEF SendState, AsIs
<1> QED BY <1>1, <1>3, ResendData

LEMMA AcceptData ==
    ASSUME Sessions, DataInv, NEW c \in Conns, doip_accept(c)
    PROVE  DataInv'
<1>1. CASE es' = es
  BY <1>1, RestData DEF doip_accept, history, DataInv, Types
<1>2. CASE es' = [es EXCEPT ![c] = NewEs]
  <2>1. es[c].p = <<>>
    BY DEF doip_accept, Sessions, SessionPerConnection, HasSession, DataInv, Apart
  <2>2. PICK st : st = AsIs(c, sndBuf[c])
    OBVIOUS
  <2>3. Continues(c, st, piped[c]) /\ piped[c] \in BOOLEAN
    BY <2>2, AsItIs, SessionType
  <2>4. st.h = heap /\ st.p = <<>> /\ st.snd = sndBuf[c] /\ st.wnd = rcvWnd[c] /\ st.echo = echoed[c]
    BY <2>1, <2>2 DEF AsIs
  <2>5. Leaves(c, "received", st, piped[c])
    <3>1. heap' = st.h /\ es' = [es EXCEPT ![c] = [state |-> "received", p |-> st.p]]
      BY <1>2, <2>4 DEF doip_accept, NewEs
    <3>2. /\ sndBuf' = [sndBuf EXCEPT ![c] = st.snd] /\ rcvWnd' = [rcvWnd EXCEPT ![c] = st.wnd]
          /\ echoed' = [echoed EXCEPT ![c] = st.echo] /\ piped' = [piped EXCEPT ![c] = piped[c]]
      BY <2>4 DEF doip_accept, DataInv, Types
    <3> QED BY <3>1, <3>2 DEF Leaves, doip_accept, history
  <2> QED BY <2>3, <2>5, Replaced DEF SessionStates
<1> QED BY <1>1, <1>2 DEF doip_accept

LEMMA ErrorData == ASSUME DataInv, NEW c \in Conns, doip_error(c) PROVE DataInv'
<1>1. /\ es' = [es EXCEPT ![c] = NoEs] /\ Forget(c) /\ heap' = heap
      /\ lost' = lost \cup Unanswered(c) /\ esLeaked' = esLeaked /\ reset' = reset
  BY DEF doip_error
<1>2. reset' \in BOOLEAN /\ (SmallRequests => ~ reset')
  BY <1>1 DEF DataInv, Types
<1> QED BY <1>1, <1>2, Ended

LEMMA RecvChainData ==
    ASSUME DataInv, NEW c \in Conns, NEW s, NEW h, NEW total, Fresh(h, s, total),
           NEW writes \in Writes, doip_recv(c, s, h, total, writes)
    PROVE  DataInv'
<1>1. total <= rcvWnd[c] /\ esLeaked' = esLeaked /\ lost' = lost /\ reset' = reset
  BY DEF doip_recv
<1>2. writes \in Nat /\ piped[c] \in BOOLEAN
  BY WritesAreNat, SessionType
<1>3. CASE es[c].p = <<>>
  <2>1. PICK st : st = [SendState(c) EXCEPT !.h = Answer(h, s[1]), !.p = s, !.wnd = @ - total]
    OBVIOUS
  <2>2. st = [h |-> Answer(h, s[1]), p |-> s, snd |-> sndBuf[c],
              wnd |-> rcvWnd[c] - total, echo |-> echoed[c]]
    BY <2>1 DEF SendState
  <2>3. PICK pp \in BOOLEAN : pp = (piped[c] \/ Len(s) > 1)
    OBVIOUS
  <2>4. Continues(c, st, pp)
    BY <1>1, <1>3, <2>2, <2>3, AnswerContinues
  <2>5. SendFrom(c, "received", st, writes)
    BY <1>3, <2>1 DEF doip_recv
  <2>6. piped' = [piped EXCEPT ![c] = pp]
    BY <1>3, <2>3 DEF doip_recv
  <2> QED BY <1>1, <1>2, <2>4, <2>5, <2>6, SendData DEF SessionStates
<1>4. CASE es[c].p # <<>>
  <2>1. PICK st : st = Queued(c, s, h, total)
    OBVIOUS
  <2>2. Continues(c, st, TRUE)
    BY <1>1, <2>1, QueueContinues
  <2>3. /\ st.h = pbuf_chain(h, es[c].p, s) /\ st.p = es[c].p \o s /\ st.snd = sndBuf[c]
        /\ st.wnd = rcvWnd[c] - total /\ st.echo = echoed[c]
    BY <2>1 DEF Queued
  <2>4. es[c].state \in SessionStates /\ (es[c].state = "none" => es[c].p = <<>>)
    BY SessionType DEF DataInv, Apart
  <2>5. es' = [es EXCEPT ![c] = [state |-> es[c].state, p |-> st.p]]
    <3>1. es' = [es EXCEPT ![c] = [es[c] EXCEPT !.p = @ \o s]]
      BY <1>4 DEF doip_recv
    <3>2. [es[c] EXCEPT !.p = @ \o s] = [state |-> es[c].state, p |-> st.p]
      <4> DEFINE q == es[c].p \o s
      <4>1. es[c] = [state |-> es[c].state, p |-> es[c].p] /\ st.p = q
        BY <2>3, SessionType
      <4>2. [es[c] EXCEPT !.p = q] = [state |-> es[c].state, p |-> q]
        <5> HIDE DEF q
        <5> QED BY <4>1
      <4> QED BY <4>1, <4>2
    <3> QED BY <3>1, <3>2
  <2>6. /\ heap' = st.h /\ rcvWnd' = [rcvWnd EXCEPT ![c] = st.wnd]
        /\ sndBuf' = [sndBuf EXCEPT ![c] = st.snd] /\ echoed' = [echoed EXCEPT ![c] = st.echo]
        /\ piped' = [piped EXCEPT ![c] = TRUE]
    BY <1>4, <2>3 DEF doip_recv, DataInv, Types
  <2>7. Leaves(c, es[c].state, st, TRUE)
    BY <1>1, <2>5, <2>6 DEF Leaves
  <2>8. es[c].state # "none"
    BY <1>4, <2>4
  <2> QED BY <2>2, <2>4, <2>7, <2>8, Replaced
<1> QED BY <1>3, <1>4

LEMMA RecvData_Data == ASSUME DataInv, NEW c \in Conns, RecvData(c) PROVE DataInv'
<1>1. heap \in Heaps
  BY DEF DataInv, Types
<1>2. PICK p \in FreePbufs(heap), n \in ReqLens, writes \in Writes :
        \/ doip_recv(c, <<p>>, Received(heap, p, n, 0, "request"), n, writes)
        \/ \E q \in FreePbufs(heap) \ {p}, m \in ReqLens :
               doip_recv(c, <<p, q>>,
                   Received(Received(heap, q, m, 0, "request"), p, n, m, "request"), n + m, writes)
  BY DEF RecvData
<1>3. CASE doip_recv(c, <<p>>, Received(heap, p, n, 0, "request"), n, writes)
  <2>1. Fresh(Received(heap, p, n, 0, "request"), <<p>>, n)
    BY <1>1, FreshOne
  <2> QED BY <1>3, <2>1, RecvChainData
<1>4. ASSUME NEW q \in FreePbufs(heap) \ {p}, NEW m \in ReqLens,
             doip_recv(c, <<p, q>>,
                 Received(Received(heap, q, m, 0, "request"), p, n, m, "request"), n + m, writes)
      PROVE  DataInv'
  <2>1. Fresh(Received(Received(heap, q, m, 0, "request"), p, n, m, "request"), <<p, q>>, n + m)
    BY <1>1, FreshTwo
  <2> QED BY <1>4, <2>1, RecvChainData
<1> QED BY <1>2, <1>3, <1>4

LEMMA FinData == ASSUME DataInv, NEW c \in Conns, RecvFin(c) PROVE DataInv'
<1>1. CASE doip_recv_fin_done(c)
  BY <1>1, CloseData DEF doip_recv_fin_done
<1>2. ASSUME NEW writes \in Writes, doip_recv_fin(c, writes) PROVE DataInv'
  <2>1. SendFrom(c, "closing", SendState(c), writes) /\ UNCHANGED <<piped, history>>
    BY <1>2 DEF doip_recv_fin
  <2> QED BY <2>1, SendAgain DEF SessionStates
<1> QED BY <1>1, <1>2 DEF RecvFin

LEMMA PollData == ASSUME DataInv, NEW c \in Conns, Poll(c) PROVE DataInv'
<1>1. PICK writes \in Writes : doip_poll(c, writes)
  BY DEF Poll
<1>2. CASE es[c].p # <<>>
  <2>1. SendFrom(c, es[c].state, SendState(c), writes) /\ UNCHANGED <<piped, history>>
    BY <1>1, <1>2 DEF doip_poll, PollSends, PollCloses
  <2>2. es[c].state \in SessionStates \ {"none"}
    <3>1. HasSession(c)
      BY <1>1, <1>2 DEF doip_poll, PollSends, PollCloses
    <3> QED BY <3>1, SessionType DEF HasSession
  <2> QED BY <2>1, <2>2, SendAgain
<1>3. CASE es[c].p = <<>>
  BY <1>1, <1>3, CloseData DEF doip_poll, PollSends, PollCloses
<1> QED BY <1>2, <1>3

LEMMA SentData == ASSUME DataInv, NEW c \in Conns, Acked(c) PROVE DataInv'
<1>1. PICK n \in {TCP_SND_BUF - sndBuf[c], RespLen} \ {0}, writes \in Writes : doip_sent(c, n, writes)
  BY DEF Acked
<1> DEFINE snd == sndBuf[c] + n
<1>2. sndBuf[c] \in 0 .. TCP_SND_BUF /\ writes \in Nat
  BY WritesAreNat, SessionType
<1>3. snd \in 0 .. TCP_SND_BUF
  <2>1. n \in Nat
    BY <1>1, <1>2, SizeTypes DEF RespLen
  <2>2. n <= TCP_SND_BUF - sndBuf[c]
    BY <1>1 DEF doip_sent
  <2> QED BY <1>2, <2>1, <2>2, SizeTypes
<1>4. CASE es[c].p # <<>>
  <2>1. SendFrom(c, es[c].state, [SendState(c) EXCEPT !.snd = @ + n], writes)
        /\ UNCHANGED <<piped, history>>
    BY <1>1, <1>4 DEF doip_sent, NewEs
  <2>2. PICK st : st = [SendState(c) EXCEPT !.snd = @ + n]
    OBVIOUS
  <2>3. st = AsIs(c, snd) /\ SendFrom(c, es[c].state, st, writes)
    BY <2>1, <2>2 DEF SendState, AsIs
  <2>4. es[c].state \in SessionStates \ {"none"}
    BY <1>1, SessionType DEF doip_sent, HasSession
  <2> HIDE DEF snd
  <2> QED BY <1>2, <1>3, <2>1, <2>3, <2>4, ResendData
<1>5. CASE es[c] = NewEs /\ sndBuf' = [sndBuf EXCEPT ![c] = snd]
           /\ UNCHANGED <<tcp, es, rcvWnd, piped, echoed, heap, history>>
  <2>1. PICK st : st = AsIs(c, snd)
    OBVIOUS
  <2>2. /\ st.h = heap /\ st.p = es[c].p /\ st.snd = snd /\ st.wnd = rcvWnd[c] /\ st.echo = echoed[c]
    BY <2>1 DEF AsIs
  <2> HIDE DEF snd
  <2>3. Continues(c, st, piped[c]) /\ piped[c] \in BOOLEAN
    BY <1>3, <2>1, AsItIs
  <2>4. es' = [es EXCEPT ![c] = [state |-> es[c].state, p |-> st.p]]
    <3>1. es[c] = [state |-> es[c].state, p |-> st.p]
      BY <2>2, SessionType
    <3>2. es = [es EXCEPT ![c] = es[c]]
      BY DEF DataInv, Types
    <3> QED BY <1>5, <3>1, <3>2
  <2>5. /\ heap' = st.h /\ rcvWnd' = [rcvWnd EXCEPT ![c] = st.wnd]
        /\ sndBuf' = [sndBuf EXCEPT ![c] = st.snd] /\ echoed' = [echoed EXCEPT ![c] = st.echo]
        /\ piped' = [piped EXCEPT ![c] = piped[c]]
        /\ esLeaked' = esLeaked /\ lost' = lost /\ reset' = reset
    BY <1>5, <2>2 DEF DataInv, Types, history
  <2>6. Leaves(c, es[c].state, st, piped[c])
    BY <2>4, <2>5 DEF Leaves
  <2>7. es[c].state \in SessionStates /\ es[c].state # "none"
    BY <1>5, SessionType DEF NewEs
  <2> QED BY <2>3, <2>6, <2>7, Replaced
<1>6. CASE es[c].p = <<>> /\ doip_close(c)
  BY <1>6, CloseData
<1> QED BY <1>1, <1>4, <1>5, <1>6 DEF doip_sent

LEMMA NextData == ASSUME Sessions, DataInv, [Next]_vars PROVE DataInv'
<1>1. esLeaked \in 0 .. MaxLeaked /\ MaxLeaked \in Nat
  BY SizesAssumption DEF DataInv, Types
<1>2. CASE doip_accept_no_pcb
  <2>1. esLeaked' \in 0 .. MaxLeaked
    BY <1>1, <1>2 DEF doip_accept_no_pcb
  <2> QED BY <1>2, <2>1, RestData DEF doip_accept_no_pcb, conn
<1>3. ASSUME NEW c \in Conns, Syn(c) \/ LastAck(c) PROVE DataInv'
  BY <1>1, <1>3, RestData DEF Syn, LastAck, history
<1>4. CASE UNCHANGED vars
  BY <1>1, <1>4, RestData DEF vars, conn, history
<1> QED BY <1>2, <1>3, <1>4, AcceptData, ErrorData, RecvData_Data, FinData, PollData, SentData DEF Next

LEMMA NextSessions == ASSUME Sessions, [Next]_vars PROVE Sessions'
<1>1. CASE UNCHANGED vars
  BY <1>1, Stays DEF vars, conn
<1>2. CASE doip_accept_no_pcb
  BY <1>2, Stays DEF doip_accept_no_pcb, conn
<1>3. ASSUME NEW c \in Conns, RecvData(c) PROVE Sessions'
  BY <1>3, RecvSessions DEF RecvData
<1> QED
  BY <1>1, <1>2, <1>3, AcceptSessions, StackSessions, ErrorSessions, FinSessions, PollSessions,
     SentSessions DEF Next

-----------------------------------------------------------------------------
(* The theorems.                                                           *)

LEMMA Start == ASSUME Init PROVE Sessions /\ DataInv
<1>1. Sessions
  BY DEF Init, Sessions, SessionPerConnection, HasSession, NoEs, TcpStates, SessionStates
<1>2. heap \in Heaps /\ Allocated(heap) = {}
  <2>1. FreePbuf \in PbufRecord /\ FreePbuf.ref = 0
    BY BodiesAssumption DEF FreePbuf, PbufRecord
  <2> QED BY <2>1 DEF Init, EmptyHeap, Heaps, Allocated
<1>3. \A c \in Conns : es[c] = NoEs /\ rcvWnd[c] = TCP_WND /\ piped[c] = FALSE /\ echoed[c] = FALSE
  BY DEF Init
<1>4. NoEs \in [state : SessionStates, p : Seq(Pbufs)] /\ NoEs.p = <<>>
  <2>1. <<>> \in Seq(Pbufs)
    BY EmptySeq
  <2> QED BY <2>1 DEF NoEs, SessionStates
<1>5. \A c \in Conns : Unanswered(c) = {}
  BY <1>3, <1>4, MembersOfNone DEF Unanswered
<1>6. Types
  <2>1. es \in [Conns -> [state : SessionStates, p : Seq(Pbufs)]]
    BY <1>4 DEF Init
  <2>2. piped \in [Conns -> BOOLEAN] /\ echoed \in [Conns -> BOOLEAN] /\ reset \in BOOLEAN
    BY DEF Init
  <2>3. /\ rcvWnd \in [Conns -> 0 .. TCP_WND] /\ sndBuf \in [Conns -> 0 .. TCP_SND_BUF]
        /\ esLeaked \in 0 .. MaxLeaked
    BY SizesAssumption DEF Init
  <2> QED BY <1>2, <2>1, <2>2, <2>3 DEF Init, Types
<1>7. \A c \in Conns : Good(heap, es[c].p, rcvWnd[c], piped[c], echoed[c])
  BY <1>2, <1>3, <1>4, GoodOfNone
<1>8. Apart /\ SentPbufsAreFreed
  BY <1>2, <1>3, <1>4, <1>5 DEF Init, Apart, SentPbufsAreFreed
<1>9. ~ reset
  BY DEF Init
<1> QED BY <1>1, <1>6, <1>7, <1>8, <1>9 DEF DataInv

\* In every reachable state sessions go with connections, and chains are good.
LEMMA Reachable == Spec => [](Sessions /\ DataInv)
<1>1. Init => Sessions /\ DataInv
  BY Start
<1>2. Sessions /\ DataInv /\ [Next]_vars => (Sessions /\ DataInv)'
  BY NextSessions, NextData
<1> QED BY <1>1, <1>2, PTL DEF Spec

\* A session exists exactly as long as lwIP may call back for its connection:
\* doip_recv, doip_sent and doip_poll never meet a session that is gone.
THEOREM SessionPerConnectionHolds == Spec => []SessionPerConnection
<1>1. Sessions /\ DataInv => SessionPerConnection
  BY DEF Sessions
<1> QED BY <1>1, Reachable, PTL

\* Every variable keeps its type: in particular pbuf reference counts never go
\* below zero, and neither the window nor the send buffer leaves its range.
THEOREM TypeCorrect == Spec => []TypeOK
<1>1. ASSUME Sessions, DataInv PROVE TypeOK
  <2>1. tcp \in [Conns -> TcpStates]
    BY <1>1 DEF Sessions
  <2>2. \A c \in Conns : es[c].state \in {"none", "received", "closing"} /\ es[c].p \in Seq(Pbufs)
    BY <1>1, SessionType DEF SessionStates
  <2>3. {piped, echoed} \subseteq [Conns -> BOOLEAN]
    BY <1>1 DEF DataInv, Types
  <2> QED BY <1>1, <2>1, <2>2, <2>3 DEF DataInv, Types, TypeOK
<1> QED BY <1>1, Reachable, PTL

\* Whatever doip_send chops and frees and doip_recv chains, es->p never holds a
\* pbuf that is free or that another session holds too.
THEOREM NoDanglingPbufHolds == Spec => []NoDanglingPbuf
<1>1. ASSUME DataInv PROVE NoDanglingPbuf
  BY <1>1, SessionType DEF NoDanglingPbuf, DataInv, Apart
<1> QED BY <1>1, Reachable, PTL

\* The `try hard to free' loop of doip_send gives back what it has sent, however
\* many references chaining has left: nothing is allocated that no session
\* holds, but what sessions held when their connections died.
THEOREM SentPbufsAreFreedHolds == Spec => []SentPbufsAreFreed
<1>1. DataInv => SentPbufsAreFreed
  BY DEF DataInv
<1> QED BY <1>1, Reachable, PTL

\* A peer that waits for each answer before it sends again gets answers only.
THEOREM LockstepIsAnsweredHolds == Spec => []LockstepIsAnswered
<1>1. ASSUME DataInv PROVE LockstepIsAnswered
  BY <1>1 DEF LockstepIsAnswered, DataInv, Good
<1> QED BY <1>1, Reachable, PTL

\* As long as no request is longer than the answer, what waits to be sent makes
\* up for the closed part of the receive window, and no connection is reset.
THEOREM WindowComesBackHolds == Spec => []WindowComesBack
<1>1. ASSUME DataInv PROVE WindowComesBack
  BY <1>1 DEF WindowComesBack, DataInv, Good, SmallRequests, Live
<1> QED BY <1>1, Reachable, PTL

\* However pbufs are answered, chained and chopped, a tot_len other than that
\* of an answer is the length of the rest of its chain.
THEOREM TotLenIsStaleForAnswersOnlyHolds == Spec => []TotLenIsStaleForAnswersOnly
<1>1. ASSUME DataInv PROVE TotLenIsStaleForAnswersOnly
  <2>1. ASSUME NEW c \in Conns, NEW s \in Seq(Pbufs), s = es[c].p, NEW i \in DOMAIN s
        PROVE  heap[s[i]].body = "answer" \/ heap[s[i]].tot = ChainLength(heap, SubSeq(s, i, Len(s)))
    <3>1. i \in 1 .. Len(s)
      BY <2>1
    <3>2. TotLens(heap, s)
      BY <1>1, <2>1 DEF DataInv, Good
    <3> QED BY <3>1, <3>2 DEF TotLens
  <2>2. \A c \in Conns : es[c].p \in Seq(Pbufs)
    BY <1>1, SessionType
  <2> QED BY <2>1, <2>2 DEF TotLenIsStaleForAnswersOnly
<1> QED BY <1>1, Reachable, PTL

=============================================================================
