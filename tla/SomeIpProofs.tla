---------------------------- MODULE SomeIpProofs ----------------------------
(***************************************************************************)
(* Theorems about the welcome-light service, for any clients, calls and    *)
(* datagrams of others.  What a response promises rests on where it came   *)
(* from: a request under way was made, and a response under way to the     *)
(* call a client waits for was given after the call was carried out.       *)
(***************************************************************************)
EXTENDS SomeIp, TLAPS

\* A client waits for an answer to a call of its own, and only then.
Waits ==
    \A c \in Clients :
        /\ phase[c] = "calling" <=> call[c] # None
        /\ call[c] # None => call[c].client = c /\ call[c] \in made

\* What is under way to the service was asked.
UpIsAsked ==
    /\ \A c \in Clients : Sd(SdTypes.subscribe, c) \in up => phase[c] # "looking"
    /\ \A k \in Calls : Message(REQUEST, k) \in up => k \in made

\* What is under way to the clients was done.
DownIsDone ==
    /\ \A c \in Clients : Sd(SdTypes.ack, c) \in down => phase[c] # "looking"
    /\ \A k \in Calls :
           Message(RESPONSE, k) \in down =>
               k \in made /\ (call[k.client] = k => k.client \in done)

IInv == TypeOK /\ Waits /\ UpIsAsked /\ DownIsDone

-----------------------------------------------------------------------------
LEMMA CallFields ==
    ASSUME NEW k \in Calls
    PROVE  k.client \in Clients /\ k.method \in Methods /\ k.value \in 0 .. 255 /\ k # None
  BY CallsAssumption DEF CallRecord, Methods, Interior, Exterior

\* The datagrams are told apart by what they carry.
LEMMA SdFields ==
    ASSUME NEW t, NEW c
    PROVE  Sd(t, c).port = "sd" /\ Sd(t, c).type = t /\ Sd(t, c).client = c
  BY DEF Sd

LEMMA MessageFields ==
    ASSUME NEW t, NEW k
    PROVE  /\ Message(t, k).port = "service"
           /\ Message(t, k).service = ServiceId
           /\ Message(t, k).type = t
           /\ Message(t, k).client = k.client
           /\ Message(t, k).method = k.method
           /\ Message(t, k).call = k
           /\ Response(Message(t, k)) = Message(RESPONSE, k)
  BY DEF Message, Response

LEMMA UpCases ==
    ASSUME TypeOK, NEW m \in up
    PROVE  \/ \E c \in Clients : m = Sd(SdTypes.find, c) \/ m = Sd(SdTypes.subscribe, c)
           \/ \E k \in Calls : m = Message(REQUEST, k)
  BY DEF TypeOK, SdTypes

LEMMA DownCases ==
    ASSUME TypeOK, NEW m \in down
    PROVE  \/ \E c \in Clients : m = Sd(SdTypes.offer, c) \/ m = Sd(SdTypes.ack, c)
           \/ \E k \in Calls : m = Message(RESPONSE, k)
  BY DEF TypeOK, SdTypes

LEMMA InitIInv == Init => IInv
<1> SUFFICES ASSUME Init PROVE IInv
  OBVIOUS
<1>1. TypeOK
  BY ClientsAssumption DEF Init, TypeOK
<1> QED BY <1>1 DEF Init, IInv, Waits, UpIsAsked, DownIsDone

-----------------------------------------------------------------------------
(* The service.                                                            *)

\* Others' datagrams only leave.
LEMMA StraySd ==
    ASSUME NEW m \in Strays, NEW sent \in BOOLEAN, SOMEIPSD_Recv_Callback(m, sent)
    PROVE  up' = up \ {m} /\ UNCHANGED <<service, clients, down>>
<1>1. SdAnswer(m.type) = m.type
  BY StraysAssumption DEF SOMEIPSD_Recv_Callback, SdAnswer
<1> QED BY <1>1 DEF SOMEIPSD_Recv_Callback, Delivered

LEMMA StrayMessage ==
    ASSUME NEW m \in Strays, NEW sent \in BOOLEAN, SOMEIP_Callback(m, sent)
    PROVE  up' = up \ {m} /\ UNCHANGED <<service, clients, down>>
<1>1. ~ IsRequest(m)
  BY StraysAssumption DEF SOMEIP_Callback, IsRequest
<1> QED BY <1>1 DEF SOMEIP_Callback, Delivered

\* A datagram is lost, or looked at and found to be of no interest.
LEMMA LeavesIInv ==
    ASSUME IInv, up' \subseteq up, down' \subseteq down, UNCHANGED <<service, clients>>
    PROVE  IInv'
  BY DEF IInv, TypeOK, Waits, UpIsAsked, DownIsDone, service, clients

\* A find is answered with an offer, a subscription with an acknowledgement.
LEMMA SdIInv ==
    ASSUME IInv, NEW m \in up, NEW sent \in BOOLEAN, SOMEIPSD_Recv_Callback(m, sent)
    PROVE  IInv'
<1>1. PICK c \in Clients : m = Sd(SdTypes.find, c) \/ m = Sd(SdTypes.subscribe, c)
  <2>1. m.port = "sd"
    BY DEF SOMEIPSD_Recv_Callback
  <2> QED BY <2>1, UpCases, MessageFields DEF IInv
<1>2. m.client = c
  BY <1>1, SdFields
<1>3. UNCHANGED <<service, clients>> /\ up' \subseteq up
  BY DEF SOMEIPSD_Recv_Callback, Delivered
<1>4. CASE m = Sd(SdTypes.find, c)
  <2>1. m.type = SdTypes.find
    BY <1>4, SdFields
  <2>2. SdAnswer(m.type) = SdTypes.offer /\ SdTypes.offer # m.type
    BY <2>1 DEF SdAnswer, SdTypes
  <2>3. down' \subseteq down \cup {Sd(SdTypes.offer, c)}
    BY <1>2, <2>2 DEF SOMEIPSD_Recv_Callback, Answer
  <2>4. Sd(SdTypes.offer, c) \in {Sd(t, d) : t \in {1, 7}, d \in Clients}
    BY DEF SdTypes
  <2>5. /\ \A d \in Clients : Sd(SdTypes.ack, d) # Sd(SdTypes.offer, c)
        /\ \A k \in Calls : Message(RESPONSE, k) # Sd(SdTypes.offer, c)
    <3>1. SdTypes.ack # SdTypes.offer
      BY DEF SdTypes
    <3> QED BY <3>1, SdFields, MessageFields
  <2>6. TypeOK'
    BY <1>3, <2>3, <2>4 DEF IInv, TypeOK, service, clients
  <2>7. DownIsDone'
    BY <1>3, <2>3, <2>5 DEF IInv, DownIsDone, service, clients
  <2> QED BY <1>3, <2>6, <2>7 DEF IInv, Waits, UpIsAsked, service, clients
<1>5. CASE m = Sd(SdTypes.subscribe, c)
  <2>1. m.type = SdTypes.subscribe
    BY <1>5, SdFields
  <2>2. SdAnswer(m.type) = SdTypes.ack /\ SdTypes.ack # m.type
    BY <2>1 DEF SdAnswer, SdTypes
  <2>3. down' \subseteq down \cup {Sd(SdTypes.ack, c)}
    BY <1>2, <2>2 DEF SOMEIPSD_Recv_Callback, Answer
  <2>4. Sd(SdTypes.ack, c) \in {Sd(t, d) : t \in {1, 7}, d \in Clients}
    BY DEF SdTypes
  <2>5. phase[c] # "looking"
    BY <1>5 DEF IInv, UpIsAsked
  <2>6. /\ \A d \in Clients : Sd(SdTypes.ack, d) = Sd(SdTypes.ack, c) => d = c
        /\ \A k \in Calls : Message(RESPONSE, k) # Sd(SdTypes.ack, c)
    BY SdFields, MessageFields
  <2>7. TypeOK'
    BY <1>3, <2>3, <2>4 DEF IInv, TypeOK, service, clients
  <2>8. DownIsDone'
    BY <1>3, <2>3, <2>5, <2>6 DEF IInv, DownIsDone, service, clients
  <2> QED BY <1>3, <2>7, <2>8 DEF IInv, Waits, UpIsAsked, service, clients
<1> QED BY <1>1, <1>4, <1>5

\* What a call of the service does.
LEMMA CallbackDoes ==
    ASSUME IInv, NEW m \in up, NEW sent \in BOOLEAN, SOMEIP_Callback(m, sent)
    PROVE  \E k \in made :
               /\ lit' = [lit EXCEPT ![k.method] = (k.value % 2 = 1)]
               /\ g_ExteriorLightControlCount' \in 0 .. COUNT_WRAP - 1
               /\ done' = IF call[k.client] = k THEN done \cup {k.client} ELSE done
               /\ up' \subseteq up
               /\ down' \subseteq down \cup {Message(RESPONSE, k)}
               /\ UNCHANGED clients
<1>1. PICK k \in Calls : m = Message(REQUEST, k)
  <2>1. m.port = "service"
    BY DEF SOMEIP_Callback
  <2> QED BY <2>1, UpCases, SdFields DEF IInv
<1>2. k \in made
  BY <1>1 DEF IInv, UpIsAsked
<1>3. IsRequest(m) /\ m.call = k /\ Response(m) = Message(RESPONSE, k)
  BY <1>1, MessageFields, CallFields DEF IsRequest
<1>4. /\ Control(k)
      /\ done' = {c \in Clients : c \in done \/ call[c] = k}
      /\ down' \subseteq down \cup {Message(RESPONSE, k)}
      /\ up' \subseteq up
      /\ UNCHANGED clients
  BY <1>3 DEF SOMEIP_Callback, Answer, Delivered
<1>5. g_ExteriorLightControlCount' \in 0 .. COUNT_WRAP - 1
  <2>1. g_ExteriorLightControlCount \in Nat /\ COUNT_WRAP \in Nat \ {0}
    BY ClientsAssumption DEF IInv, TypeOK
  <2>2. (g_ExteriorLightControlCount + 1) % COUNT_WRAP \in 0 .. COUNT_WRAP - 1
    BY <2>1
  <2> QED BY <1>4, <2>2 DEF Control, IInv, TypeOK
<1>6. done' = IF call[k.client] = k THEN done \cup {k.client} ELSE done
  <2>1. \A c \in Clients : call[c] = k => c = k.client
    BY CallFields DEF IInv, Waits
  <2>2. done \subseteq Clients /\ k.client \in Clients
    BY CallFields DEF IInv, TypeOK
  <2> QED BY <1>4, <2>1, <2>2
<1> QED BY <1>2, <1>4, <1>5, <1>6 DEF Control

LEMMA CallbackIInv ==
    ASSUME IInv, NEW m \in up, NEW sent \in BOOLEAN, SOMEIP_Callback(m, sent)
    PROVE  IInv'
<1>1. PICK k \in made :
          /\ lit' = [lit EXCEPT ![k.method] = (k.value % 2 = 1)]
          /\ g_ExteriorLightControlCount' \in 0 .. COUNT_WRAP - 1
          /\ done' = IF call[k.client] = k THEN done \cup {k.client} ELSE done
          /\ up' \subseteq up
          /\ down' \subseteq down \cup {Message(RESPONSE, k)}
          /\ UNCHANGED clients
  BY CallbackDoes
<1>2. k \in Calls /\ k.client \in Clients
  BY CallFields DEF IInv, TypeOK
<1>3. TypeOK'
  <2>1. lit' \in [Methods -> BOOLEAN]
    <3>1. (k.value % 2 = 1) \in BOOLEAN
      OBVIOUS
    <3>2. lit \in [Methods -> BOOLEAN]
      BY DEF IInv, TypeOK
    <3> QED BY <1>1, <3>1, <3>2, Zenon
  <2>2. done' \subseteq Clients
    BY <1>1, <1>2 DEF IInv, TypeOK
  <2>3. down' \subseteq {Sd(t, c) : t \in {1, 7}, c \in Clients}
                            \cup {Message(RESPONSE, j) : j \in Calls}
    BY <1>1, <1>2 DEF IInv, TypeOK
  <2> QED BY <1>1, <2>1, <2>2, <2>3 DEF IInv, TypeOK, clients
<1>4. DownIsDone'
  <2>1. /\ \A c \in Clients : Sd(SdTypes.ack, c) # Message(RESPONSE, k)
        /\ \A j \in Calls : Message(RESPONSE, j) = Message(RESPONSE, k) => j = k
    BY SdFields, MessageFields
  <2>2. \A c \in Clients : Sd(SdTypes.ack, c) \in down' => phase'[c] # "looking"
    BY <1>1, <2>1 DEF IInv, DownIsDone, clients
  <2>3. done \subseteq done' /\ (call[k.client] = k => k.client \in done')
    BY <1>1
  <2>4. call' = call /\ made' = made
    BY <1>1 DEF clients
  <2>5. ASSUME NEW j \in Calls, Message(RESPONSE, j) \in down'
        PROVE  j \in made' /\ (call'[j.client] = j => j.client \in done')
    <3>1. CASE j = k
      BY <1>1, <2>3, <2>4, <3>1
    <3>2. CASE Message(RESPONSE, j) \in down
      BY <2>3, <2>4, <3>2 DEF IInv, DownIsDone
    <3> QED BY <1>1, <2>1, <2>5, <3>1, <3>2
  <2> QED BY <2>2, <2>5 DEF DownIsDone
<1> QED BY <1>1, <1>3, <1>4 DEF IInv, Waits, UpIsAsked, clients

-----------------------------------------------------------------------------
(* The clients.                                                            *)

LEMMA SendIInv ==
    ASSUME IInv, NEW c \in Clients, Send(c)
    PROVE  IInv'
<1>1. up' = up \cup {Asks(c)} /\ UNCHANGED <<service, clients, down>> /\ phase[c] # "ready"
  BY DEF Send
<1>2. phase[c] \in {"looking", "subscribing", "calling"}
  BY <1>1 DEF IInv, TypeOK
<1>3. CASE phase[c] = "looking"
  <2>1. Asks(c) = Sd(SdTypes.find, c)
    BY <1>3 DEF Asks
  <2>2. Asks(c) \in {Sd(t, d) : t \in {0, 6}, d \in Clients}
    BY <2>1 DEF SdTypes
  <2>3. /\ \A d \in Clients : Sd(SdTypes.subscribe, d) # Asks(c)
        /\ \A k \in Calls : Message(REQUEST, k) # Asks(c)
    <3>1. SdTypes.find # SdTypes.subscribe
      BY DEF SdTypes
    <3> QED BY <2>1, <3>1, SdFields, MessageFields
  <2>4. TypeOK'
    BY <1>1, <2>2 DEF IInv, TypeOK, service, clients
  <2>5. UpIsAsked'
    BY <1>1, <2>3 DEF IInv, UpIsAsked, service, clients
  <2> QED BY <1>1, <2>4, <2>5 DEF IInv, Waits, DownIsDone, service, clients
<1>4. CASE phase[c] = "subscribing"
  <2>1. Asks(c) = Sd(SdTypes.subscribe, c)
    BY <1>4 DEF Asks
  <2>2. Asks(c) \in {Sd(t, d) : t \in {0, 6}, d \in Clients}
    BY <2>1 DEF SdTypes
  <2>3. /\ \A d \in Clients : Sd(SdTypes.subscribe, d) = Asks(c) => d = c
        /\ \A k \in Calls : Message(REQUEST, k) # Asks(c)
    BY <2>1, SdFields, MessageFields
  <2>4. TypeOK'
    BY <1>1, <2>2 DEF IInv, TypeOK, service, clients
  <2>5. UpIsAsked'
    BY <1>1, <1>4, <2>3 DEF IInv, UpIsAsked, service, clients
  <2> QED BY <1>1, <2>4, <2>5 DEF IInv, Waits, DownIsDone, service, clients
<1>5. CASE phase[c] = "calling"
  <2>1. Asks(c) = Message(REQUEST, call[c])
    BY <1>5 DEF Asks
  <2>2. call[c] \in Calls /\ call[c] \in made
    BY <1>5 DEF IInv, TypeOK, Waits
  <2>3. /\ \A d \in Clients : Sd(SdTypes.subscribe, d) # Asks(c)
        /\ \A k \in Calls : Message(REQUEST, k) = Asks(c) => k = call[c]
    BY <2>1, SdFields, MessageFields
  <2>4. TypeOK'
    BY <1>1, <2>1, <2>2 DEF IInv, TypeOK, service, clients
  <2>5. UpIsAsked'
    BY <1>1, <2>2, <2>3 DEF IInv, UpIsAsked, service, clients
  <2> QED BY <1>1, <2>4, <2>5 DEF IInv, Waits, DownIsDone, service, clients
<1> QED BY <1>2, <1>3, <1>4, <1>5

\* A new call is not among those already answered.
LEMMA CallIInv ==
    ASSUME IInv, NEW k \in Calls, Call(k)
    PROVE  IInv'
<1> DEFINE c == k.client
<1>1. c \in Clients /\ k # None
  BY CallFields
<1>2. /\ phase' = [phase EXCEPT ![c] = "calling"]
      /\ call' = [call EXCEPT ![c] = k]
      /\ made' = made \cup {k}
      /\ done' = done \ {c}
      /\ k \notin made
      /\ phase[c] = "ready"
      /\ UNCHANGED <<lit, g_ExteriorLightControlCount, up, down>>
  BY DEF Call
<1> HIDE DEF c
<1>3. TypeOK'
  BY <1>1, <1>2 DEF IInv, TypeOK
<1>4. Waits'
  <2>1. c = k.client
    BY DEF c
  <2> QED BY <1>1, <1>2, <2>1 DEF IInv, TypeOK, Waits
<1>5. UpIsAsked'
  BY <1>1, <1>2 DEF IInv, TypeOK, UpIsAsked
<1>6. DownIsDone'
  <2>1. \A d \in Clients : Sd(SdTypes.ack, d) \in down' => phase'[d] # "looking"
    BY <1>1, <1>2 DEF IInv, TypeOK, DownIsDone
  <2>2. ASSUME NEW j \in Calls, Message(RESPONSE, j) \in down'
        PROVE  j \in made' /\ (call'[j.client] = j => j.client \in done')
    <3>1. j \in made /\ (call[j.client] = j => j.client \in done) /\ j # k
      BY <1>2, <2>2 DEF IInv, DownIsDone
    <3>2. j.client \in Clients
      BY CallFields
    <3> QED BY <1>1, <1>2, <3>1, <3>2 DEF IInv, TypeOK
  <2> QED BY <2>1, <2>2 DEF DownIsDone
<1> QED BY <1>3, <1>4, <1>5, <1>6 DEF IInv

LEMMA ReceiveIInv ==
    ASSUME IInv, NEW c \in Clients, Receive(c)
    PROVE  IInv'
<1>1. /\ phase' = [phase EXCEPT ![c] = IF @ = "looking" THEN "subscribing" ELSE "ready"]
      /\ call' = [call EXCEPT ![c] = None]
      /\ down' \subseteq down
      /\ UNCHANGED <<service, made, up>>
  BY DEF Receive
<1>2. TypeOK'
  BY <1>1 DEF IInv, TypeOK, service
<1>3. \A d \in Clients : phase'[d] = "looking" => phase[d] = "looking"
  BY <1>1 DEF IInv, TypeOK
<1>4. Waits'
  BY <1>1 DEF IInv, TypeOK, Waits
<1>5. UpIsAsked'
  BY <1>1, <1>3 DEF IInv, UpIsAsked
<1>6. DownIsDone'
  <2>1. ASSUME NEW k \in Calls, call'[k.client] = k
        PROVE  call[k.client] = k
    BY <1>1, <2>1, CallFields DEF IInv, TypeOK
  <2> QED BY <1>1, <1>3, <2>1 DEF IInv, DownIsDone, service
<1> QED BY <1>2, <1>4, <1>5, <1>6 DEF IInv

-----------------------------------------------------------------------------
\* Every datagram the callbacks get is under way or another's.
LEMMA NextIInv == IInv /\ [Next]_vars => IInv'
<1> SUFFICES ASSUME IInv, [Next]_vars PROVE IInv'
  OBVIOUS
<1>1. ASSUME NEW m \in up \cup Strays, NEW sent \in BOOLEAN, SOMEIPSD_Recv_Callback(m, sent)
      PROVE  IInv'
  <2>1. CASE m \in up
    BY <1>1, <2>1, SdIInv
  <2>2. CASE m \in Strays
    BY <1>1, <2>2, StraySd, LeavesIInv
  <2> QED BY <2>1, <2>2
<1>2. ASSUME NEW m \in up \cup Strays, NEW sent \in BOOLEAN, SOMEIP_Callback(m, sent)
      PROVE  IInv'
  <2>1. CASE m \in up
    BY <1>2, <2>1, CallbackIInv
  <2>2. CASE m \in Strays
    BY <1>2, <2>2, StrayMessage, LeavesIInv
  <2> QED BY <2>1, <2>2
<1>3. CASE Lose
  BY <1>3, LeavesIInv DEF Lose
<1>4. CASE UNCHANGED vars
  BY <1>4, LeavesIInv DEF vars, service, clients
<1> QED BY <1>1, <1>2, <1>3, <1>4, SendIInv, CallIInv, ReceiveIInv DEF Next

LEMMA Invariance == Spec => []IInv
  BY InitIInv, NextIInv, PTL DEF Spec

\* Types; in particular the count of calls wraps with its width.
THEOREM TypeCorrect == Spec => []TypeOK
<1>1. IInv => TypeOK
  BY DEF IInv
<1> QED BY <1>1, Invariance, PTL

\* No answer is on its way to a client that has not asked for it, whatever
\* others send to the service's ports.
THEOREM AnswersAreAskedHolds == Spec => []AnswersAreAsked
<1>1. IInv => AnswersAreAsked
  <2> SUFFICES ASSUME IInv, NEW m \in down
               PROVE  IF m.port = "sd" THEN m.type = SdTypes.ack => phase[m.client] # "looking"
                      ELSE m.call \in made
    BY DEF AnswersAreAsked
  <2>1. ASSUME NEW c \in Clients, m = Sd(SdTypes.offer, c) \/ m = Sd(SdTypes.ack, c)
        PROVE  m.port = "sd" /\ (m.type = SdTypes.ack => phase[m.client] # "looking")
    <3>1. SdTypes.offer # SdTypes.ack
      BY DEF SdTypes
    <3> QED BY <2>1, <3>1, SdFields DEF IInv, DownIsDone
  <2>2. ASSUME NEW k \in Calls, m = Message(RESPONSE, k)
        PROVE  m.port # "sd" /\ m.call \in made
    BY <2>2, MessageFields DEF IInv, DownIsDone
  <2> QED BY <2>1, <2>2, DownCases DEF IInv
<1> QED BY <1>1, Invariance, PTL

-----------------------------------------------------------------------------
(* The service implements LightService: a call of SOMEIP_Callback carries  *)
(* a call out, a client that gets a response has been answered, and no     *)
(* other step is seen there.  The pin takes the value's lowest bit, which  *)
(* is what was asked for values that are even or 1.                        *)

OneIsTheOnlyOddValue == \A k \in Calls : k.value % 2 = 1 => k.value = 1

LEMMA UnseenSteps ==
    ASSUME UNCHANGED <<lit, call, made, done>>
    PROVE  [Lights!Next]_Lights!vars
  BY DEF Lights!vars

LEMMA CallbackCarriesOut ==
    ASSUME OneIsTheOnlyOddValue, IInv, NEW m \in up \cup Strays, NEW sent \in BOOLEAN, SOMEIP_Callback(m, sent)
    PROVE  [Lights!Next]_Lights!vars
<1>1. CASE m \in up
  <2>1. PICK k \in made :
            /\ lit' = [lit EXCEPT ![k.method] = (k.value % 2 = 1)]
            /\ done' = IF call[k.client] = k THEN done \cup {k.client} ELSE done
            /\ UNCHANGED clients
    BY <1>1, CallbackDoes
  <2>2. k \in Calls
    BY DEF IInv, TypeOK
  <2>3. (k.value % 2 = 1) <=> (k.value = 1)
    BY <2>2 DEF OneIsTheOnlyOddValue
  <2>4. Lights!CarryOut(k)
    BY <2>1, <2>3 DEF Lights!CarryOut, clients
  <2> QED BY <2>4, <2>2 DEF Lights!Next
<1>2. CASE m \in Strays
  BY <1>2, StrayMessage, UnseenSteps DEF service, clients
<1> QED BY <1>1, <1>2

LEMMA CallAsks ==
    ASSUME IInv, NEW k \in Calls, Call(k)
    PROVE  Lights!Next
<1>1. call[k.client] = None
  BY CallFields DEF Call, IInv, Waits
<1>2. Lights!Ask(k)
  BY <1>1 DEF Call, Lights!Ask
<1> QED BY <1>2 DEF Lights!Next

LEMMA ReceiveAnswers ==
    ASSUME IInv, NEW c \in Clients, Receive(c)
    PROVE  [Lights!Next]_Lights!vars
<1>1. /\ call' = [call EXCEPT ![c] = None]
      /\ UNCHANGED <<lit, made, done>>
  BY DEF Receive, service
<1>2. CASE phase[c] = "calling"
  <2>1. call[c] \in Calls /\ call[c].client = c
    BY <1>2 DEF IInv, TypeOK, Waits
  <2>2. Message(RESPONSE, call[c]) \in down
    BY <1>2 DEF Receive, Awaited
  <2>3. Lights!Answered(call[c])
    BY <1>1, <2>1, <2>2 DEF IInv, DownIsDone, Lights!Answered
  <2> QED BY <2>1, <2>3 DEF Lights!Next
<1>3. CASE phase[c] # "calling"
  <2>1. call[c] = None /\ call \in [Clients -> Calls \cup {None}]
    BY <1>3 DEF IInv, TypeOK, Waits
  <2>2. call' = call
    BY <1>1, <2>1
  <2> QED BY <1>1, <2>2, UnseenSteps
<1> QED BY <1>2, <1>3

\* A response is given only for what was done after it was asked, and nothing
\* but a call switches a light, whatever is lost, repeated or late, for clients
\* that send no odd value but 1.
THEOREM RefinesLightService ==
    ASSUME OneIsTheOnlyOddValue
    PROVE  Spec => ImplementsLightService
<1>1. Init => Lights!Init
  BY DEF Init, Lights!Init
<1>2. ASSUME IInv, [Next]_vars PROVE [Lights!Next]_Lights!vars
  <2>1. CASE UNCHANGED vars
    BY <2>1, UnseenSteps DEF vars
  <2>2. ASSUME NEW m \in up \cup Strays, NEW sent \in BOOLEAN, SOMEIPSD_Recv_Callback(m, sent)
        PROVE  [Lights!Next]_Lights!vars
    BY <2>2, UnseenSteps DEF SOMEIPSD_Recv_Callback, service, clients
  <2>3. ASSUME NEW c \in Clients, Send(c) PROVE [Lights!Next]_Lights!vars
    BY <2>3, UnseenSteps DEF Send, service, clients
  <2>4. CASE Lose
    BY <2>4, UnseenSteps DEF Lose, service, clients
  <2> QED BY <1>2, <2>1, <2>2, <2>3, <2>4, CallbackCarriesOut, CallAsks, ReceiveAnswers DEF Next
<1> QED BY <1>1, <1>2, Invariance, PTL DEF Spec, Lights!Spec, ImplementsLightService
=============================================================================
