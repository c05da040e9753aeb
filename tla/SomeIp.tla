------------------------------- MODULE SomeIp -------------------------------
(***************************************************************************)
(* The SOME/IP welcome-light service and its service discovery             *)
(* (examples/someip.c): two UDP callbacks without any state but the lights *)
(* and a counter.  The clients look for the service, subscribe and call;   *)
(* they repeat whatever has not been answered, so a request may come       *)
(* twice, and long after its answer.  The network loses, delays and        *)
(* reorders datagrams, and carries those of others.                        *)
(*                                                                         *)
(* A datagram is what the callbacks look at.  Ones that are too short to   *)
(* have it are left out: the callbacks do not look at the length.          *)
(***************************************************************************)
EXTENDS Integers

CONSTANTS
    Clients,        \* peers that call the service
    Bound,          \* the clients whose socket is bound to PN_SERVICE_1
    Calls,          \* the calls they may make
    None,           \* no call
    Strays,         \* datagrams of others, which may arrive at any time
    COUNT_WRAP      \* 2^32, where the uint32 counter wraps

CallRecord == [client : Clients, id : Nat, method : {257, 258}, value : 0 .. 255]

ASSUME CallsAssumption == Calls \subseteq CallRecord /\ None \notin Calls
ASSUME ClientsAssumption == Bound \subseteq Clients /\ COUNT_WRAP \in Nat \ {0}

VARIABLES
    lit,            \* lit[m]: the pin of the light that method m controls
    g_ExteriorLightControlCount,
    up,             \* datagrams to the service
    down,           \* datagrams to the clients
    phase,          \* how far a client is
    call,           \* call[c]: the call c waits for, or None
    made,           \* calls made so far
    done            \* the clients whose call has been carried out

vars == <<lit, g_ExteriorLightControlCount, up, down, phase, call, made, done>>

Interior == 257     \* method 0x0101, LED 1
Exterior == 258     \* method 0x0102, LED 2
Methods == {Interior, Exterior}

SdTypes == [find |-> 0, offer |-> 1, subscribe |-> 6, ack |-> 7]
ServiceId == 256    \* 0x0100
REQUEST == 0
RESPONSE == 128     \* 0x80

\* Datagrams of service discovery, and calls and responses.
Sd(type, c) == [port |-> "sd", type |-> type, client |-> c]
Message(type, k) ==
    [port |-> "service", service |-> ServiceId, type |-> type, client |-> k.client,
     method |-> k.method, call |-> k]

\* Others neither look for the service nor call it.
ASSUME StraysAssumption ==
    \A m \in Strays :
        /\ m.port = "sd" => m.type \notin {SdTypes.find, SdTypes.subscribe}
        /\ m.port = "service" =>
               m.service # ServiceId \/ m.type # REQUEST \/ m.method \notin Methods

TypeOK ==
    /\ lit \in [Methods -> BOOLEAN]
    /\ g_ExteriorLightControlCount \in 0 .. COUNT_WRAP - 1
    /\ up \subseteq {Sd(t, c) : t \in {0, 6}, c \in Clients}
                        \cup {Message(REQUEST, k) : k \in Calls}
    /\ down \subseteq {Sd(t, c) : t \in {1, 7}, c \in Clients}
                        \cup {Message(RESPONSE, k) : k \in Calls}
    /\ phase \in [Clients -> {"looking", "subscribing", "ready", "calling"}]
    /\ call \in [Clients -> Calls \cup {None}]
    /\ made \subseteq Calls
    /\ done \subseteq Clients

\* After SOMEIPSD_Init, SOMEIP_Init and GPIO_Init, which turns the LEDs off.
Init ==
    /\ lit = [m \in Methods |-> FALSE]
    /\ g_ExteriorLightControlCount = 0
    /\ up = {}
    /\ down = {}
    /\ phase = [c \in Clients |-> "looking"]
    /\ call = [c \in Clients |-> None]
    /\ made = {}
    /\ done = {}

service == <<lit, g_ExteriorLightControlCount, done>>
clients == <<phase, call, made>>

-----------------------------------------------------------------------------
(* The service.                                                            *)

Delivered(m) == up' = up \ {m}

\* Unless the answer is sent, pbuf_alloc finds no memory or udp_sendto fails.
Answer(m, sent) == down' = IF sent THEN down \cup {m} ELSE down

\* Mutants of SdAnswer: every entry is acknowledged that is not a find, or the
\* offer answers no find.
SdAnswerAny(type) == IF type = SdTypes.find THEN SdTypes.offer ELSE SdTypes.ack
SdAnswerSwapped(type) == IF type = SdTypes.subscribe THEN SdTypes.offer ELSE SdTypes.ack

\* What a service discovery entry is answered with; the type itself: with nothing.
SdAnswer(type) ==
    IF type = SdTypes.find THEN SdTypes.offer
    ELSE IF type = SdTypes.subscribe THEN SdTypes.ack
    ELSE type

SOMEIPSD_Recv_Callback(m, sent) ==
    /\ m.port = "sd"
    /\ Delivered(m)
    /\ IF SdAnswer(m.type) # m.type THEN Answer(Sd(SdAnswer(m.type), m.client), sent)
       ELSE UNCHANGED down
    /\ UNCHANGED <<service, clients>>

\* Mutants of IsRequest: the message type is not looked at.
IsRequestOrAnswer(m) == m.service = ServiceId /\ m.method \in Methods

IsRequest(m) == m.service = ServiceId /\ m.type = REQUEST /\ m.method \in Methods

\* Mutant of Control: a light is only ever switched on.
ControlOn(k) ==
    /\ lit' = [lit EXCEPT ![k.method] = @ \/ k.value % 2 = 1]
    /\ g_ExteriorLightControlCount' = g_ExteriorLightControlCount

\* SrvWelcomeLightInteriorControl and SrvWelcomeLightExteriorControl: the value
\* is assigned to a port bit, which takes its lowest bit.
Control(k) ==
    /\ lit' = [lit EXCEPT ![k.method] = (k.value % 2 = 1)]
    /\ g_ExteriorLightControlCount' =
           IF k.method = Exterior THEN (g_ExteriorLightControlCount + 1) % COUNT_WRAP
           ELSE g_ExteriorLightControlCount

\* Mutant of Response: the datagram goes back as it came.
ResponseNot(m) == m

\* The request goes back with another message type.
Response(m) == [m EXCEPT !.type = RESPONSE]

\* The light is switched before there is memory for the response, which goes to
\* PN_SERVICE_1 of the client, whatever port the request came from.
SOMEIP_Callback(m, sent) ==
    /\ m.port = "service"
    /\ Delivered(m)
    /\ IF IsRequest(m)
       THEN /\ Control(m.call)
            /\ done' = {c \in Clients : c \in done \/ call[c] = m.call}
            /\ Answer(Response(m), sent)
       ELSE UNCHANGED <<service, down>>
    /\ UNCHANGED clients

-----------------------------------------------------------------------------
(* The clients and the network.                                            *)

\* What a client repeats until it is answered.
Asks(c) ==
    IF phase[c] = "looking" THEN Sd(SdTypes.find, c)
    ELSE IF phase[c] = "subscribing" THEN Sd(SdTypes.subscribe, c)
    ELSE Message(REQUEST, call[c])

Send(c) ==
    /\ phase[c] # "ready"
    /\ up' = up \cup {Asks(c)}
    /\ UNCHANGED <<service, clients, down>>

\* A client makes its calls in the order of their ids, each of them once.
Call(k) ==
    LET c == k.client
    IN  /\ phase[c] = "ready"
        /\ k \notin made
        /\ \A j \in Calls : j.client = c /\ j.id < k.id => j \in made
        /\ phase' = [phase EXCEPT ![c] = "calling"]
        /\ call' = [call EXCEPT ![c] = k]
        /\ made' = made \cup {k}
        /\ done' = done \ {c}
        /\ UNCHANGED <<lit, g_ExteriorLightControlCount, up, down>>

\* The answer client c waits for.
Awaited(c) ==
    IF phase[c] = "looking" THEN Sd(SdTypes.offer, c)
    ELSE IF phase[c] = "subscribing" THEN Sd(SdTypes.ack, c)
    ELSE Message(RESPONSE, call[c])

\* Other answers it has not yet looked at are of no use to a client then.
Receive(c) ==
    /\ phase[c] # "ready"
    /\ phase[c] = "calling" => c \in Bound
    /\ Awaited(c) \in down
    /\ down' = {m \in down : m.client # c}
    /\ phase' = [phase EXCEPT ![c] = IF @ = "looking" THEN "subscribing" ELSE "ready"]
    /\ call' = [call EXCEPT ![c] = None]
    /\ UNCHANGED <<service, made, up>>

Lose ==
    /\ \/ (\E m \in up : up' = up \ {m}) /\ UNCHANGED down
       \/ (\E m \in down : down' = down \ {m}) /\ UNCHANGED up
    /\ UNCHANGED <<service, clients>>

Next ==
    \/ \E m \in up \cup Strays, sent \in BOOLEAN :
           SOMEIPSD_Recv_Callback(m, sent) \/ SOMEIP_Callback(m, sent)
    \/ \E c \in Clients : Send(c) \/ Receive(c)
    \/ \E k \in Calls : Call(k)
    \/ Lose

Spec == Init /\ [][Next]_vars

\* What client c asks arrives, and memory for the answer is found.
Answered(c) ==
    /\ phase[c] # "ready"
    /\ Asks(c) \in up
    /\ SOMEIPSD_Recv_Callback(Asks(c), TRUE) \/ SOMEIP_Callback(Asks(c), TRUE)

\* A client repeats what it asks; of what is sent again and again something
\* arrives, memory for an answer is found, and an answer arrives.
Fairness ==
    \A c \in Clients :
        /\ WF_vars(Send(c))
        /\ SF_vars(Answered(c))
        /\ SF_vars(Receive(c))

FairSpec == Spec /\ Fairness

-----------------------------------------------------------------------------
\* Nobody is answered who has not asked: other servers' offers, acks and
\* responses, which reach the same ports, are not answered in turn.
AnswersAreAsked ==
    \A m \in down :
        IF m.port = "sd" THEN m.type = SdTypes.ack => phase[m.client] # "looking"
        ELSE m.call \in made

Lights == INSTANCE LightService

\* Lost, repeated and reordered requests, and a response there was no memory for
\* after the light had been switched: a response is given only for what was
\* done, and nothing but a request switches a light.  On and off are what the
\* comments say, on for 1 only: true of clients that send no other odd value.
ImplementsLightService == Lights!Spec

\* someip.c:65 and 72, "LED on if LightOnOff=1 otherwise, LED off": a light is
\* on only if a call has asked so with the value 1, whatever is sent.
OnOnlyForOne ==
    \A m \in Methods : lit[m] => \E k \in made : k.method = m /\ k.value = 1

\* A client at the service's port is answered at last.
Served ==
    \A c \in Clients :
        phase[c] # "ready" /\ (phase[c] = "calling" => c \in Bound) ~>
            phase[c] = "ready" \/ (phase[c] = "calling" /\ c \notin Bound)
=============================================================================
