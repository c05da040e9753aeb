------------------------------ MODULE MCSomeIp ------------------------------
(* c1, at the service's port, switches the exterior light on and, with the   *)
(* value 2, off; c2, at another port, switches the interior light on and is  *)
(* never answered.  COUNT_WRAP = 2 lets the count wrap with the second call. *)
(* Others' datagrams: an offer, the answer of another server, a call of an   *)
(* unknown service and of an unknown method.                                 *)
EXTENDS SomeIp

CONSTANTS c1, c2

AllClients == {c1, c2}

K(c, id, method, value) == [client |-> c, id |-> id, method |-> method, value |-> value]

AllCalls == {K(c1, 1, Exterior, 1), K(c1, 2, Exterior, 2), K(c2, 1, Interior, 1)}

\* A value whose lowest bit is set, but not 1.
OddCalls == {K(c1, 1, Exterior, 3)}

AllStrays ==
    LET other == K(c1, 3, Interior, 1)
    IN  {Sd(SdTypes.offer, c2),
         Message(RESPONSE, other),
         [Message(REQUEST, other) EXCEPT !.service = 512],
         [Message(REQUEST, other) EXCEPT !.method = 259]}
=============================================================================
