---------------------------- MODULE LightService ----------------------------
(***************************************************************************)
(* What the welcome-light service promises: a client that gets a response  *)
(* to its call knows that its light was switched as it asked, after it     *)
(* asked.  A call is carried out at least once, and possibly again, also   *)
(* after its response; nothing but a call ever switches a light.           *)
(***************************************************************************)
EXTENDS Integers

CONSTANTS
    Clients,        \* who calls
    Methods,        \* what they can call: one method for each light
    Calls,          \* the calls: records with a client, an id, a method and a value
    None            \* no call

VARIABLES
    lit,            \* lit[m]: is the light that method m controls on?
    call,           \* call[c]: the call c waits for, or None
    made,           \* the calls ever made
    done            \* the clients whose call has been carried out since they made it

vars == <<lit, call, made, done>>

Init ==
    /\ lit = [m \in Methods |-> FALSE]
    /\ call = [c \in Clients |-> None]
    /\ made = {}
    /\ done = {}

Ask(k) ==
    /\ k \notin made
    /\ call[k.client] = None
    /\ call' = [call EXCEPT ![k.client] = k]
    /\ made' = made \cup {k}
    /\ done' = done \ {k.client}
    /\ UNCHANGED lit

\* someip.c:65 and 72: the light is on if the value is 1, and off otherwise.
CarryOut(k) ==
    /\ k \in made
    /\ lit' = [lit EXCEPT ![k.method] = (k.value = 1)]
    /\ done' = IF call[k.client] = k THEN done \cup {k.client} ELSE done
    /\ UNCHANGED <<call, made>>

Answered(k) ==
    /\ call[k.client] = k
    /\ k.client \in done
    /\ call' = [call EXCEPT ![k.client] = None]
    /\ UNCHANGED <<lit, made, done>>

Next == \E k \in Calls : Ask(k) \/ CarryOut(k) \/ Answered(k)

Spec == Init /\ [][Next]_vars
=============================================================================
