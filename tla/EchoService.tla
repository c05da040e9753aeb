----------------------------- MODULE EchoService -----------------------------
(***************************************************************************)
(* What the echo server promises each of its peers: every byte it receives *)
(* goes back, once and in order.  Bytes that are pending when the peer     *)
(* closes are lost only if memory ran short when they were last tried, and *)
(* no byte is lost before the connection ends.                             *)
(***************************************************************************)
EXTENDS Naturals, SequencesExt

CONSTANTS
    Conns,          \* the connections
    Bytes           \* what a byte can be

VARIABLES
    open,           \* the connections the server talks to
    pending,        \* pending[c]: bytes received and not yet handed to TCP
    sending,        \* sending[c]: bytes TCP has yet to get acknowledged
    short           \* the connections with pending bytes memory ran short for

vars == <<open, pending, sending, short>>

Init ==
    /\ open = {}
    /\ pending = [c \in Conns |-> <<>>]
    /\ sending = [c \in Conns |-> <<>>]
    /\ short = {}

Only(f, c) == \A d \in Conns \ {c} : f'[d] = f[d]

Open(c) ==
    /\ c \notin open
    /\ sending[c] = <<>>
    /\ open' = open \cup {c}
    /\ UNCHANGED <<pending, sending, short>>

Receive(c) ==
    /\ c \in open
    /\ IsStrictPrefix(pending[c], pending'[c])
    /\ Range(pending'[c]) \subseteq Bytes
    /\ Only(pending, c)
    /\ UNCHANGED <<open, sending, short>>

Echo(c) ==
    /\ \E n \in 1 .. Len(pending[c]) :
           /\ sending' = [sending EXCEPT ![c] = @ \o SubSeq(pending[c], 1, n)]
           /\ pending' = [pending EXCEPT ![c] = SubSeq(@, n + 1, Len(@))]
    /\ short' = short \ {c}
    /\ UNCHANGED open

RunShort(c) ==
    /\ pending[c] # <<>>
    /\ short' = short \cup {c}
    /\ UNCHANGED <<open, pending, sending>>

Acknowledged(c) ==
    /\ sending[c] # <<>>
    /\ IsSuffix(sending'[c], sending[c])
    /\ Only(sending, c)
    /\ UNCHANGED <<open, pending, short>>

\* The peer has closed its side, and the server closes its own.
Finish(c) ==
    /\ c \in open
    /\ pending[c] # <<>> => c \in short
    /\ open' = open \ {c}
    /\ pending' = [pending EXCEPT ![c] = <<>>]
    /\ short' = short \ {c}
    /\ UNCHANGED sending

\* The connection dies.
Break(c) ==
    /\ open' = open \ {c}
    /\ pending' = [pending EXCEPT ![c] = <<>>]
    /\ sending' = [sending EXCEPT ![c] = <<>>]
    /\ short' = short \ {c}

Next ==
    \E c \in Conns :
        \/ Open(c) \/ Receive(c) \/ Echo(c) \/ RunShort(c)
        \/ Acknowledged(c) \/ Finish(c) \/ Break(c)

Spec == Init /\ [][Next]_vars
=============================================================================
