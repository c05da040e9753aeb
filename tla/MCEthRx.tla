------------------------------ MODULE MCEthRx ------------------------------
(* Three descriptors wrap around soon; frames of different kinds tell order *)
(* and duplicates apart; two pbufs run out while frames wait, and a long    *)
(* frame needs both of them.                                                *)
EXTENDS EthRx

MCFrames == {"short", "long", "unknown"}
MCNeed == [short |-> 1, long |-> 2, unknown |-> 1]
=============================================================================
