-------------------------------- MODULE CanRx --------------------------------
(***************************************************************************)
(* Reception of CAN messages: Can_RxIsrHandler and CanFd_RxIsrHandler      *)
(* (BSW/Driver/can.c, canfd.c), each on an RX FIFO 0 in blocking mode.     *)
(* The handler clears the new-message flag and reads ONE message; what it  *)
(* then does with the message keeps the next run of it waiting.            *)
(*                                                                         *)
(* A message that is stored sets the flag.  If the flag was clear this     *)
(* requests the handler; whether it does so again while the flag is set is *)
(* left open.  A request that is pending is not counted.                   *)
(***************************************************************************)
EXTENDS Integers

CONSTANT
    RX_FIFO0_SIZE   \* messages RX FIFO 0 holds: 15 (CAN), 4 (CAN FD)

ASSUME RxFifoAssumption == RX_FIFO0_SIZE \in Nat \ {0}

VARIABLES
    waiting,        \* messages in the FIFO
    newMessage,     \* IR.RF0N
    requested,      \* the pending bit of the handler's service request node
    rx              \* where the handler is

rxVars == <<waiting, newMessage, requested, rx>>

RxTypeOK ==
    /\ waiting \in 0 .. RX_FIFO0_SIZE
    /\ {newMessage, requested} \subseteq BOOLEAN
    /\ rx \in {"idle", "entered", "cleared", "read"}

\* After Can_Init.
RxInit ==
    /\ waiting = 0
    /\ newMessage = FALSE
    /\ requested = FALSE
    /\ rx = "idle"

\* A message arrives and finds room.  Without room it is lost, and not being
\* stored it is no new message: nothing changes.
Store ==
    /\ waiting < RX_FIFO0_SIZE
    /\ waiting' = waiting + 1
    /\ newMessage' = TRUE
    /\ requested' \in {TRUE, requested \/ ~ newMessage}
    /\ UNCHANGED rx

\* Taking the interrupt clears the request.
Enter ==
    /\ requested
    /\ rx = "idle"
    /\ requested' = FALSE
    /\ rx' = "entered"
    /\ UNCHANGED <<waiting, newMessage>>

\* Mutant of ClearFlag: the flag is left set.
ClearFlagNot ==
    /\ rx = "entered"
    /\ rx' = "cleared"
    /\ UNCHANGED <<waiting, newMessage, requested>>

\* IfxCan_Node_clearInterruptFlag
ClearFlag ==
    /\ rx = "entered"
    /\ newMessage' = FALSE
    /\ rx' = "cleared"
    /\ UNCHANGED <<waiting, requested>>

\* Mutant of ReadMessage: one message more is read.
ReadTwoMessages ==
    /\ rx = "cleared"
    /\ waiting' = waiting - 2
    /\ rx' = "read"
    /\ UNCHANGED <<newMessage, requested>>

\* IfxCan_Can_readMessage takes the oldest message from the FIFO.
ReadMessage ==
    /\ rx = "cleared"
    /\ waiting' = waiting - 1
    /\ rx' = "read"
    /\ UNCHANGED <<newMessage, requested>>

\* The message has been dealt with.
Return ==
    /\ rx = "read"
    /\ rx' = "idle"
    /\ UNCHANGED <<waiting, newMessage, requested>>

RxNext == Store \/ Enter \/ ClearFlag \/ ReadMessage \/ Return

RxSpec == RxInit /\ [][RxNext]_rxVars

-----------------------------------------------------------------------------
\* Runs of the handler that are due, each for one message.
Due ==
    (IF requested THEN 1 ELSE 0) + (IF rx \in {"entered", "cleared"} THEN 1 ELSE 0)

\* Messages in the FIFO that no run of the handler is due for.
Backlog == waiting - Due

\* No run of the handler finds the FIFO empty, however its requests, the flag
\* and the reads interleave with arrivals: there is a message for each of them.
ReadFindsMessage == Backlog >= 0

\* The flag is never left set without a run of the handler to come that clears
\* it, so no message can arrive without one.
FlagIsAnnounced == newMessage => requested \/ rx = "entered"

\* Messages that arrived together stay behind, for the handler reads one for
\* each request.  When nothing but such messages is in the FIFO, every message
\* to come is lost, and none is announced.
Deaf == Backlog = RX_FIFO0_SIZE
=============================================================================
