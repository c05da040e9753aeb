-------------------------------- MODULE CanFd --------------------------------
(***************************************************************************)
(* The lengths of CAN FD messages in CanFd_SendMsg and CanFd_RecvMsg       *)
(* (BSW/Driver/canfd.c).  A length code above 8 stands for one of seven    *)
(* lengths, so a message may be sent in a longer frame, whose other bytes  *)
(* are what g_mcmcanFD.txData holds from the messages before.              *)
(***************************************************************************)
EXTENDS Integers

\* The lengths a frame can have.
FrameLengths == 0 .. 8 \cup {12, 16, 20, 24, 32, 48, 64}

\* The length code CanFd_SendMsg chooses for a message of len bytes.
dataLengthCode(len) ==
    IF len > 48 THEN 15
    ELSE IF len > 32 THEN 14
    ELSE IF len > 24 THEN 13
    ELSE IF len > 20 THEN 12
    ELSE IF len > 16 THEN 11
    ELSE IF len > 12 THEN 10
    ELSE IF len > 8 THEN 9
    ELSE len

\* The length CanFd_RecvMsg reports for a length code.
dlc(code) ==
    IF code = 15 THEN 64
    ELSE IF code = 14 THEN 48
    ELSE IF code = 13 THEN 32
    ELSE IF code = 12 THEN 24
    ELSE IF code = 11 THEN 20
    ELSE IF code = 10 THEN 16
    ELSE IF code = 9 THEN 12
    ELSE code

\* txData after a message of len bytes was copied to it.
CopiedTo(txData, message, len) ==
    [i \in DOMAIN txData |-> IF i < len THEN message[i] ELSE txData[i]]

\* What CanFd_RecvMsg returns of a frame sent from txData.
ReceivedFrom(txData, len) == [i \in 0 .. dlc(dataLengthCode(len)) - 1 |-> txData[i]]
=============================================================================
