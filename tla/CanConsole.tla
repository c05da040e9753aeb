----------------------------- MODULE CanConsole -----------------------------
(***************************************************************************)
(* The CAN receive handler prints what it reads (can.c: "CAN Rx: ", the    *)
(* bytes, a newline) on the serial console, where the main loop prints     *)
(* too: CanRx and Uart composed.  The console is what keeps the handler    *)
(* from its next message, and the handler is what uses the console between *)
(* two steps of the main loop.                                             *)
(***************************************************************************)
EXTENDS Uart, CanRx

CONSTANT MaxLen     \* bytes of a message: 8

ASSUME MaxLenAssumption == MaxLen \in Nat

VARIABLE prints     \* calls of my_printf the handler has yet to make

consoleVars == <<vars, rxVars, prints>>

ConsoleInit == Init /\ RxInit /\ prints = 0

\* The main loop stands still while the handler runs.
MainPrints ==
    /\ rx = "idle"
    /\ my_printf("main") \/ Step("main")
    /\ UNCHANGED <<rxVars, prints>>

Transmitter == (Move \/ ShiftedOut) /\ UNCHANGED <<rxVars, prints>>

Arrival == Store /\ UNCHANGED <<vars, prints>>

\* Can_RecvMsg at the head of the handler.
HandlerReceives ==
    \/ (Enter \/ ClearFlag) /\ UNCHANGED <<vars, prints>>
    \/ ReadMessage /\ (\E len \in 0 .. MaxLen : prints' = len + 2) /\ UNCHANGED vars

\* The handler's calls of my_printf, one after the other.
HandlerPrints ==
    /\ rx = "read"
    /\ \/ prints > 0 /\ my_printf("isr") /\ prints' = prints - 1
       \/ Step("isr") /\ UNCHANGED prints
    /\ UNCHANGED rxVars

HandlerReturns ==
    /\ prints = 0
    /\ At("isr", "idle")
    /\ Return
    /\ UNCHANGED <<vars, prints>>

Handler == HandlerReceives \/ HandlerPrints \/ HandlerReturns

ConsoleNext == MainPrints \/ Transmitter \/ Arrival \/ Handler

ConsoleSpec == ConsoleInit /\ [][ConsoleNext]_consoleVars

\* The hardware sends, requests are taken, the handler executes, and so does
\* the main loop whenever the handler lets it.
ConsoleFairness ==
    /\ WF_consoleVars(Move /\ UNCHANGED <<rxVars, prints>>)
    /\ WF_consoleVars(ShiftedOut /\ UNCHANGED <<rxVars, prints>>)
    /\ WF_consoleVars(Handler)
    /\ WF_consoleVars(rx = "idle" /\ Step("main") /\ UNCHANGED <<rxVars, prints>>)

FairConsoleSpec == ConsoleSpec /\ ConsoleFairness

-----------------------------------------------------------------------------
\* A message that is announced is read, and the handler returns from printing
\* it, unless it is caught between the main loop's clear and write.
AnnouncedIsRead ==
    [](~ Caught) => /\ requested ~> rx = "cleared"
                    /\ rx = "cleared" ~> rx = "idle"

\* However long the handler prints and however many messages arrive meanwhile,
\* there will be room for a message again, unless the FIFO holds nothing but
\* backlog.
RoomUnlessDeaf ==
    [](~ Caught) => (waiting = RX_FIFO0_SIZE ~> waiting < RX_FIFO0_SIZE \/ Deaf)
=============================================================================
