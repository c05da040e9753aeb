-------------------------------- MODULE Uart --------------------------------
(***************************************************************************)
(* The serial console: Asclin0_OutUart (BSW/Driver/asclin.c), called for   *)
(* every character of my_printf by the main loop (the servers' messages)   *)
(* and by interrupt handlers (Can_RxIsrHandler, SCUERU_Int0_Handler).  A   *)
(* handler runs to its end before the main loop goes on.                   *)
(*                                                                         *)
(* TFL is an event flag: the hardware sets it when the transmit FIFO runs  *)
(* empty (INTLEVEL is 0) and never because the FIFO is empty.              *)
(***************************************************************************)
EXTENDS Integers

CONSTANTS
    Printers,       \* who calls my_printf: a subset of {"main", "isr"}
    MaxChars,       \* bound: characters of one my_printf
    FifoSize        \* places of the transmit FIFO

ASSUME PrintersAssumption == Printers \subseteq {"main", "isr"}
ASSUME BoundsAssumption == MaxChars \in Nat \ {0} /\ FifoSize \in Nat /\ FifoSize >= 3

VARIABLES
    fifo,           \* characters in the transmit FIFO
    shifting,       \* is the shift register sending one?
    TFL,            \* FLAGS.TFL
    pc,             \* pc[t]: where in Asclin0_OutUart t is
    left,           \* left[t]: characters t has yet to write
    overrun         \* has a character been written to a full FIFO?

vars == <<fifo, shifting, TFL, pc, left, overrun>>

Threads == {"main", "isr"}

TypeOK ==
    /\ fifo \in 0 .. FifoSize
    /\ {shifting, TFL, overrun} \subseteq BOOLEAN
    /\ pc \in [Threads -> {"idle", "wait", "clear", "write"}]
    /\ left \in [Threads -> 0 .. MaxChars]

\* Mutant of Init: the flag is not set by hand.
InitNoTFLS ==
    /\ fifo = 0
    /\ TFL = FALSE
    /\ shifting = FALSE
    /\ overrun = FALSE
    /\ pc = [t \in Threads |-> "idle"]
    /\ left = [t \in Threads |-> 0]

\* After Asclin0_InitUart, which sets TFL with FLAGSSET.
Init ==
    /\ fifo = 0
    /\ TFL = TRUE
    /\ shifting = FALSE
    /\ overrun = FALSE
    /\ pc = [t \in Threads |-> "idle"]
    /\ left = [t \in Threads |-> 0]

\* The main loop stands still while a handler runs.
Runs(t) == t = "main" => pc["isr"] = "idle"

At(t, label) == Runs(t) /\ pc[t] = label
Goto(t, label) == pc' = [pc EXCEPT ![t] = label]

\* my_printf begins; the handler may do so between any two steps of main.
my_printf(t) ==
    /\ t \in Printers
    /\ At(t, "idle")
    /\ \E n \in 1 .. MaxChars : left' = [left EXCEPT ![t] = n]
    /\ Goto(t, "wait")
    /\ UNCHANGED <<fifo, shifting, TFL, overrun>>

\* Mutant of Wait: the flag is not awaited.
WaitNot(t) ==
    /\ At(t, "wait")
    /\ Goto(t, "clear")
    /\ UNCHANGED <<fifo, shifting, TFL, left, overrun>>

\* while (!(FLAGS.TFL != 0));
Wait(t) ==
    /\ At(t, "wait")
    /\ TFL
    /\ Goto(t, "clear")
    /\ UNCHANGED <<fifo, shifting, TFL, left, overrun>>

\* FLAGSCLEAR = TFLC
Clear(t) ==
    /\ At(t, "clear")
    /\ TFL' = FALSE
    /\ Goto(t, "write")
    /\ UNCHANGED <<fifo, shifting, left, overrun>>

\* Mutant of Write: it writes one character more than the line has.
WriteOneMore(t) ==
    /\ At(t, "write")
    /\ fifo' = IF fifo < FifoSize THEN fifo + 1 ELSE fifo
    /\ overrun' = (overrun \/ fifo = FifoSize)
    /\ left' = [left EXCEPT ![t] = @ - 1]
    /\ Goto(t, IF left[t] >= 1 THEN "wait" ELSE "idle")
    /\ UNCHANGED <<shifting, TFL>>

\* TXDATA = chr, and on to the next character of the buffer.
Write(t) ==
    /\ At(t, "write")
    /\ fifo' = IF fifo < FifoSize THEN fifo + 1 ELSE fifo
    /\ overrun' = (overrun \/ fifo = FifoSize)
    /\ left' = [left EXCEPT ![t] = @ - 1]
    /\ Goto(t, IF left[t] > 1 THEN "wait" ELSE "idle")
    /\ UNCHANGED <<shifting, TFL>>

\* The hardware moves a character to the shift register; a FIFO that becomes
\* empty sets the flag.
Move ==
    /\ fifo > 0 /\ ~ shifting
    /\ fifo' = fifo - 1
    /\ shifting' = TRUE
    /\ TFL' = (TFL \/ fifo = 1)
    /\ UNCHANGED <<pc, left, overrun>>

\* The shift register has sent its character.
ShiftedOut ==
    /\ shifting
    /\ shifting' = FALSE
    /\ UNCHANGED <<fifo, TFL, pc, left, overrun>>

Step(t) == Wait(t) \/ Clear(t) \/ Write(t)

Next == Move \/ ShiftedOut \/ \E t \in Threads : my_printf(t) \/ Step(t)

Spec == Init /\ [][Next]_vars

\* The hardware sends and the processor executes.  Nothing says that handlers
\* leave time for the main loop.
Fairness ==
    /\ WF_vars(Move) /\ WF_vars(ShiftedOut)
    /\ \A t \in Threads : WF_vars(Step(t))

FairSpec == Spec /\ Fairness

-----------------------------------------------------------------------------
\* No character is written to a full FIFO, although the main loop may clear
\* and write on the strength of a flag a handler has used in between.
NoOverrun == ~ overrun

\* The handler has interrupted the main loop between Clear and Write and finds
\* the flag cleared and the FIFO empty: it spins for ever.
Caught == pc["main"] = "write" /\ pc["isr"] = "wait" /\ ~ TFL /\ fifo = 0

\* There is no other way to wait for nothing: in any other state a thread that
\* spins on TFL does so while the FIFO holds a character, whose departure ends
\* the wait.
WaitsForSpaceUnlessCaught ==
    \A t \in Threads : At(t, "wait") /\ ~ TFL /\ fifo = 0 => Caught

\* Unless the handler is caught, every my_printf of a handler returns, and every
\* one of the main loop if handlers stop printing at some time, whatever they
\* have made of TFL and the FIFO by then.
PrintReturns ==
    [](~ Caught) =>
        /\ pc["isr"] # "idle" ~> pc["isr"] = "idle"
        /\ <>[](pc["isr"] = "idle") => (pc["main"] # "idle" ~> pc["main"] = "idle")

\* asclin.c:86: the loop is there to `wait until space is available in the
\* FIFO'.
WaitsForSpace == \A t \in Threads : At(t, "wait") /\ ~ TFL => fifo > 0
=============================================================================
