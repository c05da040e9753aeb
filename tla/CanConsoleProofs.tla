-------------------------- MODULE CanConsoleProofs --------------------------
(***************************************************************************)
(* The CAN handler and the serial console, for an RX FIFO 0 of any size,   *)
(* lines and messages of any length and every transmit FIFO of at least    *)
(* three places; and the lengths of CAN FD messages.                       *)
(*                                                                         *)
(* What makes NoOverrun hold is a bound on the FIFO for each pair of       *)
(* places the two threads can be at (Levels): a flag that is set means a   *)
(* FIFO of at most one character, and a handler that prints between two    *)
(* steps of the main loop needs the flag set again for each character.     *)
(*                                                                         *)
(* ReadFindsMessage and OnceDeaf hold because each request, and each       *)
(* run of the handler up to its read, comes with a message of its own.     *)
(***************************************************************************)
EXTENDS CanConsole, CanFd, TLAPS

\* A thread that is not idle has a character to write.
HasCharacter == \A t \in Threads : pc[t] # "idle" => left[t] > 0

\* How full the FIFO is, by the places of the threads and the flag.
Levels ==
    /\ fifo <= 3
    /\ TFL => fifo <= 1
    /\ pc["isr"] = "clear" => TFL
    /\ pc["isr"] = "write" => fifo <= 1 /\ (TFL => fifo = 0)
    /\ pc["main"] = "clear" => fifo <= 2
    /\ pc["main"] = "write" => fifo <= 2 /\ (TFL => fifo = 0)
    /\ pc["main"] = "write" /\ pc["isr"] \in {"clear", "write"} => fifo = 0
    /\ pc["main"] = "write" /\ pc["isr"] = "write" => ~ TFL

\* With the flag clear and the FIFO empty, a thread is about to write.
EmptyOnlyBeforeWrite ==
    ~ TFL /\ fifo = 0 => pc["main"] = "write" \/ pc["isr"] = "write"

UartInv == TypeOK /\ HasCharacter /\ Levels /\ EmptyOnlyBeforeWrite /\ NoOverrun

\* The state after Asclin0_InitUart.
LEMMA UartInit == Init => UartInv
<1> SUFFICES ASSUME Init PROVE UartInv
  OBVIOUS
<1>1. fifo = 0 /\ pc = [t \in Threads |-> "idle"] /\ left = [t \in Threads |-> 0]
  BY DEF Init
<1>2. TFL /\ ~ shifting /\ ~ overrun
  BY Zenon DEF Init
<1>3. TypeOK
  <2>1. fifo \in 0 .. FifoSize /\ 0 \in 0 .. MaxChars
    BY BoundsAssumption, <1>1
  <2>2. {shifting, TFL, overrun} \subseteq BOOLEAN
    BY Zenon DEF Init
  <2> QED BY <1>1, <2>1, <2>2 DEF TypeOK
<1>4. HasCharacter /\ Levels
  BY <1>1, <1>2 DEF HasCharacter, Levels, Threads
<1> QED BY <1>2, <1>3, <1>4 DEF UartInv, EmptyOnlyBeforeWrite, NoOverrun

\* The hardware: only the FIFO that runs empty sets the flag.
LEMMA MoveInv == ASSUME UartInv, Move PROVE UartInv'
<1>1. fifo > 0 /\ fifo' = fifo - 1 /\ shifting' = TRUE /\ UNCHANGED <<pc, left, overrun>>
  BY DEF Move
<1>2. TFL' <=> TFL \/ fifo = 1
  BY Zenon DEF Move
<1>3. TypeOK'
  <2>1. TFL' \in BOOLEAN
    BY Zenon DEF Move
  <2>2. fifo' \in 0 .. FifoSize
    BY BoundsAssumption, <1>1 DEF UartInv, TypeOK
  <2> QED BY <1>1, <2>1, <2>2 DEF UartInv, TypeOK
<1>4. HasCharacter' /\ NoOverrun'
  BY <1>1 DEF UartInv, HasCharacter, NoOverrun
<1>5. Levels' /\ EmptyOnlyBeforeWrite'
  BY <1>1, <1>2 DEF UartInv, TypeOK, Levels, EmptyOnlyBeforeWrite
<1> QED BY <1>3, <1>4, <1>5 DEF UartInv

\* The shift register: nothing UartInv speaks of but a type.
LEMMA ShiftedOutInv == ASSUME UartInv, ShiftedOut PROVE UartInv'
<1>1. shifting' = FALSE /\ UNCHANGED <<fifo, TFL, pc, left, overrun>>
  BY Zenon DEF ShiftedOut
<1>2. TypeOK'
  BY <1>1 DEF UartInv, TypeOK
<1>3. HasCharacter' /\ Levels' /\ EmptyOnlyBeforeWrite' /\ NoOverrun'
  BY <1>1 DEF UartInv, HasCharacter, Levels, EmptyOnlyBeforeWrite, NoOverrun
<1> QED BY <1>2, <1>3 DEF UartInv

\* A line begins, of the main loop or of a handler.
LEMMA PrintfInv == ASSUME UartInv, NEW t \in Threads, my_printf(t) PROVE UartInv'
<1>1. PICK n \in 1 .. MaxChars : left' = [left EXCEPT ![t] = n]
  BY DEF my_printf
<1>2. TypeOK'
  BY <1>1 DEF UartInv, TypeOK, my_printf, Goto
<1>3. HasCharacter'
  BY <1>1 DEF UartInv, TypeOK, HasCharacter, my_printf, Goto
<1>4. Levels' /\ EmptyOnlyBeforeWrite' /\ NoOverrun'
  BY DEF UartInv, TypeOK, Levels, EmptyOnlyBeforeWrite, NoOverrun, my_printf, At, Goto, Threads
<1> QED BY <1>2, <1>3, <1>4 DEF UartInv

\* The three steps of Asclin0_OutUart.
LEMMA WaitInv == ASSUME UartInv, NEW t \in Threads, Wait(t) PROVE UartInv'
<1>1. TypeOK' /\ HasCharacter'
  BY DEF UartInv, TypeOK, HasCharacter, Wait, At, Goto
<1>2. Levels' /\ EmptyOnlyBeforeWrite' /\ NoOverrun'
  BY DEF UartInv, TypeOK, Levels, EmptyOnlyBeforeWrite, NoOverrun, Wait, At, Runs, Goto, Threads
<1> QED BY <1>1, <1>2 DEF UartInv

LEMMA ClearInv == ASSUME UartInv, NEW t \in Threads, Clear(t) PROVE UartInv'
<1>1. TypeOK' /\ HasCharacter'
  BY DEF UartInv, TypeOK, HasCharacter, Clear, At, Goto
<1>2. Levels' /\ EmptyOnlyBeforeWrite' /\ NoOverrun'
  BY DEF UartInv, TypeOK, Levels, EmptyOnlyBeforeWrite, NoOverrun, Clear, At, Runs, Goto, Threads
<1> QED BY <1>1, <1>2 DEF UartInv

LEMMA WriteInv == ASSUME UartInv, NEW t \in Threads, Write(t) PROVE UartInv'
<1>1. pc[t] = "write" /\ fifo <= 2 /\ fifo < FifoSize
  BY BoundsAssumption DEF UartInv, TypeOK, Levels, Write, At, Threads
<1>2. fifo' = fifo + 1 /\ ~ overrun'
  BY <1>1 DEF UartInv, TypeOK, NoOverrun, Write
<1>3. TypeOK' /\ HasCharacter'
  <2>1. left[t] \in 1 .. MaxChars
    BY <1>1 DEF UartInv, TypeOK, HasCharacter
  <2>2. left' = [left EXCEPT ![t] = left[t] - 1]
    BY DEF Write
  <2>3. pc' = [pc EXCEPT ![t] = IF left[t] > 1 THEN "wait" ELSE "idle"]
    BY DEF Write, Goto
  <2>4. left' \in [Threads -> 0 .. MaxChars]
    BY BoundsAssumption, <2>1, <2>2 DEF UartInv, TypeOK
  <2>5. HasCharacter'
    BY <2>1, <2>2, <2>3 DEF UartInv, TypeOK, HasCharacter
  <2>6. {shifting, TFL, overrun}' \subseteq BOOLEAN
    BY DEF UartInv, TypeOK, Write
  <2>7. fifo' \in 0 .. FifoSize
    BY BoundsAssumption, <1>1, <1>2 DEF UartInv, TypeOK
  <2> QED BY <2>3, <2>4, <2>5, <2>6, <2>7 DEF UartInv, TypeOK
<1>4. Levels' /\ EmptyOnlyBeforeWrite'
  <2>1. TFL' <=> TFL
    BY DEF Write
  <2>2. pc'[t] \in {"wait", "idle"}
    BY DEF UartInv, TypeOK, Write, Goto
  <2>3. CASE t = "main"
    <3>1. pc["isr"] = "idle" /\ pc'["isr"] = pc["isr"]
      BY <2>3 DEF UartInv, TypeOK, Write, At, Runs, Goto, Threads
    <3> QED BY <1>1, <1>2, <2>1, <2>2, <2>3, <3>1
            DEF UartInv, TypeOK, Levels, EmptyOnlyBeforeWrite
  <2>4. CASE t = "isr"
    <3>1. pc'["main"] = pc["main"]
      BY <2>4 DEF UartInv, TypeOK, Write, Goto, Threads
    <3> QED BY <1>1, <1>2, <2>1, <2>2, <2>4, <3>1
            DEF UartInv, TypeOK, Levels, EmptyOnlyBeforeWrite
  <2> QED BY <2>3, <2>4 DEF Threads
<1> QED BY <1>2, <1>3, <1>4 DEF UartInv, NoOverrun

\* UartInv holds in every reachable state.
LEMMA UartInvariance == Spec => []UartInv
<1>1. UartInv /\ [Next]_vars => UartInv'
  <2> SUFFICES ASSUME UartInv, [Next]_vars PROVE UartInv'
    OBVIOUS
  <2>1. CASE Move  BY <2>1, MoveInv
  <2>2. CASE ShiftedOut  BY <2>2, ShiftedOutInv
  <2>3. ASSUME NEW t \in Threads, my_printf(t) \/ Step(t) PROVE UartInv'
    BY <2>3, PrintfInv, WaitInv, ClearInv, WriteInv DEF Step
  <2>4. CASE UNCHANGED vars
    BY <2>4 DEF vars, UartInv, TypeOK, HasCharacter, Levels, EmptyOnlyBeforeWrite, NoOverrun
  <2> QED BY <2>1, <2>2, <2>3, <2>4 DEF Next
<1> QED BY UartInit, <1>1, PTL DEF Spec

-----------------------------------------------------------------------------
(* Reception, whatever the handler does with a message.                        *)

RxInv == RxTypeOK /\ ReadFindsMessage /\ FlagIsAnnounced

LEMMA DueIsSmall ==
    /\ Due \in 0 .. 2
    /\ Due = (IF requested THEN 1 ELSE 0) + (IF rx \in {"entered", "cleared"} THEN 1 ELSE 0)
BY DEF Due

LEMMA StaysAtLeastZero ==
    ASSUME NEW a \in Int, NEW b \in Int, NEW c \in Int, NEW d \in Int, a - b >= c - d, c - d >= 0
    PROVE  a - b >= 0
OBVIOUS

\* Nothing is due and nothing waits after Can_Init.
LEMMA RxInitInv == RxInit => RxInv
<1> SUFFICES ASSUME RxInit PROVE RxInv
  OBVIOUS
<1>1. waiting = 0 /\ rx = "idle" /\ ~ newMessage /\ ~ requested
  BY Zenon DEF RxInit
<1>2. RxTypeOK
  <2>1. {newMessage, requested} \subseteq BOOLEAN
    BY Zenon DEF RxInit
  <2> QED BY <1>1, <2>1, RxFifoAssumption DEF RxTypeOK
<1> QED BY <1>1, <1>2 DEF RxInv, ReadFindsMessage, Backlog, Due, FlagIsAnnounced

\* What a step does to the backlog: an arrival adds to it or comes with a
\* request, and no other step changes it.
LEMMA StepBacklog ==
    ASSUME RxInv, RxNext
    PROVE  RxInv' /\ Backlog' >= Backlog
<1>1. waiting \in 0 .. RX_FIFO0_SIZE /\ RX_FIFO0_SIZE \in Nat
  BY RxFifoAssumption DEF RxInv, RxTypeOK
<1>2. waiting - Due >= 0
  BY DEF RxInv, ReadFindsMessage, Backlog
<1>3. newMessage \in BOOLEAN /\ requested \in BOOLEAN
  BY Zenon DEF RxInv, RxTypeOK
<1>4. newMessage => requested \/ rx = "entered"
  BY DEF RxInv, FlagIsAnnounced
<1> DEFINE Good == /\ RxTypeOK' /\ FlagIsAnnounced'
                   /\ waiting' - Due' >= waiting - Due
<1>5. ASSUME Good PROVE RxInv' /\ Backlog' >= Backlog
  <2>1. waiting' \in Int /\ waiting \in Int /\ Due \in Int /\ Due' \in Int
    BY <1>1, <1>5, RxFifoAssumption DEF RxTypeOK, Due
  <2>2. waiting' - Due' >= waiting - Due
    BY <1>5
  <2>3. waiting' - Due' >= 0
    BY <1>2, <2>1, <2>2, StaysAtLeastZero
  <2>4. ReadFindsMessage' /\ Backlog' >= Backlog
    BY <2>2, <2>3 DEF ReadFindsMessage, Backlog
  <2> QED BY <1>5, <2>4 DEF RxInv
<1>6. CASE Store
  <2>1. /\ waiting' = waiting + 1 /\ waiting < RX_FIFO0_SIZE /\ rx' = rx
    BY <1>6 DEF Store
  <2>2. newMessage' \in BOOLEAN /\ newMessage' /\ requested' \in BOOLEAN /\ (requested => requested')
        /\ (~ newMessage => requested')
    BY <1>3, <1>6, Zenon DEF Store
  <2>3. RxTypeOK'
    <3>1. {newMessage, requested}' \subseteq BOOLEAN
      BY <2>2, Zenon
    <3> QED BY <1>1, <2>1, <3>1 DEF RxInv, RxTypeOK
  <2>4. FlagIsAnnounced'
    BY <1>4, <2>1, <2>2 DEF FlagIsAnnounced
  <2>5. Due' <= Due + 1
    BY <2>1, <2>2 DEF Due
  <2> QED BY <1>1, <1>5, <2>1, <2>3, <2>4, <2>5, DueIsSmall DEF Due
<1>7. CASE Enter
  <2>1. waiting' = waiting /\ rx = "idle" /\ rx' = "entered" /\ requested
    BY <1>7 DEF Enter
  <2>2. requested' = FALSE /\ newMessage' \in BOOLEAN
    BY <1>3, <1>7, Zenon DEF Enter
  <2>3. RxTypeOK'
    <3>1. {newMessage, requested}' \subseteq BOOLEAN
      BY <2>2, Zenon
    <3> QED BY <1>1, <2>1, <3>1 DEF RxTypeOK
  <2>4. Due = 1 /\ Due' = 1
    BY <2>1, <2>2 DEF Due
  <2> QED BY <1>1, <1>5, <2>1, <2>3, <2>4 DEF FlagIsAnnounced
<1>8. CASE ClearFlag
  <2>1. waiting' = waiting /\ rx = "entered" /\ rx' = "cleared"
    BY <1>8 DEF ClearFlag
  <2>2. newMessage' = FALSE /\ requested' \in BOOLEAN /\ (requested' <=> requested)
    BY <1>3, <1>8, Zenon DEF ClearFlag
  <2>3. RxTypeOK'
    <3>1. {newMessage, requested}' \subseteq BOOLEAN
      BY <2>2, Zenon
    <3> QED BY <1>1, <2>1, <3>1 DEF RxTypeOK
  <2>4. Due' = Due
    BY <2>1, <2>2 DEF Due
  <2> QED BY <1>1, <1>5, <2>1, <2>2, <2>3, <2>4, DueIsSmall DEF FlagIsAnnounced
<1>9. CASE ReadMessage
  <2>1. waiting' = waiting - 1 /\ rx = "cleared" /\ rx' = "read"
    BY <1>9 DEF ReadMessage
  <2>2. newMessage' \in BOOLEAN /\ (newMessage' <=> newMessage)
        /\ requested' \in BOOLEAN /\ (requested' <=> requested)
    BY <1>3, <1>9, Zenon DEF ReadMessage
  <2>3. Due' = Due - 1 /\ Due >= 1
    BY <2>1, <2>2 DEF Due
  <2>4. RxTypeOK'
    <3>1. {newMessage, requested}' \subseteq BOOLEAN
      BY <2>2, Zenon
    <3>2. waiting >= 1
      BY <1>1, <1>2, <2>3, DueIsSmall
    <3> QED BY <1>1, <2>1, <3>1, <3>2 DEF RxTypeOK
  <2>5. FlagIsAnnounced'
    BY <1>4, <2>1, <2>2 DEF FlagIsAnnounced
  <2> QED BY <1>1, <1>5, <2>1, <2>3, <2>4, <2>5, DueIsSmall
<1>10. CASE Return
  <2>1. waiting' = waiting /\ rx = "read" /\ rx' = "idle"
    BY <1>10 DEF Return
  <2>2. newMessage' \in BOOLEAN /\ (newMessage' <=> newMessage)
        /\ requested' \in BOOLEAN /\ (requested' <=> requested)
    BY <1>3, <1>10, Zenon DEF Return
  <2>3. RxTypeOK'
    <3>1. {newMessage, requested}' \subseteq BOOLEAN
      BY <2>2, Zenon
    <3> QED BY <1>1, <2>1, <3>1 DEF RxTypeOK
  <2>4. Due' = Due
    BY <2>1, <2>2 DEF Due
  <2> QED BY <1>1, <1>4, <1>5, <2>1, <2>2, <2>3, <2>4, DueIsSmall DEF FlagIsAnnounced
<1> QED BY <1>6, <1>7, <1>8, <1>9, <1>10 DEF RxNext

LEMMA RxInvariance == RxSpec => []RxInv
<1>1. RxInv /\ [RxNext]_rxVars => RxInv'
  <2> SUFFICES ASSUME RxInv, [RxNext]_rxVars PROVE RxInv'
    OBVIOUS
  <2>1. CASE UNCHANGED rxVars
    BY <2>1, Zenon DEF RxInv, RxTypeOK, ReadFindsMessage, Backlog, Due, FlagIsAnnounced, rxVars
  <2> QED BY <2>1, StepBacklog
<1> QED BY <1>1, RxInitInv, PTL DEF RxSpec

-----------------------------------------------------------------------------
(* The composition.  Its invariants are those of its parts: a step of the      *)
(* whole is a step of each part or leaves that part alone.                     *)

\* can.c and asclin.c together: each step of the handler, of the main loop and of
\* the hardware is one of the console or none, and one of the reception or none.
\* So what holds of the console for any two printers holds for the CAN handler
\* and the main loop, and what holds of the reception for any reader holds for
\* one that prints.
THEOREM ConsoleImplementsParts == ConsoleSpec => Spec /\ RxSpec
<1>1. ConsoleInit => Init /\ RxInit
  BY DEF ConsoleInit
<1>2. [ConsoleNext]_consoleVars => [Next]_vars /\ [RxNext]_rxVars
  <2> SUFFICES ASSUME [ConsoleNext]_consoleVars PROVE [Next]_vars /\ [RxNext]_rxVars
    OBVIOUS
  <2>1. CASE MainPrints
    BY <2>1, Zenon DEF MainPrints, Next, Step, Threads
  <2>2. CASE Transmitter
    BY <2>2, Zenon DEF Transmitter, Next
  <2>3. CASE Arrival
    BY <2>3, Zenon DEF Arrival, RxNext
  <2>4. CASE HandlerReceives
    BY <2>4, Zenon DEF HandlerReceives, RxNext
  <2>5. CASE HandlerPrints
    BY <2>5, Zenon DEF HandlerPrints, Next, Step, Threads
  <2>6. CASE HandlerReturns
    BY <2>6, Zenon DEF HandlerReturns, RxNext
  <2>7. CASE UNCHANGED consoleVars
    BY <2>7 DEF consoleVars, vars, rxVars
  <2> QED BY <2>1, <2>2, <2>3, <2>4, <2>5, <2>6, <2>7 DEF ConsoleNext, Handler
<1> QED BY <1>1, <1>2, PTL DEF ConsoleSpec, Spec, RxSpec

\* asclin.c:80-94 with can.c:25-38 and the main loop as its callers: the types,
\* with the characters a line has left within its length.
THEOREM TypeCorrect == ConsoleSpec => []TypeOK
<1>1. UartInv => TypeOK
  BY DEF UartInv
<1> QED BY <1>1, UartInvariance, ConsoleImplementsParts, PTL

\* No character of the handler or of the main loop is written to a full FIFO.
THEOREM NoOverrunHolds == ConsoleSpec => []NoOverrun
<1>1. UartInv => NoOverrun
  BY DEF UartInv
<1> QED BY <1>1, UartInvariance, ConsoleImplementsParts, PTL

\* The handler waits for nothing only when it has come between Clear and Write
\* of the main loop.
THEOREM WaitsUnlessCaught == ConsoleSpec => []WaitsForSpaceUnlessCaught
<1>1. UartInv => WaitsForSpaceUnlessCaught
  BY DEF UartInv, EmptyOnlyBeforeWrite, WaitsForSpaceUnlessCaught, Caught, At, Runs, Threads
<1> QED BY <1>1, UartInvariance, ConsoleImplementsParts, PTL

\* No run of the handler finds the FIFO empty, whatever is printed.
THEOREM ReadFindsMessageHolds == ConsoleSpec => []ReadFindsMessage
<1>1. RxInv => ReadFindsMessage
  BY DEF RxInv
<1> QED BY <1>1, RxInvariance, ConsoleImplementsParts, PTL

\* The new-message flag is set only while a run of the handler is to clear it.
THEOREM FlagIsAnnouncedHolds == ConsoleSpec => []FlagIsAnnounced
<1>1. RxInv => FlagIsAnnounced
  BY DEF RxInv
<1> QED BY <1>1, RxInvariance, ConsoleImplementsParts, PTL

\* can.c:156-169: a FIFO full of messages that no run of the handler is due for
\* stays so for good; only a restart of the node receives again.
THEOREM OnceDeaf == ConsoleSpec => [][Deaf => Deaf']_consoleVars
<1>1. ASSUME RxInv, RxInv', Deaf, [RxNext]_rxVars PROVE Deaf'
  <2>1. CASE RxNext
    <3>1. Backlog' >= RX_FIFO0_SIZE /\ RxInv'
      BY <1>1, <2>1, StepBacklog DEF Deaf
    <3>2. /\ waiting' \in Nat /\ waiting' <= RX_FIFO0_SIZE /\ RX_FIFO0_SIZE \in Nat
          /\ Due' \in 0 .. 2 /\ Backlog' = waiting' - Due'
      BY <3>1, RxFifoAssumption DEF RxInv, RxTypeOK, Backlog, Due
    <3>3. \A n, w \in Nat, d \in 0 .. 2 : w <= n /\ w - d >= n => w - d = n
      OBVIOUS
    <3> QED BY <3>1, <3>2, <3>3, Zenon DEF Deaf
  <2>2. CASE UNCHANGED rxVars
    BY <1>1, <2>2 DEF Deaf, Backlog, Due, rxVars
  <2> QED BY <1>1, <2>1, <2>2
<1>2. RxInv /\ RxInv' /\ [RxNext]_rxVars => [Deaf => Deaf']_consoleVars
  BY <1>1
<1> QED BY <1>2, RxInvariance, ConsoleImplementsParts, PTL DEF RxSpec

\* The handler's types: it has at most MaxLen + 2 lines to print, and none but
\* after its read; nor is it in my_printf at any other time, so that the main
\* loop, which runs only when the handler does not, never meets it there.
HandlerTypeOK ==
    /\ prints \in 0 .. MaxLen + 2
    /\ rx # "read" => prints = 0 /\ pc["isr"] = "idle"

\* can.c:25-38: the handler is in my_printf only between its read and its return,
\* and owes at most a line for each byte of the message and two more.
THEOREM PrintsOnlyAfterRead == ConsoleSpec => []HandlerTypeOK
<1>1. ConsoleInit => HandlerTypeOK
  BY MaxLenAssumption DEF ConsoleInit, Init, RxInit, HandlerTypeOK, Threads
<1>2. TypeOK /\ HandlerTypeOK /\ [ConsoleNext]_consoleVars => HandlerTypeOK'
  <2> SUFFICES ASSUME TypeOK, HandlerTypeOK, [ConsoleNext]_consoleVars PROVE HandlerTypeOK'
    OBVIOUS
  <2>1. pc \in [Threads -> {"idle", "wait", "clear", "write"}] /\ "isr" \in Threads
    BY DEF TypeOK, Threads
  <2>2. CASE MainPrints
    <3>1. pc'["isr"] = pc["isr"]
      BY <2>1, <2>2 DEF MainPrints, my_printf, Step, Wait, Clear, Write, Goto
    <3> QED BY <2>2, <3>1 DEF MainPrints, rxVars, HandlerTypeOK
  <2>3. CASE Transmitter
    BY <2>3 DEF Transmitter, Move, ShiftedOut, rxVars, HandlerTypeOK
  <2>4. CASE Arrival
    BY <2>4 DEF Arrival, Store, vars, HandlerTypeOK
  <2>5. CASE HandlerReceives
    <3>1. pc' = pc
      BY <2>5 DEF HandlerReceives, vars
    <3>2. CASE Enter \/ ClearFlag
      BY <2>5, <3>1, <3>2 DEF HandlerReceives, Enter, ClearFlag, ReadMessage, HandlerTypeOK
    <3>3. CASE ReadMessage /\ \E len \in 0 .. MaxLen : prints' = len + 2
      BY <3>1, <3>3, MaxLenAssumption DEF ReadMessage, HandlerTypeOK
    <3> QED BY <2>5, <3>2, <3>3 DEF HandlerReceives
  <2>6. CASE HandlerPrints
    <3>1. rx = "read" /\ rx' = "read"
      BY <2>6 DEF HandlerPrints, rxVars
    <3>2. CASE prints' = prints
      BY <3>1, <3>2 DEF HandlerTypeOK
    <3>3. CASE prints > 0 /\ prints' = prints - 1
      BY <3>1, <3>3, MaxLenAssumption DEF HandlerTypeOK
    <3> QED BY <2>6, <3>2, <3>3, Zenon DEF HandlerPrints
  <2>7. CASE HandlerReturns
    BY <2>7 DEF HandlerReturns, Return, At, vars, HandlerTypeOK
  <2>8. CASE UNCHANGED consoleVars
    BY <2>8 DEF consoleVars, vars, rxVars, HandlerTypeOK
  <2> QED BY <2>2, <2>3, <2>4, <2>5, <2>6, <2>7, <2>8 DEF ConsoleNext, Handler
<1> QED BY <1>1, <1>2, TypeCorrect, PTL DEF ConsoleSpec

-----------------------------------------------------------------------------
\* The receiver's length is the shortest a frame for the message can have, and
\* the message's own exactly if a frame can have that.
THEOREM FrameLengthIsLeast ==
    ASSUME NEW len \in 0 .. 64
    PROVE  /\ dlc(dataLengthCode(len)) \in FrameLengths
           /\ dlc(dataLengthCode(len)) >= len
           /\ \A n \in FrameLengths : n >= len => n >= dlc(dataLengthCode(len))
<1> DEFINE k == dlc(dataLengthCode(len))
<1>1. k = IF len > 48 THEN 64 ELSE IF len > 32 THEN 48 ELSE IF len > 24 THEN 32
          ELSE IF len > 20 THEN 24 ELSE IF len > 16 THEN 20 ELSE IF len > 12 THEN 16
          ELSE IF len > 8 THEN 12 ELSE len
  BY DEF dlc, dataLengthCode
<1> HIDE DEF k
<1>2. k \in FrameLengths /\ k >= len
  BY <1>1 DEF FrameLengths
<1>3. ASSUME NEW n \in FrameLengths, n >= len PROVE n >= k
  <2>1. n \in Int
    BY DEF FrameLengths
  <2>2. \/ n \in 0 .. 8 \/ n = 12 \/ n = 16 \/ n = 20 \/ n = 24 \/ n = 32 \/ n = 48 \/ n = 64
    BY DEF FrameLengths
  <2> QED BY <1>1, <1>3, <2>1, <2>2
<1> QED BY <1>2, <1>3 DEF k

\* The receiver gets the message, and behind it what an earlier message left in
\* txData, up to the length of the frame.
THEOREM TailIsStale ==
    ASSUME NEW len \in 0 .. 64, NEW Bytes,
           NEW txData \in [0 .. 63 -> Bytes], NEW message \in [0 .. 63 -> Bytes]
    PROVE  LET got == ReceivedFrom(CopiedTo(txData, message, len), len)
           IN  \A i \in DOMAIN got : got[i] = IF i < len THEN message[i] ELSE txData[i]
<1> DEFINE n == dlc(dataLengthCode(len))
           sent == CopiedTo(txData, message, len)
           got == ReceivedFrom(sent, len)
<1>1. n \in 0 .. 64
  BY DEF dlc, dataLengthCode
<1>2. got = [i \in 0 .. n - 1 |-> sent[i]]
  BY DEF ReceivedFrom
<1>3. \A i \in 0 .. 63 : sent[i] = IF i < len THEN message[i] ELSE txData[i]
  BY DEF CopiedTo
<1> HIDE DEF n, sent, got
<1>4. \A i \in DOMAIN got : got[i] = IF i < len THEN message[i] ELSE txData[i]
  <2>1. DOMAIN got = 0 .. n - 1
    BY <1>2
  <2>3. \A i \in 0 .. n - 1 : i \in 0 .. 63
    BY <1>1
  <2>2. \A i \in 0 .. n - 1 : got[i] = sent[i]
    BY <1>2
  <2> QED BY <1>3, <2>1, <2>2, <2>3
<1> QED BY <1>4 DEF got, sent
=============================================================================
