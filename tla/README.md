# Verification of the vehicle-diagnosis firmware

The repository is the firmware of a vehicle ECU on an Infineon AURIX TC375: one
bare-metal program on one core, with the lwIP TCP/IP stack (2.1.2, `NO_SYS`) and
servers for vehicle diagnosis (DoIP), SOME/IP and echo, and drivers for CAN,
the serial console, motors, distance sensors, a buzzer and buttons.

This directory holds TLA+ models of the parts whose correctness depends on order,
timing or shared state; configurations with which TLC checks them on small
instances; and theorems about them, proved with TLAPS for every value of the
constants. `PROJECT.json` maps every modelled definition to its source lines, and
names for every property a change of the code that breaks it.

    tlc -config MCLwipTimers.cfg MCLwipTimers      # model-check one run
    tlapm LwipTimersProofs.tla                     # check the proofs of one module

## 1. How the system works

`main` (`src/main.c`) runs `SYSTEM_Init`, brings up lwIP and the servers and then
repeats two calls for ever:

    Ifx_Lwip_pollTimerFlags();      timers and the link
    Ifx_Lwip_pollReceiveFlags();    one received frame, and all that follows from it

Everything of lwIP, and so every server callback, runs inside these two calls.
What runs besides is interrupt handlers and hardware:

* **Interrupt handlers** interrupt the main loop between any two instructions
  while `ICR.IE` is set. The processor clears `ICR.IE` on entry and no handler
  sets it, so handlers never nest: one handler delays every other.
* **Hardware**: the receive DMA of the Ethernet MAC, the UART's FIFO and shift
  register, the system timer's comparator, the PHY.
* **Peers**: TCP clients that connect, send, acknowledge, close, reset or vanish; UDP
  clients whose datagrams are lost, late or repeated; CAN nodes that send at any time.

The parts touch each other in six places, which is where the models look:

| shared state | writers and readers |
|---|---|
| `g_Lwip.timerFlags`, counters | tick handler / main loop |
| OWN bits of the receive ring, frame buffers | DMA / main loop |
| `FLAGS.TFL`, transmit FIFO of ASCLIN0 | main loop / handlers that print / UART |
| the compare value of STM0 | tick handler / timer, delayed by other handlers |
| RX FIFO 0 and new-message flag of a CAN node | CAN controller / receive handler, delayed by its own printing |
| pbuf pool, pcb callbacks and `arg` | lwIP / servers, in the main loop |

## 2. Inventory

| component | state | operations | what is hard | what makes it correct |
|---|---|---|---|---|
| lwIP timer port (`Ifx_Lwip.c`) | counters, event flags, `ICR.IE`, link flag, MAC mode | tick, poll: read, clear, serve, link | a tick between read and clear; the link changes between two register reads | no expiry lost or doubled; interrupts back on; each timer served for ever; link and MAC follow the PHY |
| Millisecond tick (`geth_lwip.c`) | compare value, timer | handler moves the compare value | the handler comes late and the value has passed; wrap-around | the next tick is at most 1 ms away; the clock keeps the time |
| Ethernet reception (`netif.c`, `IfxGeth_Eth.c`) | descriptor ring, two positions, pbuf pool | DMA fills; loop copies, gives back, moves on | DMA and loop interleave; full ring; empty pool | order, no duplicate, no loss unless full; pbufs conserved |
| DoIP server (`DoIP.c`) | a session per connection: state and pbuf chain; windows | accept, recv, sent, poll, err, send, close | order of callbacks; `tcp_write` without memory; reference counts; a connection that dies | no dangling pbuf, none leaked; sessions follow connections; deferred data is sent; close after FIN |
| Serial console (`asclin.c`, `my_stdio.c`) | TFL, FIFO | print a character: wait, clear, write | a handler prints inside the main loop's print | no overrun; a print returns |
| TCP echo (`tcp_echo.c`) | a session per connection: 256-byte storage and pbuf chain | as DoIP, with a copy through the storage | a pbuf that does not fit; `tcp_write` without memory; FIN with data stored | every byte echoed once, in order; callbacks return |
| SOME/IP (`someip.c`) | two UDP pcbs, two lights, a count | offer, subscribe acknowledgement, light commands | requests and responses lost, repeated, late; no memory for a response already acted on; others' datagrams | a response is given only for what was done; nobody is answered who has not asked; who can be served is |
| CAN driver (`can.c`) | RX FIFO 0, new-message flag, request of the handler | receive handler, which prints; send | messages arrive between clear and read, and while the handler prints | a message for each run of the handler; no arrival unannounced; room again for the next |
| CAN FD driver (`canfd.c`) | the same, message buffers | receive handler; send, receive | lengths that are not a frame's | the receiver gets the message, in the shortest frame |
| CAN gateway (`can-ethernet.c`) | session; CAN frames | forward both ways | not started by `main` | - |
| Ultrasonic sensors, `stm.c` | five samples, timeouts | measure, filter | resolution of the clock; not read by `main` | - |
| Buzzer, GPT12 | beep counter, delay counter | tick handlers | they delay other handlers | - |
| Motors, PWM, buttons, LEDs | port pins, duty | stop, move, read | none: single accesses | - |
| Bluetooth, ToF, ADC, UDP echo | - | - | not started, or stateless | - |

`PROJECT.json` lists every component with what is left out of it and why, and under
`hazards` every line where the code is exposed to an order, a limit or a failure
that a test would hardly reach, with the properties that watch it.

## 3. Modules

| module | models | written against |
|---|---|---|
| `TimerService` | abstract: what the timers promise; expiries are taken and served atomically | - |
| `LwipTimers` | tick handler, `Ifx_Lwip_pollTimerFlags`, link poll | `Ifx_Lwip.c`, `geth_lwip.c`, PHY driver |
| `LwipTimersProofs` | theorems about `LwipTimers` | |
| `StmTick`, `StmTickProofs` | the comparator that makes the ticks | `geth_lwip.c:30-56`, `IfxStm.h` |
| `FrameFifo` | abstract: a bounded queue of frames | - |
| `EthRx`, `EthRxProofs` | descriptor ring, `low_level_input`, `ifx_netif_input` | `netif.c`, `IfxGeth_Eth.c` |
| `Pbuf` | pbufs as a heap of records; `pbuf_free`, `pbuf_ref`, `pbuf_cat`, `pbuf_chain`, and taking the first pbuf off a chain as both TCP servers do, as operators | lwIP `pbuf.c` |
| `PbufProofs` | what those operators do to chains of any length, to the pool, to lengths and to contents | |
| `DoIP`, `DoIPProofs` | the diagnostics server with the part of TCP that calls it | `DoIP.c`, lwIP `tcp.c`, `tcp_in.c` |
| `EchoService` | abstract: every byte goes back once, in order; what may be dropped and when | - |
| `TcpEcho`, `TcpEchoProofs` | the echo server, the rounds of `echoUnpack`'s loop as steps | `tcp_echo.c` |
| `Uart` | printing from the main loop and from handlers | `asclin.c`, `my_stdio.c` |
| `CanRx` | RX FIFO 0, its flag and the receive handler of CAN and CAN FD | `can.c`, `canfd.c`, `IfxCan_Can.c` |
| `CanConsole` | `CanRx` and `Uart` composed: the receive handler prints | `can.c:25-38` |
| `CanFd` | length codes and copies | `canfd.c` |
| `CanConsoleProofs` | theorems about `Uart`, `CanRx`, their composition and `CanFd` | |
| `LightService` | abstract: a call is carried out before its response | - |
| `SomeIp`, `SomeIpProofs` | the two UDP callbacks, their clients and the network | `someip.c` |
| `MC*` | TLC instances | |

Each module's variables carry the names of the code's. How the less obvious of them
correspond:

* **`LwipTimers`**. `timerFlags` is the set of set bits of `g_Lwip.timerFlags`; `pc`,
  `saved` and `local` are the main loop's position and its locals, so the tick
  handler can come between any two accesses. The handler is one action because
  nothing interrupts it. `statusMode` holds the PHY status register read before the
  register that tells the link state; `PhyChanges` can come between the two.
* **`StmTick`**. One step of `Count` is one timer tick; a match is an equality. Any
  other interrupt handler is `handler`, the ticks it still runs at most. `uncounted` is history: the
  time since the start that `g_TickCount_1ms` has not counted.
* **`EthRx`**. `OWN[i]` is bit 31 of RDES3, `dma` the DMA's own position,
  `rxDescrPtr` the driver's; `pc` splits `ifx_netif_input` at every access to
  shared memory. `Need[f]` is how many pbufs of the pool a frame fills (a pbuf holds
  592 bytes); `held` counts those beyond the driver.
* **`Pbuf` and `DoIP`**. A chain is the sequence of its pbufs; `next` pointers do not
  appear. A payload is `"request"` or `"answer"`. `rcvWnd` and `sndBuf` are
  `rcv_wnd` and `snd_buf` of the pcb. How often `tcp_write` finds memory in one call
  of `doip_send` is chosen by the step (`writes`). `piped`, `echoed`, `lost`, `reset`
  and `esLeaked` are history: they record what has happened and no action reads them.
* **`TcpEcho`**. `storage` is the sequence of the bytes in `es->storage` before
  `nextFreeStoragePos`. `running` is the connection whose callback is in the loop of
  `echoUnpack`; while it is set no other callback can be called. `refused` and `came`
  are history: connections whose last `tcp_write` failed, and what the callback that
  runs was given.
* **`Uart`**. `Runs("main")` is false while a handler prints, which is how handlers run
  to their end. `my_printf` chooses how many characters it prints; formatting is
  left out.
* **`CanRx` and `CanConsole`**. `requested` is the pending bit of the handler's service
  request node, which does not count. `prints` is how many calls of `my_printf` the
  handler still has to make for the message it has read. `Backlog` is what the FIFO holds
  beyond the messages a run of the handler is due for.
* **`SomeIp`**. A datagram is a record of what the callbacks look at. `up` and `down` are
  the datagrams under way; a set, for a client that repeats makes its duplicates. `done`
  is history: the clients whose call has been carried out since they made it.

### How the modules relate

Four modules are shown to implement an abstract one, by `INSTANCE` and a property of a
run: `LwipTimers` `TimerService`, `EthRx` `FrameFifo`, `TcpEcho` `EchoService` and `SomeIp`
`LightService`. `DoIP` and `TcpEcho` extend `Pbuf`; `CanConsole` composes `Uart` and `CanRx`.
`EchoService` allows a byte to be dropped only with its connection or by a FIN after a
failed `tcp_write`, and `LightService` allows a call to be carried out again at any time,
also after its response: both are what the code does, and as much as it promises. A light is on,
in `LightService`, if the value of the call is 1 and off otherwise, which is what the comments of
`someip.c` say; the code keeps that for clients that send no odd value but 1 (finding 5).
The models rest
on each other where one's assumption is another's result:

* `LwipTimers` assumes that the comparator matches again and again. `StmTick` shows it
  to hold as long as no handler runs longer than 1 ms, and to fail otherwise
  (finding 4).
* `DoIP` assumes that `doip_poll` is called again and again. That is `TimersServed` of
  `LwipTimers` for the slow TCP timer.
* `EthRx` and `LwipTimers` assume that the main loop goes on. `Uart` shows the one way a
  print of the main loop's or of a handler's never returns (finding 3), and `TcpEcho` the
  one way a callback never does (finding 2).
* `TcpEcho` assumes, like `DoIP`, that its poll callback is called again and again.

## 4. What the runs check

Every run explores its whole state space.

| run | instance | shows |
|---|---|---|
| `lwip_timers` | periods 1, 2, 3, 4; two link modes; tick count modulo 12 | `CriticalSection`; `ImplementsService`: read-and-clear acts as one step and no expiry is lost or served twice; `TimersServed`; `LinkConverges` |
| `stm_tick` | timer modulo 62, 4 ticks per ms, handlers of up to 1 ms | `TickWithinMs`; `ClockIsRight`: what `sys_now()` returns stays behind the time since the start by the same ten milliseconds, give or take one |
| `stm_tick_long_handler` | handlers of up to 1.5 ms | `TickWithinMs` is violated |
| `eth_rx` | 3 descriptors, 2 pbufs, frames of 1 and of 2 pbufs and of an unknown type | `PbufsConserved`, `FilledInOrder`, `ImplementsFifo`, `FramesAreTaken` |
| `doip` | 2 connections, 2 pbufs, requests of 15 bytes, a window of 2 answers, a send buffer of 2 requests | `SessionPerConnection`, `NoDanglingPbuf`, `SentPbufsAreFreed`, `LockstepIsAnswered`, `WindowComesBack`, `TotLenIsStaleForAnswersOnly`; `DeferredIsSent`, `FinEndsSession` |
| `doip_pbuf_lost` | 1 connection, 2 pbufs | `NoPbufLost` is violated |
| `tcp_echo` | 2 connections, 2 pbufs, segments of 1 and 2 bytes, storage of 2 | `ImplementsEchoService`; `HoldsNoPbuf`, `WindowIsWhole`, `SpinsOnlyWhenOverfull`; `StoredIsEchoed` |
| `tcp_echo_spins` | a segment of 4 bytes, storage of 3 | `UnpackReturns` is violated |
| `can_console` | FIFO of 3 messages of up to 2 bytes; lines of up to 3 characters, UART FIFO of 3 | of the console `NoOverrun`, `WaitsForSpaceUnlessCaught`, `PrintReturns`; of reception `ReadFindsMessage`, `FlagIsAnnounced`; of both `AnnouncedIsRead`, `RoomUnlessDeaf` |
| `uart_handler_prints` | lines of up to 3 characters, FIFO of 3 | `WaitsForSpace` is violated |
| `someip` | 2 clients, 3 calls, 4 datagrams of others, count modulo 2 | `ImplementsLightService`, `AnswersAreAsked`, `Served` |
| `someip_odd_value` | one call with the value 3 | `OnOnlyForOne` is violated |

The passing runs also check the `TypeOK` of their module, except `stm_tick`, for whose types
there is a proof.

### The bounds, and why they are enough

* **Periods 1 to 4** keep the order of the real ones (100, 250, 500, 1000 ms) and, having
  no common factor, let expiries fall on every alignment, alone and together; the
  real periods are multiples of 50 ms, so they align more often. The tick handler
  can run at every step of the main loop, so any number of ticks per poll occurs.
  The proofs lift the bound.
* **Timer modulo 62**: ten milliseconds to the first match, as in the code, is 40 of 62;
  the comparator wraps, and a comparator behind the timer is visibly a lap away. A lap is
  fifteen milliseconds and a half: no whole number of them, as 2^32 ticks are none. The
  proofs lift this bound too.
* **Three descriptors** are the least where full, empty and "one between the two
  positions" differ; **two pbufs** run out while frames wait, and a long frame needs
  both of them. Three kinds of frame make a duplicate or a swap visible.
* **Two connections and two pbufs**: the least where connections could share a pbuf and
  where a chain has a successor. `RecvData` also hands over two segments as one
  chain. A request of **15 bytes** is shorter than the 17 of the answer; the window
  holds two answers. The send buffer of 30 holds one answer, behind which the next pbuf has to
  wait, or two requests sent back as they came, so that one call sends a whole chain. A third pbuf adds chains of three,
  in which the middle differs from the last only in having a successor.
* **`MaxLeaked` = 1** bounds the sessions of refused connections; each is alike.
* **A storage of two bytes** and segments of one and two: a segment fills it alone, two do,
  or the second does not fit; the window of three lets one more segment come while the
  storage is full. The proof of the invariants lifts the sizes.
* **RX FIFO of three messages** (15 in the code): one being read, one announced, one
  backlog; full and "full of nothing but backlog" differ. A message of two bytes makes the
  handler print four times, so it can be caught by the main loop's print at each.
* **Two clients and three calls** of the lights: one client calls twice, so that a late
  request of its first call can arrive after the second. The values are 1 and 2; the value 3 has a run of its own. Only the
  first client's socket is bound to the service's port; the second is obeyed and never
  answered.
* **Lines of 3 characters, FIFO of 3**: the FIFO holds one character of the main loop and
  two written on a stale flag. The proof shows three places to be enough for lines
  of any length; the hardware has 16.
* **`drops`** is a parity, so that dropping a frame is a step and not a stutter.

### Fairness, and why the code justifies it

* `LwipTimers`: weak fairness of the comparator (see `StmTick`) and of the main loop,
  which never returns. Strong fairness of the tick handler: it is enabled only while
  `ICR.IE` is set, which the loop clears and sets for ever, and a pending interrupt is
  taken in the first cycle in which it is. Nothing is assumed of the PHY: the liveness
  properties state their own condition on it.
* `EthRx`: weak fairness of the main loop. That pbufs become free is a premise of
  `FramesAreTaken`, not an assumption: a server that keeps them is a real outcome.
* `DoIP`: weak fairness of `doip_poll` with memory enough for the chain (its ENABLED is written out
  as `PollActs`, which TLC evaluates much faster): the slow timer
  polls each connection for ever, and memory is not short at every poll. That the peer
  acknowledges everything again and again is a premise (`PeerReads`); otherwise lwIP
  gives the connection up.
* `TcpEcho`: weak fairness of the callback that runs; strong fairness of `echoPoll`, which is
  enabled only between callbacks, for the slow timer polls each connection for ever; and
  strong fairness of a `tcp_write` that finds memory: it is not short at every attempt.
* `CanConsole`: weak fairness of the hardware, of the handler, and of the main loop while no
  handler runs. That the two prints do not catch each other is a premise of the properties.
* `SomeIp`: a client repeats itself (weak fairness); of what is sent again and again
  something arrives, memory for its answer is found, and an answer arrives (strong
  fairness: loss and shortage come and go). Nothing is assumed of a client at another port.
* `StmTick` has no liveness: what is checked is how far away the next tick can be.

`CHECK_DEADLOCK FALSE` stands where the system really may stop: `can_console` where the
handler is caught with its FIFO full, `tcp_echo` where a callback spins, and `someip` when every call
has been made and answered and nothing is under way. No other passing run turns the
deadlock check off.

## 5. Findings

Five runs end in a violation of what a comment says:

1. **Pbufs are lost with a connection** (`NoPbufLost`). `doip_error` frees the session
   and not the chain in it (`DoIP.c:203`). The pool has 16.
2. **The echo server can stop the program** (`UnpackReturns`). `echoUnpack` takes a pbuf off
   only if it fits what is left of the storage, which is emptied after the loop
   (`tcp_echo.c:252`): a segment of more than 256 bytes is looked at for ever. By
   `SpinsOnlyWhenOverfull` it takes that, or a `tcp_write` that has failed before.
3. **A print in a handler can stop the program** (`WaitsForSpace`). `Asclin0_OutUart`
   clears TFL before it writes; a handler that prints in between waits for an event
   that has passed (`asclin.c:90`). `Can_RxIsrHandler` prints.
4. **A handler longer than 1 ms stops the lwIP timers for 43 s** (`TickWithinMs` with a
   long handler). The tick handler adds to the old compare value (`geth_lwip.c:50`).
   `Can_RxIsrHandler` prints 18 characters at 115200 baud, about 1.5 ms.
5. **A light is on for every odd value** (`OnOnlyForOne`). The comments at `someip.c:65` and
   `:72` say on for 1 and off otherwise; the byte is assigned to a port bit (`GPIO.c:30`), so its
   lowest bit decides.

What the passing runs' properties say is worth knowing too:

* **CAN reception can become deaf** (`RoomUnlessDeaf`, theorem `OnceDeaf`). The handler reads one
  message for each request (`can.c:159-169`). Messages that arrive while a request is pending stay
  behind. When they fill the FIFO, which blocks (`IfxCan_Can.c:670`), nothing is stored and nothing
  requests the handler, for good. `RoomUnlessDeaf` does not hold without its exception `Deaf`; the
  driver's own example reads for as long as the fill level is above zero (`IfxCan_Can.h:516`).
* **`tot_len` goes stale** (`TotLenIsStaleForAnswersOnly`). `doip_recv` sets `len` of an answered
  pbuf to 17 and leaves `tot_len` (`DoIP.c:165`), so the assertion of `pbuf_cat`
  (`pbuf.c:866`) fails when a request is chained behind an answer, and only then.
* **After a request longer than the answer a close is a reset**: `doip_send` reports the
  answer's 17 bytes as read (`DoIP.c:284`). `WindowComesBack` holds for shorter requests only.
* **A session is lost when no control block is left**: `doip_accept` ignores `err`
  (`DoIP.c:65`); the module's `esLeaked` counts it.
* **A light may be switched again after the response** by a request that was repeated, for
  nothing tells it from a new one (`someip.c:229`); `LightService` has to allow it.
* **A CAN FD message of a length no frame has** is followed by bytes of earlier messages
  (`canfd.c:140`; theorem `TailIsStale`).

## 6. What is proved

For every value of the constants that satisfies the modules' assumptions:

| theorem | states | argument |
|---|---|---|
| `LwipTimersProofs!TypeCorrect` | `TypeOK`: the counters stay below their periods | inductive as it stands; a counter that would reach its period is reset in the same tick |
| `LwipTimersProofs!CriticalSectionHolds` | between read and clear, interrupts are masked and the copy is current | inductive as stated: `ie` is false exactly at `read`, `clear`, `restore`, and `saved` is true there, so the handler's guard `ie` rules it out |
| `LwipTimersProofs!RefinesTimerService` | the code implements `TimerService` | `CriticalSection` is the invariant: the step that reads maps to `Fetch` because nothing can be raised before the clear; all other steps are `Tick`, `Dispatch` or stutter |
| `StmTickProofs!TypeCorrect` | types of the tick | - |
| `StmTickProofs!TickWithinMsHolds` | handlers of at most 1 ms never let the comparator fall behind | `TickWithinMs` is not inductive: how late a pending tick may be served depends on how long the other handler still runs. `Timely` adds `Lag`, the ticks since the match, and bounds its sum with `handler` by `MaxHandler` |
| `StmTickProofs!ClockIsRightHolds` | with handlers of at most 1 ms, the clock keeps the time through any number of laps | `Counted`: what has not been counted is the ten milliseconds before the first match, less what is left to the next one or plus what the requested one is late. An addition modulo the lap moves the match by a whole millisecond exactly because, by `Timely`, it never passes the timer |
| `EthRxProofs!TypeCorrect`, `PbufsConservedHolds` | no pbuf is lost in `ifx_netif_input` | pbufs are allocated for the length read from the descriptor, and the buffer is copied later: `Measured` (the descriptor stays the driver's until then) and `FilledWithFrames` make the two agree; conservation bounds the counters, so types and conservation are one invariant |
| `EthRxProofs!FilledInOrderHolds` | the filled descriptors are in a row from the one read next, and the DMA fills the one behind | `InRow`: measured from the driver's descriptor, the DMA is `w` places on and exactly the places nearer than `w` are filled; `Has` and `EmptyHanded` say what the driver has in hand at each place of the loop. That `w` is the number of filled descriptors is a lemma about cardinalities |
| `EthRxProofs!RefinesFrameFifo` | ring, driver and DMA implement `FrameFifo` | the abstract queue is the frames along that row: `Receive` appends, `Copy` takes the head, all else stutters |
| `CanConsoleProofs!ConsoleImplementsParts` | the composition implements `Uart`'s `Spec` and `CanRx`'s `RxSpec` | every step of the composition is a step or a stutter of each part; so each part's invariant is proved once, for the part |
| `CanConsoleProofs!TypeCorrect`, `NoOverrunHolds` | the FIFO never overruns | `NoOverrun` alone is not inductive: a thread past `Wait` writes whatever the FIFO holds by then. `Levels` bounds the FIFO for each pair of places the two threads can be at, given that a set flag means at most one character |
| `CanConsoleProofs!WaitsUnlessCaught` | there is one way only to wait for nothing | `EmptyOnlyBeforeWrite`: the flag is clear and the FIFO empty only when some thread is between clear and write |
| `TcpEchoProofs!TypeCorrect`, `HoldsNoPbufHolds`, `WindowIsWholeHolds`, `SpinsOnlyWhenOverfullHolds` | the copy stays within the storage; the pool has every pbuf back when a callback returns; closes are graceful; what it takes to spin | one invariant: the shape of a chain (distinct pbufs, the last ending it, one reference each but for the head's) decides what taking the first off does to the pool, and the sum of its lengths ties the window and the storage to what came |
| `TcpEchoProofs!RefinesEchoService` | the echo server implements `EchoService` | the abstract state is the storage followed by what the chain holds. `Sound` is added to the invariant: a callback that runs has something left to send, and a connection that begins has nothing from an earlier one. Each step is then an equation between sequences; a round of `echoUnpack` moves bytes from the chain to the storage and is a stutter |
| `CanConsoleProofs!ReadFindsMessageHolds`, `FlagIsAnnouncedHolds` | a message for each run of the handler; no arrival unannounced | together inductive: a request without a message would need the flag to be set twice for one |
| `CanConsoleProofs!OnceDeaf` | a CAN node that has become deaf stays so | per action, from the invariant: the backlog never shrinks, for reading takes one message and one run due, and it fills the FIFO already |
| `CanConsoleProofs!PrintsOnlyAfterRead` | the receive handler is in `my_printf` only between its read and its return, and owes a line per byte and two more at most | inductive as it stands; a fact about the composition only |
| `CanConsoleProofs!FrameLengthIsLeast`, `TailIsStale` | lengths and contents of CAN FD messages, for 0 to 64 bytes | by cases of the length codes |
| `SomeIpProofs!TypeCorrect`, `AnswersAreAskedHolds` | types; nobody is answered who has not asked | what is under way to the service was asked (`UpIsAsked`), so what it answers was too |
| `SomeIpProofs!RefinesLightService` | for clients that send no odd value but 1, the callbacks implement `LightService` | `DownIsDone`: a response under way to the call its client waits for was given after the call was carried out; a new call is none of those, for it was never made before |
| `DoIPProofs!SessionPerConnectionHolds` | a session exists exactly while callbacks can need it | `Sessions` adds to the property what the states of sessions and control blocks can be; nothing is needed of the chains |
| `DoIPProofs!TypeCorrect`, `NoDanglingPbufHolds`, `SentPbufsAreFreedHolds` | windows, reference counts and lengths stay in range; a session's pbufs are allocated and no other session's; every pbuf sent is free again | `DataInv`. `Apart`: chains share no pbuf with each other or with what connections that died have left allocated. `Good`, for each chain by itself: its pbufs are distinct and allocated. `doip_send` stays, in each of its rounds, among the states `GoodSends` describes, and by `Continues` a step that leaves one session's chain so disturbs no other's |
| `DoIPProofs!LockstepIsAnsweredHolds` | with a peer that waits for each answer, only answers go out | in `Good`: before a second request has come while one waited, the chain holds nothing but answers |
| `DoIPProofs!WindowComesBackHolds` | with requests no longer than the answer, everything received is reported | in `Good`: the window and the chain's length together are never less than the whole window, so a chain that is gone leaves it whole |
| `DoIPProofs!TotLenIsStaleForAnswersOnlyHolds` | `tot_len` is wrong in answers only | `TotLens`, in `Good`, for every pbuf of the chain and not only its first |

**Chains of any length.** `PbufProofs` carries what the two TCP servers share. The library's
induction rules take an operator and no prover here can instantiate them; `Induction` says
the same of a set of numbers that contains 0 and with each number its successor, and
follows from the well-foundedness of `<`. With it the sum of a chain's lengths
(`LengthSums`, `LengthOfTail`, `LengthOfConcat`), its contents (`ContentsIsLast`,
`ContentsOfTwo`) and any number of rounds of `doip_send` (`SendKeeps`) are proved. A recursive function is unfolded
by showing that some function satisfies its equation, and that any two that do agree.

**Assumptions.** The modules' assumptions are on sizes (a ring has two descriptors
or more, lengths are positive, the pool holds the largest frame) and on finiteness. `DoIP` also
assumes that `"request"` and `"answer"` are payloads of a pbuf (`MessagesAssumption`). No theorem bounds the number of
connections, pbufs, clients or descriptors. `WindowComesBack` carries its premise (short requests) in its
statement, `TickWithinMsHolds` and `ClockIsRightHolds` name theirs (handlers of at most a millisecond), as does
`RefinesLightService` (`OneIsTheOnlyOddValue`),
and the instances of section 4 satisfy them.

**What stays with TLC.** Every invariant, action property and refinement of section 4 that TLC
finds to hold is stated by one of these theorems. The liveness properties are not: fairness and
ENABLED are out of the prover's reach. They are `TimersServed`, `LinkConverges`, `FramesAreTaken`,
`DeferredIsSent`, `FinEndsSession`, `StoredIsEchoed`, `PrintReturns`, `AnnouncedIsRead`, `RoomUnlessDeaf`
and `Served`. The refinements that are proved are of the abstract modules' safety.

## 7. What is not modelled, and why

* **lwIP itself** is third-party. Its pbuf functions, and the conditions under which TCP
  calls a server and changes `rcv_wnd` and `snd_buf`, are modelled as the servers'
  environment; retransmission, ARP, IP and checksums are not.
* **Initialisation** (clock tree, pins, MAC, PHY, CAN node set-up) is a fixed sequence of
  register writes before anything concurrent starts. It fixes the initial states.
* **`DoIP`** leaves out branches no call of lwIP reaches; the module's head names them.
  Allocation of the session and the pbuf pool can fail; the heap's size is left open.
* **`TcpEcho`** leaves out branches for pbufs left in a session between callbacks; that
  there are none is `HoldsNoPbuf`, proved.
* **`EthRx`** leaves out frames of length 0, which the MAC does not pass on.
* **Transmission of frames** (`low_level_output`, `geth_sendETH`): which descriptor the DMA
  takes, and when after OWN is set and before the tail pointer is written, is fixed by
  its hardware; a model would rest on that and not on this code. The two hazards are listed.
* **Transmission of CAN messages** is one loop that ends when another node acknowledges.
* **`SomeIp`** leaves out datagrams too short for what the callbacks read, and the motors,
  which share the lights' pins: `main` never moves them.
* **The CAN gateway and the ultrasonic sensors** are not called by `main`. `getTimeUs` divides a
  64-bit count as a `float32`, so its resolution falls with the time since start
  (`stm.c:14`): a hazard of whoever uses it.
* **Bluetooth, ToF, ADC, UDP echo, motors' and LEDs' register writes**: not started by
  `main`, stateless, or straight-line writes.
* **Vendor libraries** (iLLD, Infra, Service) beyond the functions named above, and build
  output.

## 8. Plan

The order put first what every other part depends on: the timers and the tick, the
diagnostics server, reception, the console; then the echo server, CAN reception with the
console, and SOME/IP. What `main` runs and is concurrent or ordered is now modelled,
except transmission (section 7).

Next:

1. `Board`: `StmTick` and `LwipTimers` composed, so that the fairness `LwipTimers` assumes of the
   comparator becomes a result.
2. A theorem for what the liveness properties rest on: that no state but the known ones blocks the
   main loop (the guard of some step of `LwipTimers`, `EthRx` and `TcpEcho` holds in each).
3. `Gateway` and `Ultrasonic`, if `main` comes to use them.
