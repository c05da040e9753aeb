------------------------------ MODULE StmTick ------------------------------
(***************************************************************************)
(* The millisecond tick of the lwIP port (BSW/Driver/geth_lwip.c): a       *)
(* comparator of the free-running system timer, moved on by its own        *)
(* interrupt handler.  A match is an equality; interrupt handlers do not   *)
(* nest, so another handler delays this one.                               *)
(***************************************************************************)
EXTENDS Integers

CONSTANTS
    Modulus,        \* the timer counts modulo this (2^32)
    TicksPerMs,     \* IFX_CFG_STM_TICKS_PER_MS
    MaxHandler      \* the longest other interrupt handler, in ticks

ASSUME TicksAssumption ==
    /\ TicksPerMs \in Nat \ {0}
    /\ MaxHandler \in Nat
    /\ Modulus \in Nat
    /\ 10 * TicksPerMs < Modulus

VARIABLES
    TIM0,           \* the timer
    CMP,            \* the comparator
    pending,        \* is the tick interrupt requested?
    handler,        \* ticks the other handler still runs at most; 0: none runs
    ticked,         \* has there been a first tick?
    uncounted       \* history: the time since the start, in ticks of the timer,
                    \* that g_TickCount_1ms has not counted

vars == <<TIM0, CMP, pending, handler, ticked, uncounted>>

TypeOK ==
    /\ {TIM0, CMP} \subseteq 0 .. Modulus - 1
    /\ {pending, ticked} \subseteq BOOLEAN
    /\ handler \in 0 .. MaxHandler
    /\ uncounted \in Int

\* After initStmForLwip: the first interrupt shall occur after 10 ms.
Init ==
    /\ TIM0 = 0
    /\ CMP = 10 * TicksPerMs
    /\ pending = FALSE
    /\ handler = 0
    /\ ticked = FALSE
    /\ uncounted = 0

\* Mutants of increaseCompare: relative to the timer, or one tick too far.
increaseCompareFromNow(cmp, now) == (now + TicksPerMs) % Modulus
increaseCompareLate(cmp, now) == (cmp + TicksPerMs + 1) % Modulus

\* IfxStm_increaseCompare: CMPVAL = CMPVAL + ticks.
increaseCompare(cmp, now) == (cmp + TicksPerMs) % Modulus

\* Time passes; a request that can be served is served first.
Count ==
    /\ handler > 0 \/ ~ pending
    /\ TIM0' = (TIM0 + 1) % Modulus
    /\ pending' = (pending \/ TIM0' = CMP)
    /\ handler' = IF handler > 0 THEN handler - 1 ELSE 0
    /\ uncounted' = uncounted + 1
    /\ UNCHANGED <<CMP, ticked>>

\* Another handler starts: no handler runs, and no tick, which has the higher
\* priority, is requested.
OtherHandler ==
    /\ handler = 0 /\ ~ pending
    /\ handler' \in 1 .. MaxHandler
    /\ UNCHANGED <<TIM0, CMP, pending, ticked, uncounted>>

\* updateLwIPStackISR, which counts a millisecond: g_TickCount_1ms++.
updateLwIPStackISR ==
    /\ pending /\ handler = 0
    /\ CMP' = increaseCompare(CMP, TIM0)
    /\ pending' = (CMP' = TIM0)
    /\ ticked' = TRUE
    /\ uncounted' = uncounted - TicksPerMs
    /\ UNCHANGED <<TIM0, handler>>

Next == Count \/ OtherHandler \/ updateLwIPStackISR

Spec == Init /\ [][Next]_vars

-----------------------------------------------------------------------------
\* Ticks to the next match.
Ahead == (CMP - TIM0) % Modulus

\* geth_lwip.c:54: every millisecond the lwIP timers are increased.
\* The next tick is at most a millisecond away, or requested: the comparator
\* never falls behind the timer, from where it would be reached only when the
\* timer has gone around (43 s).  So it is as long as no other handler runs for
\* more than a millisecond; Can_RxIsrHandler, which prints 18 characters at
\* 115200 baud, runs for a millisecond and a half.
TickWithinMs == ticked => pending \/ Ahead <= TicksPerMs

\* sys_now, Ifx_Lwip.c:422, the current time in milliseconds: as long as no
\* other handler runs for more than a millisecond, it is behind the time since
\* the start by the same ten milliseconds, give or take one, for ever.  Neither
\* the delays of the tick add up nor is time lost or gained where the timer
\* and the comparator wrap around, though a lap is no whole number of
\* milliseconds (2^32 ticks of 100000 to one).
ClockIsRight ==
    /\ 0 <= uncounted /\ uncounted <= 11 * TicksPerMs
    /\ ticked => 9 * TicksPerMs <= uncounted
=============================================================================
