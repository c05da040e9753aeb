----------------------------- MODULE LwipTimers -----------------------------
(***************************************************************************)
(* The periodic timers of the lwIP port.  Two actors share                 *)
(* g_Lwip.timerFlags on one core: the 1 ms STM interrupt                   *)
(* (updateLwIPStackISR, which runs to completion: the CPU clears ICR.IE on *)
(* interrupt entry and no handler sets it again) and the main loop, which  *)
(* can be interrupted between any two of its steps while ICR.IE is set.    *)
(* A third actor, the PHY, changes its link state at any time.             *)
(***************************************************************************)
EXTENDS Naturals

CONSTANTS
    Period,         \* Period[t]: IFX_LWIP_*_PERIOD of timer t, in ticks
    Modes,          \* speed and duplex settings the PHY may negotiate
    TickModulus     \* g_TickCount_1ms wraps here (2^32 in the code)

\* The timers compiled in (LWIP_DHCP is 0 in lwipopts.h).
Timers == {"tcp_fast", "tcp_slow", "arp", "link"}

ASSUME PeriodAssumption == Period \in [Timers -> Nat \ {0}]
ASSUME ModesAssumption == Modes # {}
ASSUME TickModulusAssumption == TickModulus \in Nat \ {0}

VARIABLES
    counter,            \* lwip->timer: one counter per timer
    timerFlags,         \* lwip->timerFlags, as the set of raised timers
    g_TickCount_1ms,    \* what sys_now() returns
    tickPending,        \* STM compare matched, interrupt not served yet
    ie,                 \* ICR.IE
    pc,                 \* where the main loop is
    saved,              \* interruptState of Ifx_Lwip_pollTimerFlags
    local,              \* the local timerFlags of Ifx_Lwip_pollTimerFlags
    linkUp,             \* netif.flags & NETIF_FLAG_LINK_UP
    mac,                \* speed and duplex the MAC is set to
    statusMode,         \* LNKSPEED and LNKMOD of the status word being read
    phy                 \* the PHY: is the link up, and in which mode

mainVars == <<pc, saved, local>>
isrVars  == <<counter, g_TickCount_1ms, tickPending>>
linkVars == <<linkUp, mac, statusMode>>
vars     == <<counter, timerFlags, g_TickCount_1ms, tickPending, ie,
              pc, saved, local, linkUp, mac, statusMode, phy>>

ServicePcs == {"tcp_fast", "tcp_slow", "arp"}
Pcs == ServicePcs \cup {"disable", "read", "clear", "restore", "link", "bmsr", "receive"}

TypeOK ==
    /\ counter \in [Timers -> Nat]
    /\ \A t \in Timers : counter[t] < Period[t]
    /\ timerFlags \subseteq Timers
    /\ g_TickCount_1ms \in 0 .. TickModulus - 1
    /\ tickPending \in BOOLEAN
    /\ ie \in BOOLEAN
    /\ pc \in Pcs
    /\ saved \in BOOLEAN
    /\ local \subseteq Timers
    /\ linkUp \in BOOLEAN
    /\ mac \in Modes
    /\ statusMode \in Modes
    /\ phy \in [up : BOOLEAN, mode : Modes]

\* main() about to enter its loop: initLwip has armed the STM compare and
\* low_level_init has set the MAC up, with the link flag set or not.
Init ==
    /\ counter = [t \in Timers |-> 0]
    /\ timerFlags = {}
    /\ g_TickCount_1ms = 0
    /\ tickPending = FALSE
    /\ ie = TRUE
    /\ pc = "disable"
    /\ saved = TRUE
    /\ local = {}
    /\ linkUp \in BOOLEAN
    /\ mac \in Modes
    /\ statusMode \in Modes
    /\ phy \in [up : BOOLEAN, mode : Modes]

-----------------------------------------------------------------------------
(* The 1 ms interrupt.                                                     *)

\* The STM reaches the compare value.  The handler moves the compare value,
\* so there is no second match before it has run.
StmMatch ==
    /\ ~ tickPending
    /\ tickPending' = TRUE
    /\ UNCHANGED <<counter, timerFlags, g_TickCount_1ms, ie, mainVars, linkVars, phy>>

\* Mutant of Expires: > for >= in the macro.
ExpiresLate(t) == counter[t] + 1 > Period[t]

\* The macro Ifx_Lwip_timerIncr: does the increment reach PERIOD?
Expires(t) == counter[t] + 1 >= Period[t]

Ifx_Lwip_onTimerTick ==
    /\ counter' = [t \in Timers |-> IF Expires(t) THEN 0 ELSE counter[t] + 1]
    /\ timerFlags' = timerFlags \cup {t \in Timers : Expires(t)}

updateLwIPStackISR ==
    /\ ie
    /\ tickPending
    /\ tickPending' = FALSE
    /\ g_TickCount_1ms' = (g_TickCount_1ms + 1) % TickModulus
    /\ Ifx_Lwip_onTimerTick
    /\ UNCHANGED <<ie, mainVars, linkVars, phy>>

-----------------------------------------------------------------------------
(* The main loop: Ifx_Lwip_pollTimerFlags, then Ifx_Lwip_pollReceiveFlags. *)

\* Mutant of DisableInterrupts: pollTimerFlags does not mask interrupts.
NoDisableInterrupts ==
    /\ pc = "disable"
    /\ saved' = ie
    /\ ie' = ie
    /\ pc' = "read"
    /\ UNCHANGED <<isrVars, timerFlags, local, linkVars, phy>>

\* boolean interruptState = IfxCpu_disableInterrupts();
DisableInterrupts ==
    /\ pc = "disable"
    /\ saved' = ie
    /\ ie' = FALSE
    /\ pc' = "read"
    /\ UNCHANGED <<isrVars, timerFlags, local, linkVars, phy>>

ReadFlags ==
    /\ pc = "read"
    /\ local' = timerFlags
    /\ pc' = "clear"
    /\ UNCHANGED <<isrVars, timerFlags, ie, saved, linkVars, phy>>

\* Mutant of ClearFlags: the flags are not reset.
KeepFlags ==
    /\ pc = "clear"
    /\ pc' = "restore"
    /\ UNCHANGED <<isrVars, timerFlags, ie, saved, local, linkVars, phy>>

ClearFlags ==
    /\ pc = "clear"
    /\ timerFlags' = {}
    /\ pc' = "restore"
    /\ UNCHANGED <<isrVars, ie, saved, local, linkVars, phy>>

\* Mutant of RestoreInterrupts: the interrupt state is not restored.
NoRestoreInterrupts ==
    /\ pc = "restore"
    /\ ie' = ie
    /\ pc' = "tcp_fast"
    /\ UNCHANGED <<isrVars, timerFlags, saved, local, linkVars, phy>>

RestoreInterrupts ==
    /\ pc = "restore"
    /\ ie' = saved
    /\ pc' = "tcp_fast"
    /\ UNCHANGED <<isrVars, timerFlags, saved, local, linkVars, phy>>

After == [tcp_fast |-> "tcp_slow", tcp_slow |-> "arp", arp |-> "link"]

\* Does the test of flag t at pc = t call the lwIP timer function?
Calls(t) == pc = t /\ t \in local /\ linkUp

\* The tests of the TCP_FAST, TCP_SLOW and ARP flags.  The timer functions
\* they call when the link is up change nothing modelled here.
ServiceTimer(t) ==
    /\ pc = t
    /\ pc' = After[t]
    /\ UNCHANGED <<isrVars, timerFlags, ie, saved, local, linkVars, phy>>

\* The LINK flag is set: the PHYSTS register gives speed and duplex ...
ReadPhyStatus ==
    /\ pc = "link"
    /\ "link" \in local
    /\ statusMode' = phy.mode
    /\ pc' = "bmsr"
    /\ UNCHANGED <<isrVars, timerFlags, ie, saved, local, linkUp, mac, phy>>

\* Mutant of SetLink: the MAC is set up only when the link comes up.
SetLinkOnce ==
    /\ pc = "bmsr"
    /\ linkUp' = phy.up
    /\ mac' = IF phy.up /\ ~ linkUp THEN statusMode ELSE mac
    /\ pc' = "receive"
    /\ UNCHANGED <<isrVars, timerFlags, ie, saved, local, statusMode, phy>>

\* ... and then BMSR tells whether the link is up.
SetLink ==
    /\ pc = "bmsr"
    /\ linkUp' = phy.up
    /\ mac' = IF phy.up THEN statusMode ELSE mac
    /\ pc' = "receive"
    /\ UNCHANGED <<isrVars, timerFlags, ie, saved, local, statusMode, phy>>

SkipLink ==
    /\ pc = "link"
    /\ "link" \notin local
    /\ pc' = "receive"
    /\ UNCHANGED <<isrVars, timerFlags, ie, saved, local, linkVars, phy>>

\* Ifx_Lwip_pollReceiveFlags handles one frame (module EthRx), then the
\* loop starts over.
PollReceive ==
    /\ pc = "receive"
    /\ pc' = "disable"
    /\ UNCHANGED <<isrVars, timerFlags, ie, saved, local, linkVars, phy>>

MainStep ==
    \/ DisableInterrupts
    \/ ReadFlags
    \/ ClearFlags
    \/ RestoreInterrupts
    \/ \E t \in ServicePcs : ServiceTimer(t)
    \/ ReadPhyStatus
    \/ SetLink
    \/ SkipLink
    \/ PollReceive

-----------------------------------------------------------------------------
\* The cable is plugged, unplugged or the link is negotiated again.
PhyChanges ==
    /\ phy' \in [up : BOOLEAN, mode : Modes]
    /\ UNCHANGED <<isrVars, timerFlags, ie, mainVars, linkVars>>

Next == StmMatch \/ updateLwIPStackISR \/ MainStep \/ PhyChanges

Spec == Init /\ [][Next]_vars

\* The STM runs; a pending interrupt is taken when ICR.IE is set, which the
\* main loop clears and sets again all the time (hence SF); main() never
\* returns.  Nothing is assumed of the PHY.
Fairness ==
    /\ WF_vars(StmMatch)
    /\ SF_vars(updateLwIPStackISR)
    /\ WF_vars(MainStep)

FairSpec == Spec /\ Fairness

-----------------------------------------------------------------------------
(* Properties.                                                             *)

\* The local copy of the flags that pollTimerFlags has not tested yet.
Untested ==
    CASE pc \in {"clear", "restore", "tcp_fast"} -> local
      [] pc = "tcp_slow" -> local \ {"tcp_fast"}
      [] pc = "arp" -> local \ {"tcp_fast", "tcp_slow"}
      [] pc \in {"link", "bmsr"} -> local \cap {"link"}
      [] OTHER -> {}

\* Between the read and the clear, timerFlags is already taken.
Unfetched == IF pc = "clear" THEN {} ELSE timerFlags

Service == INSTANCE TimerService WITH raised <- Unfetched, fetched <- Untested

\* Refinement: no expiry raised by the tick handler is lost or served twice
\* by the read-and-clear of pollTimerFlags, which acts as one atomic step.
ImplementsService == Service!ServiceSpec

\* The critical section of pollTimerFlags: while it holds a copy of the flags
\* that it has not cleared yet, interrupts are masked and the copy is current,
\* and they are masked nowhere else.
CriticalSection ==
    /\ ~ ie <=> pc \in {"read", "clear", "restore"}
    /\ pc \in {"read", "clear", "restore"} => saved
    /\ pc = "clear" => local = timerFlags
    /\ pc = "bmsr" => "link" \in local

\* When the PHY keeps its link up, each lwIP timer function is called again
\* and again, however the tick interrupts the main loop.
TimersServed ==
    \A t \in ServicePcs : <>[](phy.up) => []<><<ServiceTimer(t) /\ Calls(t)>>_vars

\* When the PHY stops changing, netif and MAC end up agreeing with it, also
\* when it changed between the two register reads of a link poll.
LinkConverges ==
    \A up \in BOOLEAN, m \in Modes :
        <>[](phy = [up |-> up, mode |-> m]) =>
            <>[](linkUp = up /\ (up => mac = m))
=============================================================================
