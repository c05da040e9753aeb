---------------------------- MODULE TimerService ----------------------------
(***************************************************************************)
(* What the lwIP port promises about its periodic timers: every 1 ms tick  *)
(* advances one counter per timer; a counter that reaches its period       *)
(* raises that timer; the main loop takes ALL raised timers in one atomic  *)
(* step and then dispatches each of the ones it took exactly once.         *)
(* LwipTimers shows that the interrupt handler and the polling code of     *)
(* Libraries/Ethernet/lwip/port/src/Ifx_Lwip.c implement it.               *)
(***************************************************************************)
EXTENDS Naturals

CONSTANTS
    Timers,     \* the periodic timers
    Period      \* Period[t]: ticks between two expiries of timer t

VARIABLES
    counter,    \* counter[t]: ticks since t expired last
    raised,     \* timers that expired and that the main loop has not taken
    fetched     \* timers the main loop took and has not dispatched yet

svars == <<counter, raised, fetched>>

ExpiresNow(t) == counter[t] + 1 >= Period[t]

ServiceInit ==
    /\ counter = [t \in Timers |-> 0]
    /\ raised = {}
    /\ fetched = {}

\* One millisecond passes.
Tick ==
    /\ counter' = [t \in Timers |-> IF ExpiresNow(t) THEN 0 ELSE counter[t] + 1]
    /\ raised' = raised \cup {t \in Timers : ExpiresNow(t)}
    /\ UNCHANGED fetched

\* The main loop takes everything that is raised, in one step.
Fetch ==
    /\ fetched = {}
    /\ fetched' = raised
    /\ raised' = {}
    /\ UNCHANGED counter

Dispatch(t) ==
    /\ t \in fetched
    /\ fetched' = fetched \ {t}
    /\ UNCHANGED <<counter, raised>>

ServiceNext == Tick \/ Fetch \/ \E t \in Timers : Dispatch(t)

ServiceSpec == ServiceInit /\ [][ServiceNext]_svars
=============================================================================
