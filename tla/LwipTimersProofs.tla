-------------------------- MODULE LwipTimersProofs --------------------------
(***************************************************************************)
(* Proofs about LwipTimers for every choice of the periods: the types, the *)
(* critical section of Ifx_Lwip_pollTimerFlags, and the refinement of the  *)
(* atomic TimerService.                                                    *)
(***************************************************************************)
EXTENDS LwipTimers, TLAPS

\* The remainder used for the wrapping tick count stays below the modulus.
LEMMA ModuloRange == \A a \in Nat, n \in Nat \ {0} : a % n \in 0 .. n - 1
OBVIOUS

\* A tick leaves every counter of Ifx_Lwip_onTimerTick below its period.
LEMMA TickCounterType ==
    ASSUME TypeOK, Ifx_Lwip_onTimerTick
    PROVE  /\ counter' \in [Timers -> Nat]
           /\ \A t \in Timers : counter'[t] < Period[t]
           /\ timerFlags' \subseteq Timers
<1>1. counter' \in [Timers -> Nat]
  BY DEF TypeOK, Ifx_Lwip_onTimerTick
<1>2. \A t \in Timers : counter'[t] < Period[t]
  BY PeriodAssumption DEF TypeOK, Ifx_Lwip_onTimerTick, Expires
<1>3. timerFlags' \subseteq Timers
  BY DEF TypeOK, Ifx_Lwip_onTimerTick
<1> QED BY <1>1, <1>2, <1>3

\* Type correctness of the timer state: the counters of the tick handler stay
\* below their periods and the flags are flags of compiled-in timers.
THEOREM TypeCorrect == Spec => []TypeOK
<1>1. Init => TypeOK
  <2> SUFFICES ASSUME Init PROVE TypeOK
    OBVIOUS
  <2>1. counter \in [Timers -> Nat] /\ \A t \in Timers : counter[t] < Period[t]
    BY PeriodAssumption DEF Init
  <2>2. timerFlags \subseteq Timers /\ local \subseteq Timers
    BY DEF Init
  <2>3. g_TickCount_1ms \in 0 .. TickModulus - 1
    BY TickModulusAssumption DEF Init
  <2> QED BY <2>1, <2>2, <2>3 DEF Init, TypeOK, Pcs
<1>2. TypeOK /\ [Next]_vars => TypeOK'
  <2> SUFFICES ASSUME TypeOK, [Next]_vars PROVE TypeOK'
    OBVIOUS
  <2>1. CASE StmMatch
    BY <2>1 DEF StmMatch, TypeOK, mainVars, linkVars
  <2>2. CASE updateLwIPStackISR
    <3>1. g_TickCount_1ms' \in 0 .. TickModulus - 1
      BY <2>2, ModuloRange, TickModulusAssumption DEF updateLwIPStackISR, TypeOK
    <3>2. Ifx_Lwip_onTimerTick
      BY <2>2 DEF updateLwIPStackISR
    <3> QED BY <2>2, <3>1, <3>2, TickCounterType
            DEF updateLwIPStackISR, TypeOK, mainVars, linkVars
  <2>3. CASE MainStep
    <3> USE DEF TypeOK, isrVars, linkVars, Pcs
    <3>1. CASE DisableInterrupts  BY <3>1 DEF DisableInterrupts
    <3>2. CASE ReadFlags  BY <3>2 DEF ReadFlags
    <3>3. CASE ClearFlags  BY <3>3 DEF ClearFlags
    <3>4. CASE RestoreInterrupts  BY <3>4 DEF RestoreInterrupts, ServicePcs
    <3>5. ASSUME NEW t \in ServicePcs, ServiceTimer(t) PROVE TypeOK'
      <4>1. After[t] \in Pcs
        BY DEF After, ServicePcs
      <4> QED BY <3>5, <4>1 DEF ServiceTimer
    <3>6. CASE ReadPhyStatus  BY <3>6 DEF ReadPhyStatus
    <3>7. CASE SetLink  BY <3>7 DEF SetLink
    <3>8. CASE SkipLink  BY <3>8 DEF SkipLink
    <3>9. CASE PollReceive  BY <3>9 DEF PollReceive
    <3> QED BY <2>3, <3>1, <3>2, <3>3, <3>4, <3>5, <3>6, <3>7, <3>8, <3>9 DEF MainStep
  <2>4. CASE PhyChanges
    BY <2>4 DEF PhyChanges, TypeOK, isrVars, mainVars, linkVars
  <2>5. CASE UNCHANGED vars
    BY <2>5 DEF vars, TypeOK
  <2> QED BY <2>1, <2>2, <2>3, <2>4, <2>5 DEF Next
<1> QED BY <1>1, <1>2, PTL DEF Spec

\* The critical section of Ifx_Lwip_pollTimerFlags: interrupts are masked in
\* it and only in it, and the copy it clears is the current set of flags.
THEOREM CriticalSectionHolds == Spec => []CriticalSection
<1>1. Init => CriticalSection
  BY DEF Init, CriticalSection
<1>2. CriticalSection /\ [Next]_vars => CriticalSection'
  <2> SUFFICES ASSUME CriticalSection, [Next]_vars PROVE CriticalSection'
    OBVIOUS
  <2> USE DEF CriticalSection
  <2>1. CASE StmMatch
    BY <2>1 DEF StmMatch, mainVars
  <2>2. CASE updateLwIPStackISR
    BY <2>2 DEF updateLwIPStackISR, mainVars
  <2>3. CASE MainStep
    <3>1. CASE DisableInterrupts  BY <3>1 DEF DisableInterrupts
    <3>2. CASE ReadFlags  BY <3>2 DEF ReadFlags
    <3>3. CASE ClearFlags  BY <3>3 DEF ClearFlags
    <3>4. CASE RestoreInterrupts  BY <3>4 DEF RestoreInterrupts
    <3>5. ASSUME NEW t \in ServicePcs, ServiceTimer(t) PROVE CriticalSection'
      <4>1. pc' \in {"tcp_slow", "arp", "link"} /\ pc \in {"tcp_fast", "tcp_slow", "arp"}
        BY <3>5 DEF ServiceTimer, After, ServicePcs
      <4> QED BY <3>5, <4>1 DEF ServiceTimer
    <3>6. CASE ReadPhyStatus  BY <3>6 DEF ReadPhyStatus
    <3>7. CASE SetLink  BY <3>7 DEF SetLink
    <3>8. CASE SkipLink  BY <3>8 DEF SkipLink
    <3>9. CASE PollReceive  BY <3>9 DEF PollReceive
    <3> QED BY <2>3, <3>1, <3>2, <3>3, <3>4, <3>5, <3>6, <3>7, <3>8, <3>9 DEF MainStep
  <2>4. CASE PhyChanges
    BY <2>4 DEF PhyChanges, mainVars
  <2>5. CASE UNCHANGED vars
    BY <2>5 DEF vars
  <2> QED BY <2>1, <2>2, <2>3, <2>4, <2>5 DEF Next
<1> QED BY <1>1, <1>2, PTL DEF Spec

\* The test of a flag in the main loop dispatches that timer, if the local
\* copy holds it, and is invisible to TimerService otherwise.
LEMMA ServiceTimerStep ==
    ASSUME TypeOK, NEW t \in ServicePcs, ServiceTimer(t)
    PROVE  \/ Service!Dispatch(t)
           \/ UNCHANGED <<counter, Unfetched, Untested>>
<1>1. Unfetched' = Unfetched /\ counter' = counter
  BY DEF ServiceTimer, Unfetched, isrVars, After, ServicePcs
<1>2. Untested' = Untested \ {t}
  <2>1. CASE t = "tcp_fast"
    BY <2>1 DEF ServiceTimer, After, Untested
  <2>2. CASE t = "tcp_slow"
    BY <2>2 DEF ServiceTimer, After, Untested
  <2>3. CASE t = "arp"
    BY <2>3 DEF ServiceTimer, After, Untested, TypeOK, Timers
  <2> QED BY <2>1, <2>2, <2>3 DEF ServicePcs
<1>3. CASE t \in Untested
  BY <1>1, <1>2, <1>3 DEF Service!Dispatch
<1>4. CASE t \notin Untested
  BY <1>1, <1>2, <1>4
<1> QED BY <1>3, <1>4

\* The read-and-clear of pollTimerFlags, spread over four interruptible steps,
\* implements the atomic Fetch of TimerService, and the interrupt its Tick.
THEOREM RefinesTimerService == Spec => ImplementsService
<1> DEFINE Inv == TypeOK /\ CriticalSection
<1>1. Init => Service!ServiceInit
  BY DEF Init, Service!ServiceInit, Unfetched, Untested
<1>2. Inv /\ [Next]_vars => [Service!ServiceNext]_Service!svars
  <2> SUFFICES ASSUME TypeOK, CriticalSection, [Next]_vars
               PROVE  Service!ServiceNext \/ UNCHANGED <<counter, Unfetched, Untested>>
    BY DEF Service!svars
  <2>1. CASE StmMatch
    BY <2>1 DEF StmMatch, mainVars, Unfetched, Untested
  <2>2. CASE updateLwIPStackISR
    <3>1. pc # "clear" /\ pc' = pc /\ local' = local
      BY <2>2 DEF updateLwIPStackISR, CriticalSection, mainVars
    <3>2. Untested' = Untested /\ Unfetched = timerFlags /\ Unfetched' = timerFlags'
      BY <3>1 DEF Untested, Unfetched
    <3>3. Service!Tick
      BY <2>2, <3>2 DEF updateLwIPStackISR, Ifx_Lwip_onTimerTick, Expires,
                        Service!Tick, Service!ExpiresNow
    <3> QED BY <3>3 DEF Service!ServiceNext
  <2>3. CASE MainStep
    <3>1. CASE DisableInterrupts
      BY <3>1 DEF DisableInterrupts, isrVars, Unfetched, Untested
    <3>2. CASE ReadFlags
      <4>1. Service!Fetch
        BY <3>2 DEF ReadFlags, isrVars, Unfetched, Untested, Service!Fetch
      <4> QED BY <4>1 DEF Service!ServiceNext
    <3>3. CASE ClearFlags
      BY <3>3 DEF ClearFlags, isrVars, Unfetched, Untested
    <3>4. CASE RestoreInterrupts
      BY <3>4 DEF RestoreInterrupts, isrVars, Unfetched, Untested
    <3>5. ASSUME NEW t \in ServicePcs, ServiceTimer(t)
          PROVE  Service!ServiceNext \/ UNCHANGED <<counter, Unfetched, Untested>>
      <4>1. t \in Timers
        BY DEF ServicePcs, Timers
      <4> QED BY <3>5, <4>1, ServiceTimerStep DEF Service!ServiceNext
    <3>6. CASE ReadPhyStatus
      BY <3>6 DEF ReadPhyStatus, isrVars, Unfetched, Untested
    <3>7. CASE SetLink
      <4>1. counter' = counter /\ Unfetched' = Unfetched
        BY <3>7 DEF SetLink, isrVars, Unfetched
      <4>2. Untested = {"link"} /\ Untested' = {}
        BY <3>7 DEF SetLink, Untested, CriticalSection
      <4>3. Service!Dispatch("link")
        BY <4>1, <4>2 DEF Service!Dispatch
      <4> QED BY <4>3 DEF Service!ServiceNext, Timers
    <3>8. CASE SkipLink
      BY <3>8 DEF SkipLink, isrVars, Unfetched, Untested
    <3>9. CASE PollReceive
      BY <3>9 DEF PollReceive, isrVars, Unfetched, Untested
    <3> QED BY <2>3, <3>1, <3>2, <3>3, <3>4, <3>5, <3>6, <3>7, <3>8, <3>9 DEF MainStep
  <2>4. CASE PhyChanges
    BY <2>4 DEF PhyChanges, isrVars, mainVars, Unfetched, Untested
  <2>5. CASE UNCHANGED vars
    BY <2>5 DEF vars, Unfetched, Untested
  <2> QED BY <2>1, <2>2, <2>3, <2>4, <2>5 DEF Next
<1>3. Spec => []Inv
  BY TypeCorrect, CriticalSectionHolds, PTL
<1>4. Spec => Service!ServiceSpec
  BY <1>1, <1>2, <1>3, PTL DEF Spec, Service!ServiceSpec
<1> QED BY <1>4 DEF ImplementsService
=============================================================================
