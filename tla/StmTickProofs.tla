--------------------------- MODULE StmTickProofs ---------------------------
(***************************************************************************)
(* TickWithinMs and ClockIsRight for every width of the timer and every    *)
(* length of a millisecond, from the assumption that no handler runs for   *)
(* longer than a millisecond.                                              *)
(*                                                                         *)
(* TickWithinMs is not inductive: how far ahead the comparator is after    *)
(* the handler has moved it depends on how late the handler ran, which the *)
(* ticks that the other handler has still to run bound.  The time that has *)
(* not been counted follows from where the comparator is: what the handler *)
(* takes off is how far the next match moves (Counted).                    *)
(***************************************************************************)
EXTENDS StmTick, TLAPS

\* Ticks since the last match.
Lag == (TIM0 - CMP) % Modulus

\* No match has passed unserved: the next one is ahead, or the requested one
\* is no further back than the other handler can have taken.
Timely ==
    /\ ~ pending => 1 <= Ahead /\ Ahead <= (IF ticked THEN TicksPerMs ELSE 10 * TicksPerMs)
    /\ pending => Lag + handler <= MaxHandler

\* At a match ten milliseconds are not counted: those of the first one, whose
\* handler has counted one, or has not yet.
Counted ==
    /\ ~ pending => uncounted = 10 * TicksPerMs - Ahead
    /\ pending => uncounted = 10 * TicksPerMs + Lag

\* A remainder is below the modulus.
LEMMA Remainder == \A a \in Nat, n \in Nat \ {0} : a % n \in 0 .. n - 1
OBVIOUS

\* Adding and subtracting on a clock face of n hours.
LEMMA Plus ==
    \A n \in Nat \ {0} : \A a \in 0 .. n - 1, k \in 0 .. n - 1 :
        (a + k) % n = IF a + k < n THEN a + k ELSE a + k - n
OBVIOUS

LEMMA Minus ==
    \A n \in Nat \ {0} : \A a \in 0 .. n - 1, b \in 0 .. n - 1 :
        (a - b) % n = IF a >= b THEN a - b ELSE a - b + n
OBVIOUS

\* The distances between timer and comparator.
LEMMA Distances ==
    ASSUME TypeOK
    PROVE  /\ Ahead = IF CMP >= TIM0 THEN CMP - TIM0 ELSE CMP - TIM0 + Modulus
           /\ Lag = IF TIM0 >= CMP THEN TIM0 - CMP ELSE TIM0 - CMP + Modulus
<1>1. /\ TIM0 \in 0 .. Modulus - 1 /\ CMP \in 0 .. Modulus - 1
      /\ Modulus \in Nat \ {0}
  BY TicksAssumption DEF TypeOK
<1>2. Ahead = IF CMP >= TIM0 THEN CMP - TIM0 ELSE CMP - TIM0 + Modulus
  BY <1>1, Minus DEF Ahead
<1>3. Lag = IF TIM0 >= CMP THEN TIM0 - CMP ELSE TIM0 - CMP + Modulus
  BY <1>1, Minus DEF Lag
<1> QED BY <1>2, <1>3

\* The state after initStmForLwip.
LEMMA InitType == Init => TypeOK
<1> SUFFICES ASSUME Init PROVE TypeOK
  OBVIOUS
<1>1. {pending, ticked} \subseteq BOOLEAN
  BY Zenon DEF Init
<1>2. TIM0 = 0 /\ CMP = 10 * TicksPerMs /\ handler = 0 /\ uncounted = 0
  BY DEF Init
<1>3. {TIM0, CMP} \subseteq 0 .. Modulus - 1 /\ handler \in 0 .. MaxHandler
  BY <1>2, TicksAssumption
<1> QED BY <1>1, <1>2, <1>3 DEF TypeOK

\* The timer and the comparator wrap around.
LEMMA NextType == TypeOK /\ [Next]_vars => TypeOK'
<1> SUFFICES ASSUME TypeOK, [Next]_vars PROVE TypeOK'
  OBVIOUS
<1>1. CASE Count
  <2>1. TIM0' \in 0 .. Modulus - 1
    <3>1. TIM0 + 1 \in Nat /\ Modulus \in Nat \ {0} /\ TIM0' = (TIM0 + 1) % Modulus
      BY <1>1, TicksAssumption DEF Count, TypeOK
    <3> QED BY <3>1, Remainder
  <2>2. {pending, ticked}' \subseteq BOOLEAN
    BY <1>1, Zenon DEF Count, TypeOK
  <2>3. handler' \in 0 .. MaxHandler /\ CMP' = CMP /\ uncounted' \in Int
    BY <1>1, TicksAssumption DEF Count, TypeOK
  <2> QED BY <2>1, <2>2, <2>3 DEF TypeOK
<1>2. CASE OtherHandler
  BY <1>2, TicksAssumption DEF OtherHandler, TypeOK
<1>3. CASE updateLwIPStackISR
  <2>1. CMP' \in 0 .. Modulus - 1
    <3>1. /\ CMP + TicksPerMs \in Nat /\ Modulus \in Nat \ {0}
          /\ CMP' = (CMP + TicksPerMs) % Modulus
      BY <1>3, TicksAssumption DEF updateLwIPStackISR, increaseCompare, TypeOK
    <3> QED BY <3>1, Remainder
  <2>2. {pending, ticked}' \subseteq BOOLEAN
    BY <1>3, Zenon DEF updateLwIPStackISR
  <2>3. TIM0' = TIM0 /\ handler' = handler /\ uncounted' \in Int
    BY <1>3, TicksAssumption DEF updateLwIPStackISR, TypeOK
  <2> QED BY <2>1, <2>2, <2>3 DEF TypeOK
<1>4. CASE UNCHANGED vars
  BY <1>4 DEF vars, TypeOK
<1> QED BY <1>1, <1>2, <1>3, <1>4 DEF Next

\* Types: timer and comparator stay within the width of the timer.
THEOREM TypeCorrect == Spec => []TypeOK
BY InitType, NextType, PTL DEF Spec

\* Before the first tick the next match is ahead.
LEMMA InitTimely == Init => Timely /\ Counted
<1> SUFFICES ASSUME Init PROVE Timely /\ Counted
  OBVIOUS
<1>1. ~ pending /\ ~ ticked
  BY Zenon DEF Init
<1>2. Ahead = 10 * TicksPerMs /\ uncounted = 0
  BY InitType, Distances, TicksAssumption DEF Init
<1> QED BY <1>1, <1>2, TicksAssumption DEF Timely, Counted

\* A tick of the timer brings the match one tick nearer, or makes it one tick
\* older while the other handler has one tick less to run.
LEMMA CountTimely ==
    ASSUME TypeOK, Timely, Counted, Count, TicksPerMs >= MaxHandler
    PROVE  Timely' /\ Counted'
<1>1. TypeOK'
  BY NextType DEF Next
<1>2. TIM0' = IF TIM0 = Modulus - 1 THEN 0 ELSE TIM0 + 1
  <2>1. /\ TIM0 \in 0 .. Modulus - 1 /\ 1 \in 0 .. Modulus - 1
        /\ Modulus \in Nat \ {0} /\ TIM0' = (TIM0 + 1) % Modulus
    BY TicksAssumption DEF Count, TypeOK
  <2>2. TIM0' = IF TIM0 + 1 < Modulus THEN TIM0 + 1 ELSE TIM0 + 1 - Modulus
    BY <2>1, Plus
  <2> QED BY <2>1, <2>2
<1>3. /\ CMP' = CMP /\ handler' = IF handler > 0 THEN handler - 1 ELSE 0
      /\ pending => handler > 0
      /\ uncounted' = uncounted + 1
  BY DEF Count
<1>4. (ticked' <=> ticked) /\ (pending' <=> pending \/ TIM0' = CMP)
  BY Zenon DEF Count
<1>5. /\ Ahead' = IF CMP' >= TIM0' THEN CMP' - TIM0' ELSE CMP' - TIM0' + Modulus
      /\ Lag' = IF TIM0' >= CMP' THEN TIM0' - CMP' ELSE TIM0' - CMP' + Modulus
  <2>1. /\ TIM0' \in 0 .. Modulus - 1 /\ CMP' \in 0 .. Modulus - 1
        /\ Modulus \in Nat \ {0}
    BY <1>1, TicksAssumption DEF TypeOK
  <2> QED BY <2>1, Minus DEF Ahead, Lag
<1>6. CASE pending
  <2>1. Lag' = Lag + 1
    BY <1>2, <1>3, <1>5, <1>6, Distances, TicksAssumption DEF Timely, TypeOK
  <2>2. pending' /\ handler > 0 /\ handler' = handler - 1
    BY <1>3, <1>4, <1>6
  <2>3. Lag + handler <= MaxHandler
    BY <1>6 DEF Timely
  <2>4. Lag \in Int /\ handler \in Int
    BY Distances, TicksAssumption DEF TypeOK
  <2>5. Lag' + handler' <= MaxHandler
    BY <2>1, <2>2, <2>3, <2>4, TicksAssumption
  <2>6. uncounted' = 10 * TicksPerMs + Lag'
    BY <1>3, <1>6, <2>1, <2>4, TicksAssumption DEF Counted
  <2> QED BY <2>2, <2>5, <2>6 DEF Timely, Counted
<1>7. CASE ~ pending
  <2>1. Ahead' = Ahead - 1
    BY <1>2, <1>3, <1>5, <1>7, Distances, TicksAssumption DEF Timely, TypeOK
  <2>4. uncounted' = 10 * TicksPerMs - Ahead'
    <3>1. Ahead \in Int
      BY Distances, TicksAssumption DEF TypeOK
    <3> QED BY <1>3, <1>7, <2>1, <3>1, TicksAssumption DEF Counted
  <2>2. CASE TIM0' = CMP
    <3>1. pending'
      BY <1>4, <2>2
    <3>2. handler' \in 0 .. MaxHandler
      BY <1>1 DEF TypeOK
    <3>3. Lag' + handler' <= MaxHandler
      <4>1. Lag' = 0
        BY <1>1, <1>3, <1>5, <2>2 DEF TypeOK
      <4>2. handler' \in Int /\ handler' <= MaxHandler
        BY <3>2, TicksAssumption
      <4>3. Lag' + handler' = 0 + handler'
        BY <4>1, Zenon
      <4> QED BY <4>2, <4>3
    <3>4. Lag' = 0 /\ Ahead' = 0
      BY <1>1, <1>3, <1>5, <2>2 DEF TypeOK
    <3>5. uncounted' = 10 * TicksPerMs + Lag'
      BY <2>4, <3>4, TicksAssumption
    <3> QED BY <3>1, <3>3, <3>5 DEF Timely, Counted
  <2>3. CASE TIM0' # CMP
    <3>1. ~ pending' /\ Ahead' # 0
      BY <1>1, <1>3, <1>4, <1>5, <1>7, <2>3, TicksAssumption DEF TypeOK
    <3>2. /\ 1 <= Ahead
          /\ Ahead <= (IF ticked THEN TicksPerMs ELSE 10 * TicksPerMs)
          /\ Ahead \in Int
      BY <1>7, Distances, TicksAssumption DEF Timely, TypeOK
    <3>3. /\ 1 <= Ahead'
          /\ Ahead' <= (IF ticked' THEN TicksPerMs ELSE 10 * TicksPerMs)
      BY <1>4, <2>1, <3>1, <3>2, TicksAssumption
    <3> QED BY <2>4, <3>1, <3>3 DEF Timely, Counted
  <2> QED BY <2>2, <2>3
<1> QED BY <1>6, <1>7

\* Another handler starts before the match.
LEMMA OtherHandlerTimely ==
    ASSUME TypeOK, Timely, Counted, OtherHandler
    PROVE  Timely' /\ Counted'
<1>1. ~ pending' /\ (ticked' <=> ticked) /\ ~ pending
  BY Zenon DEF OtherHandler
<1>2. Ahead' = Ahead /\ uncounted' = uncounted
  BY DEF OtherHandler, Ahead
<1> QED BY <1>1, <1>2 DEF Timely, Counted

\* The tick handler, no later than a millisecond, puts the next match ahead,
\* or upon the timer.
LEMMA TickTimely ==
    ASSUME TypeOK, Timely, Counted, updateLwIPStackISR, TicksPerMs >= MaxHandler
    PROVE  Timely' /\ Counted'
<1>1. TypeOK'
  BY NextType DEF Next
<1>2. /\ TIM0 \in 0 .. Modulus - 1 /\ CMP \in 0 .. Modulus - 1
      /\ TicksPerMs \in 0 .. Modulus - 1
      /\ Modulus \in Nat \ {0} /\ MaxHandler \in Nat
      /\ TicksPerMs < Modulus - TicksPerMs
  BY TicksAssumption DEF TypeOK
<1>3. TIM0' = TIM0 /\ handler = 0 /\ handler' = 0
  BY DEF updateLwIPStackISR
<1>4. pending /\ ticked' /\ (pending' <=> CMP' = TIM0)
  BY Zenon DEF updateLwIPStackISR
<1>5. CMP' = IF CMP + TicksPerMs < Modulus
             THEN CMP + TicksPerMs ELSE CMP + TicksPerMs - Modulus
  BY <1>2, Plus DEF updateLwIPStackISR, increaseCompare
<1>6. Lag <= TicksPerMs
  <2>1. Lag + handler <= MaxHandler
    BY <1>4 DEF Timely
  <2>2. Lag \in Int
    BY <1>2, Distances
  <2> QED BY <1>2, <1>3, <2>1, <2>2
<1>7. Lag = IF TIM0 >= CMP THEN TIM0 - CMP ELSE TIM0 - CMP + Modulus
  BY Distances
<1>8. /\ Ahead' = IF CMP' >= TIM0 THEN CMP' - TIM0 ELSE CMP' - TIM0 + Modulus
      /\ Lag' = IF TIM0 >= CMP' THEN TIM0 - CMP' ELSE TIM0 - CMP' + Modulus
  <2>1. CMP' \in 0 .. Modulus - 1
    BY <1>1 DEF TypeOK
  <2> QED BY <1>2, <1>3, <2>1, Minus DEF Ahead, Lag
<1>9. Ahead' = TicksPerMs - Lag
  BY <1>2, <1>5, <1>6, <1>7, <1>8
<1>12. uncounted' = 10 * TicksPerMs - Ahead'
  <2>1. uncounted = 10 * TicksPerMs + Lag /\ uncounted' = uncounted - TicksPerMs
    BY <1>4 DEF Counted, updateLwIPStackISR
  <2>2. Lag \in Int
    BY <1>2, <1>7
  <2> QED BY <1>2, <1>9, <2>1, <2>2
<1>10. CASE CMP' = TIM0
  <2>1. Lag' + handler' <= MaxHandler
    BY <1>2, <1>3, <1>8, <1>10
  <2>2. Lag' = 0 /\ Ahead' = 0
    BY <1>2, <1>8, <1>10
  <2>3. uncounted' = 10 * TicksPerMs + Lag'
    BY <1>2, <1>12, <2>2
  <2> QED BY <1>4, <1>10, <2>1, <2>3 DEF Timely, Counted
<1>11. CASE CMP' # TIM0
  <2>1. Ahead' # 0
    BY <1>2, <1>5, <1>8, <1>11
  <2>2. 1 <= Ahead' /\ Ahead' <= TicksPerMs
    BY <1>2, <1>6, <1>7, <1>9, <2>1
  <2>3. ~ pending'
    BY <1>4, <1>11
  <2> QED BY <1>4, <1>12, <2>2, <2>3 DEF Timely, Counted
<1> QED BY <1>10, <1>11

LEMMA NextTimely ==
    ASSUME MaxHandler <= TicksPerMs
    PROVE  TypeOK /\ Timely /\ Counted /\ [Next]_vars => Timely' /\ Counted'
<1> SUFFICES ASSUME TypeOK, Timely, Counted, [Next]_vars PROVE Timely' /\ Counted'
  OBVIOUS
<1>1. TicksPerMs >= MaxHandler
  BY TicksAssumption
<1>2. CASE Count  BY <1>1, <1>2, CountTimely
<1>3. CASE OtherHandler  BY <1>3, OtherHandlerTimely
<1>4. CASE updateLwIPStackISR  BY <1>1, <1>4, TickTimely
<1>5. CASE UNCHANGED vars
  <2>1. Ahead' = Ahead /\ Lag' = Lag
    BY <1>5 DEF vars, Ahead, Lag
  <2> QED BY <1>5, <2>1 DEF vars, Timely, Counted
<1> QED BY <1>2, <1>3, <1>4, <1>5 DEF Next

\* geth_lwip.c:54, every millisecond the timers are increased: true as long as
\* no other handler runs for more than a millisecond.
THEOREM TickWithinMsHolds ==
    ASSUME MaxHandler <= TicksPerMs
    PROVE  Spec => []TickWithinMs
<1>1. Timely => TickWithinMs
  BY DEF Timely, TickWithinMs
<1> QED BY InitType, NextType, InitTimely, NextTimely, <1>1, PTL DEF Spec

\* Ifx_Lwip.c:422, sys_now is the current time in milliseconds: ten behind, with
\* a millisecond either way, however often timer and comparator wrap around.
THEOREM ClockIsRightHolds ==
    ASSUME MaxHandler <= TicksPerMs
    PROVE  Spec => []ClockIsRight
<1>1. TypeOK /\ Timely /\ Counted => ClockIsRight
  <2> SUFFICES ASSUME TypeOK, Timely, Counted PROVE ClockIsRight
    OBVIOUS
  <2>1. /\ Ahead \in Int /\ Lag \in Nat /\ handler \in Nat
        /\ TicksPerMs \in Nat /\ MaxHandler \in Nat
    BY Distances, TicksAssumption DEF TypeOK
  <2>2. CASE pending
    <3>1. uncounted = 10 * TicksPerMs + Lag /\ Lag + handler <= MaxHandler
      BY <2>2 DEF Timely, Counted
    <3> QED BY <2>1, <3>1 DEF ClockIsRight
  <2>3. CASE ~ pending
    <3>1. /\ uncounted = 10 * TicksPerMs - Ahead
          /\ 1 <= Ahead /\ Ahead <= (IF ticked THEN TicksPerMs ELSE 10 * TicksPerMs)
      BY <2>3 DEF Timely, Counted
    <3>2. CASE ticked
      BY <2>1, <3>1, <3>2 DEF ClockIsRight
    <3>3. CASE ~ ticked
      BY <2>1, <3>1, <3>3 DEF ClockIsRight
    <3> QED BY <3>2, <3>3
  <2> QED BY <2>2, <2>3
<1> QED BY InitType, NextType, InitTimely, NextTimely, <1>1, PTL DEF Spec
=============================================================================
