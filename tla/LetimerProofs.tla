--------------------------- MODULE LetimerProofs ----------------------------
(***************************************************************************)
(* A wait of timerWaitUs_irq ends on its tick, for every clock, period and *)
(* set of waits that LetimerAssumption admits.                             *)
(***************************************************************************)
EXTENDS Letimer, TLAPS

(* When the match of the current wait is due, in ticks since the counter   *)
(* was read: one more when the counter wraps, since an underflow takes one.*)
Due == IF cur_cnt > ticks THEN ticks ELSE ticks + 1

(* Where the counter is, waited ticks after it stood at cur_cnt.           *)
Position ==
  cnt = IF waited <= cur_cnt THEN cur_cnt - waited
        ELSE COMP0_VALUE_TO_LOAD + 1 + cur_cnt - waited

(* The call and the wait as one progress: the counter is where the clock   *)
(* took it, COMP1 holds the match once it is set, no stale flag survives   *)
(* the clear, and the flag of an armed wait is raised when due.            *)
WaitProgress ==
  /\ call # "none" => ~Armed /\ Position /\ waited <= MaxLatency /\ MaxLatency < ticks
  /\ call \in {"LETIMER_IntClear", "LETIMER_IntEnable"} => comp1 = Comp1Value(cur_cnt, ticks)
  /\ call = "LETIMER_IntEnable" => "COMP1" \notin int_flags
  /\ Armed =>
       /\ comp1 = Comp1Value(cur_cnt, ticks)
       /\ IF "COMP1" \in int_flags THEN waited = Due ELSE Position /\ waited < Due
  /\ irq_flags \subseteq int_flags
  /\ "COMP1" \in irq_flags => Armed

IInv == TypeOK /\ WaitProgress

-----------------------------------------------------------------------------
LEMMA InitEstablishes == Init => IInv
  BY LetimerAssumption DEF Init, IInv, TypeOK, WaitProgress, Armed, Flags

LEMMA StepPreserves == IInv /\ [Next]_vars => IInv'
<1> SUFFICES ASSUME IInv, [Next]_vars PROVE IInv'
  OBVIOUS
<1> USE LetimerAssumption
<1>t. TypeOK /\ WaitProgress
  BY DEF IInv
<1>1. CASE Tick
  <2>1. cnt' \in 0 .. COMP0_VALUE_TO_LOAD /\ waited' \in Nat /\ int_flags' \in SUBSET Flags
    BY <1>1, <1>t DEF Tick, TypeOK
  <2>2. TypeOK'
    BY <1>1, <1>t, <2>1 DEF Tick, TypeOK
  <2>3. ASSUME call # "none"
        PROVE  Position' /\ waited' <= MaxLatency
    BY <1>1, <1>t, <2>3 DEF Tick, TypeOK, WaitProgress, Position, Counting, MaxWaited, InRange
  <2>4. ASSUME call = "LETIMER_IntEnable"
        PROVE  "COMP1" \notin int_flags'
    <3>1. Position /\ waited < MaxLatency /\ MaxLatency < ticks
          /\ comp1 = Comp1Value(cur_cnt, ticks) /\ "COMP1" \notin int_flags
      BY <1>1, <1>t, <2>4 DEF Tick, TypeOK, WaitProgress
    <3>2. cnt' # comp1
      BY <1>1, <1>t, <3>1 DEF Tick, TypeOK, Position, Comp1Value
    <3> QED BY <1>1, <3>1, <3>2 DEF Tick
  <2>5. ASSUME Armed
        PROVE  /\ comp1' = Comp1Value(cur_cnt', ticks')
               /\ IF "COMP1" \in int_flags' THEN waited' = Due' ELSE Position' /\ waited' < Due'
    <3>1. call = "none" /\ comp1 = Comp1Value(cur_cnt, ticks)
      BY <1>t, <2>5 DEF WaitProgress
    <3>2. CASE "COMP1" \in int_flags
      BY <1>1, <1>t, <2>5, <3>1, <3>2 DEF Tick, WaitProgress, Counting, Due
    <3>3. CASE "COMP1" \notin int_flags
      <4>1. Position /\ waited < Due /\ waited' = waited + 1
        BY <1>1, <1>t, <2>5, <3>3 DEF Tick, TypeOK, WaitProgress, Counting, MaxWaited, Due
      <4>2. cnt' = comp1 <=> "COMP1" \in int_flags'
        BY <1>1, <3>3 DEF Tick, Flags
      <4>3. Position' /\ (cnt' = comp1 <=> waited' = Due)
        BY <1>1, <1>t, <3>1, <4>1 DEF Tick, TypeOK, Position, Due, Comp1Value
      <4>4. Due' = Due
        BY <1>1 DEF Tick, Due
      <4>5. waited' = Due \/ waited' < Due
        BY <4>1, <1>t DEF TypeOK, Due
      <4> QED BY <1>1, <3>1, <4>2, <4>3, <4>4, <4>5 DEF Tick
    <3> QED BY <3>2, <3>3
  <2>6. Armed' = Armed /\ irq_flags' = irq_flags /\ int_flags \subseteq int_flags'
    BY <1>1 DEF Tick, Armed
  <2>7. WaitProgress'
    BY <1>1, <1>t, <2>3, <2>4, <2>5, <2>6 DEF Tick, WaitProgress, Comp1Value
  <2> QED BY <2>2, <2>7 DEF IInv
<1>2. ASSUME NEW us \in Waits, timerWaitUs_irq(us)
      PROVE  IInv'
  BY <1>2, <1>t DEF timerWaitUs_irq, IInv, TypeOK, WaitProgress, InRange, Position, Armed, Thread
<1>3. CASE LETIMER_CompareSet
  <2>1. ticks \in 1 .. COMP0_VALUE_TO_LOAD
    BY <1>3, <1>t DEF LETIMER_CompareSet, TypeOK, WaitProgress
  <2>2. comp1' \in 0 .. COMP0_VALUE_TO_LOAD
    BY <1>3, <1>t, <2>1 DEF LETIMER_CompareSet, TypeOK, Comp1Value
  <2> QED
    BY <1>3, <1>t, <2>2
       DEF LETIMER_CompareSet, IInv, TypeOK, WaitProgress, Position, Armed, Thread, Comp1Value
<1>4. CASE LETIMER_IntClear
  BY <1>4, <1>t
     DEF LETIMER_IntClear, IInv, TypeOK, WaitProgress, Position, Armed, Thread, Comp1Value
<1>5. CASE LETIMER_IntEnable
  BY <1>5, <1>t
     DEF LETIMER_IntEnable, IInv, TypeOK, WaitProgress, Position, Armed, Thread, Comp1Value, Due
<1>6. CASE LETIMER_IntGetEnabled
  BY <1>6, <1>t
     DEF LETIMER_IntGetEnabled, IInv, TypeOK, WaitProgress, Position, Armed, Comp1Value, Due
<1>7. CASE LETIMER0_IRQHandler
  <2>1. TypeOK'
    BY <1>7, <1>t DEF LETIMER0_IRQHandler, TypeOK
  <2>2. WaitProgress'
    BY <1>7, <1>t DEF LETIMER0_IRQHandler, TypeOK, WaitProgress, Position, Armed, Comp1Value, Due
  <2> QED BY <2>1, <2>2 DEF IInv
<1>8. CASE UNCHANGED vars
  BY <1>8, <1>t DEF vars, IInv, TypeOK, WaitProgress, Position, Armed, Comp1Value, Due
<1> QED BY <1>1, <1>2, <1>3, <1>4, <1>5, <1>6, <1>7, <1>8 DEF Next, Call, Handler

LEMMA InvariantHolds == Spec => []IInv
  BY InitEstablishes, StepPreserves, PTL DEF Spec

(* Type correctness, and: a wait of timerWaitUs_irq ends after its ticks   *)
(* or one tick later, whatever the handler and the clock do meanwhile.     *)
THEOREM WaitsAreExact == Spec => [](TypeOK /\ WaitIsExact)
<1>1. IInv => TypeOK /\ WaitIsExact
  BY DEF IInv, WaitProgress, WaitIsExact, Due
<1> QED BY <1>1, InvariantHolds, PTL

(* The registers keep to their values: the counter, and the match written  *)
(* for a wait, stay within the period.                                     *)
THEOREM LetimerTypes == Spec => []TypeOK
  BY WaitsAreExact, PTL

(* A pending underflow is dropped uncounted only by timerWaitUs_irq.       *)
THEOREM UnderflowsCount == Spec => UnderflowsAreCounted
<1>1. [Next]_vars =>
        [ "UF" \in int_flags /\ "UF" \notin int_flags' =>
            \/ rollover_count' = (rollover_count + 1) % ROLLOVER_MODULUS
            \/ call = "LETIMER_IntClear" /\ call' = "LETIMER_IntEnable" ]_vars
  BY DEF Next, vars, Tick, timerWaitUs_irq, Call, LETIMER_CompareSet, LETIMER_IntClear,
         LETIMER_IntEnable, Handler, LETIMER_IntGetEnabled, LETIMER0_IRQHandler
<1> QED BY <1>1, PTL DEF Spec, UnderflowsAreCounted
-----------------------------------------------------------------------------
(* An armed wait, from the enabling of its interrupt to the handler.       *)

(* Before its match an armed wait has at least a tick left, and the handler*)
(* has not seen the flag; from then on the handler has a flag to serve.    *)
WaitIsDue ==
  Armed =>
    IF "COMP1" \in int_flags
    THEN int_flags \cap int_enable # {}
    ELSE waited <= ticks /\ "COMP1" \notin irq_flags

(* Every tick before the match brings it closer.  The match, once raised,  *)
(* stays raised: a handler at work that read the flags before it leaves it *)
(* for its next run, and the run that read it ends the wait.  Nothing else *)
(* ends or restarts the wait.                                              *)
WaitComesCloser ==
  [][Armed =>
       /\ comp1' = comp1 /\ call' = "none"
       /\ "COMP1" \notin int_flags =>
            /\ Armed'
            /\ cnt' # cnt => waited' = waited + 1
            /\ cnt' = cnt => waited' = waited
       /\ "COMP1" \in int_flags =>
            /\ ~Armed' <=> "COMP1" \in irq_flags /\ irq_flags' = {}
            /\ Armed' => "COMP1" \in int_flags'
            /\ Armed' /\ irq_flags = {} /\ irq_flags' # {} => "COMP1" \in irq_flags']_vars

(* The safety half of WaitEnds, for every clock and period: what is left   *)
(* of a wait is bounded by its ticks and then one run of                   *)
(* LETIMER0_IRQHandler, or two if one was at work, and no step undoes it.  *)
THEOREM WaitsComeCloser == Spec => []WaitIsDue /\ WaitComesCloser
<1>1. IInv => WaitIsDue
  <2> SUFFICES ASSUME IInv PROVE WaitIsDue
    OBVIOUS
  <2>1. TypeOK /\ WaitProgress
    BY DEF IInv
  <2>2. Armed /\ "COMP1" \in int_flags => int_flags \cap int_enable # {}
    BY <2>1 DEF Armed
  <2>3. Armed /\ "COMP1" \notin int_flags => waited <= ticks /\ "COMP1" \notin irq_flags
    BY <2>1 DEF WaitProgress, TypeOK, Due
  <2> QED BY <2>2, <2>3 DEF WaitIsDue
<1> DEFINE Closer ==
      Armed =>
       /\ comp1' = comp1 /\ call' = "none"
       /\ "COMP1" \notin int_flags =>
            /\ Armed'
            /\ cnt' # cnt => waited' = waited + 1
            /\ cnt' = cnt => waited' = waited
       /\ "COMP1" \in int_flags =>
            /\ ~Armed' <=> "COMP1" \in irq_flags /\ irq_flags' = {}
            /\ Armed' => "COMP1" \in int_flags'
            /\ Armed' /\ irq_flags = {} /\ irq_flags' # {} => "COMP1" \in irq_flags'
<1>2. IInv /\ [Next]_vars => [Closer]_vars
  <2> SUFFICES ASSUME IInv, Next PROVE Closer
    OBVIOUS
  <2> USE LetimerAssumption
  <2>t. TypeOK /\ WaitProgress
    BY DEF IInv
  <2>1. CASE Tick
    <3>1. Armed => call = "none"
      BY <2>t DEF WaitProgress
    <3>2. COMP0_VALUE_TO_LOAD # 0 /\ cnt' # cnt
      BY <2>1, <2>t DEF Tick, TypeOK
    <3>3. Armed /\ "COMP1" \notin int_flags => waited' = waited + 1
      BY <2>1, <2>t DEF Tick, TypeOK, WaitProgress, Counting, MaxWaited, Due
    <3>4. Armed' = Armed /\ irq_flags' = irq_flags /\ int_flags \subseteq int_flags'
      BY <2>1 DEF Tick, Armed
    <3>5. "COMP1" \in irq_flags => irq_flags # {}
      OBVIOUS
    <3> QED BY <2>1, <3>1, <3>2, <3>3, <3>4, <3>5 DEF Tick
  <2>2. ASSUME NEW us \in Waits, timerWaitUs_irq(us)
        PROVE  Closer
    BY <2>2 DEF timerWaitUs_irq
  <2>3. CASE Call
    BY <2>3, <2>t DEF Call, LETIMER_CompareSet, LETIMER_IntClear, LETIMER_IntEnable, WaitProgress
  <2>4. CASE LETIMER_IntGetEnabled
    BY <2>4, <2>t DEF LETIMER_IntGetEnabled, WaitProgress, Armed
  <2>5. CASE LETIMER0_IRQHandler
    BY <2>5, <2>t DEF LETIMER0_IRQHandler, WaitProgress, Armed
  <2> QED BY <2>1, <2>2, <2>3, <2>4, <2>5 DEF Next, Handler
<1>3. Spec => [][Closer]_vars
  BY <1>2, InvariantHolds, PTL DEF Spec
<1> QED BY <1>1, <1>3, InvariantHolds, PTL DEF WaitComesCloser
=============================================================================
