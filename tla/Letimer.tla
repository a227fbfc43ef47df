------------------------------ MODULE Letimer -------------------------------
(***************************************************************************)
(* LETIMER0 at the level of its ticks: the waits of timerWaitUs_irq, the   *)
(* interrupt handler they end in and the time letimerMilliseconds reports. *)
(*                                                                         *)
(* The counter runs down from COMP0 to 0, underflows and starts again, on  *)
(* its own clock.  The handler runs in two steps, since a flag may be      *)
(* raised between its read of the flags and its clear of them.  The thread *)
(* does not run while the handler does, but it may take the step it was at *)
(* when a flag is raised: the processor takes the interrupt a few cycles   *)
(* later.                                                                  *)
(***************************************************************************)
EXTENDS Integers

CONSTANTS
  CLOCK_FREQ, PRESCALER_VALUE, LETIMER_PERIOD_MS,
  Waits,             \* values of us_wait timerWaitUs_irq is called with
  MaxLatency,        \* bound: ticks that may pass during one such call
  ROLLOVER_MODULUS   \* 2^32: rollover_count is a uint32_t

-----------------------------------------------------------------------------
(* Arithmetic.  ACTUAL_CLK_FREQ is a macro without parentheses: a factor   *)
(* before it is multiplied with CLOCK_FREQ first.                          *)

TimesClkFreq(x) == (x * CLOCK_FREQ) \div PRESCALER_VALUE

COMP0_VALUE_TO_LOAD == TimesClkFreq(LETIMER_PERIOD_MS) \div 1000

Ticks(us_wait) == TimesClkFreq(us_wait \div 1000) \div 1000

(* Mutant: a wait longer than the period is let through. *)
InRange_OnlyLower(n) == n >= 1

InRange(n) == n >= 1 /\ n <= COMP0_VALUE_TO_LOAD

(* Mutant: the wrap of the counter is not handled. *)
Comp1Value_NoWrap(cur, n) == cur - n

Comp1Value(cur, n) ==
  IF cur > n THEN cur - n ELSE (COMP0_VALUE_TO_LOAD - n) + cur

ASSUME LetimerAssumption ==
  /\ COMP0_VALUE_TO_LOAD \in Nat \ {0}
  /\ MaxLatency \in Nat /\ ROLLOVER_MODULUS \in Nat \ {0}
  /\ \A us \in Waits : Ticks(us) \in Nat /\ (InRange(Ticks(us)) => Ticks(us) > MaxLatency)

-----------------------------------------------------------------------------
VARIABLES
  cnt,             \* counter register
  comp1,           \* COMP1 register
  int_flags,       \* IF register
  int_enable,      \* IEN register
  rollover_count,
  call,            \* step of timerWaitUs_irq the thread is at, "none" outside
  ticks, cur_cnt,  \* its locals
  irq_flags,       \* flags the running handler read, {} when it does not run
  waited           \* ticks since the counter was read, until the match

vars == <<cnt, comp1, int_flags, int_enable, rollover_count, call, ticks, cur_cnt,
          irq_flags, waited>>

Flags == {"UF", "COMP1"}

Armed == "COMP1" \in int_enable

(* The registers are 0 after reset; initLETIMER0 enables UF alone. *)
Init ==
  /\ cnt = 0 /\ comp1 = 0
  /\ int_flags = {} /\ int_enable = {"UF"}
  /\ rollover_count = 0
  /\ call = "none" /\ ticks = 0 /\ cur_cnt = 0
  /\ irq_flags = {}
  /\ waited = 0

-----------------------------------------------------------------------------
(* The peripheral. *)

Counting == call # "none" \/ (Armed /\ "COMP1" \notin int_flags)

(* Bound: a wait that takes longer than a period is counted no further. *)
MaxWaited == COMP0_VALUE_TO_LOAD + 2

Tick ==
  /\ call # "none" => waited < MaxLatency
  /\ cnt' = IF cnt = 0 THEN COMP0_VALUE_TO_LOAD ELSE cnt - 1
  /\ int_flags' = int_flags \cup {f \in Flags : \/ f = "UF" /\ cnt = 0
                                                \/ f = "COMP1" /\ cnt' = comp1}
  /\ waited' = IF Counting /\ waited < MaxWaited THEN waited + 1 ELSE waited
  /\ UNCHANGED <<comp1, int_enable, rollover_count, call, ticks, cur_cnt, irq_flags>>

-----------------------------------------------------------------------------
(* timerWaitUs_irq, up to each access to the peripheral.  The temperature  *)
(* machine never calls it during a wait (TemperatureMachine's              *)
(* WakeupBelongsToWait).                                                   *)

Thread == irq_flags = {}

(* The range check and LETIMER_CounterGet; out of range, it only logs. *)
timerWaitUs_irq(us_wait) ==
  /\ Thread /\ call = "none" /\ ~Armed
  /\ InRange(Ticks(us_wait))
  /\ ticks' = Ticks(us_wait)
  /\ cur_cnt' = cnt
  /\ waited' = 0
  /\ call' = "LETIMER_CompareSet"
  /\ UNCHANGED <<cnt, comp1, int_flags, int_enable, rollover_count, irq_flags>>

LETIMER_CompareSet ==
  /\ Thread /\ call = "LETIMER_CompareSet"
  /\ comp1' = Comp1Value(cur_cnt, ticks)
  /\ call' = "LETIMER_IntClear"
  /\ UNCHANGED <<cnt, int_flags, int_enable, rollover_count, ticks, cur_cnt, irq_flags, waited>>

(* Mutant: the flags are left as they are. *)
LETIMER_IntClear_Missing ==
  /\ Thread /\ call = "LETIMER_IntClear"
  /\ call' = "LETIMER_IntEnable"
  /\ UNCHANGED <<cnt, comp1, int_flags, int_enable, rollover_count, ticks, cur_cnt, irq_flags,
                 waited>>

LETIMER_IntClear ==
  /\ Thread /\ call = "LETIMER_IntClear"
  /\ int_flags' = {}
  /\ call' = "LETIMER_IntEnable"
  /\ UNCHANGED <<cnt, comp1, int_enable, rollover_count, ticks, cur_cnt, irq_flags, waited>>

LETIMER_IntEnable ==
  /\ Thread /\ call = "LETIMER_IntEnable"
  /\ int_enable' = int_enable \cup {"COMP1"}
  /\ call' = "none"
  /\ UNCHANGED <<cnt, comp1, int_flags, rollover_count, ticks, cur_cnt, irq_flags, waited>>

-----------------------------------------------------------------------------
(* LETIMER0_IRQHandler: LETIMER_IntGetEnabled, then the rest.              *)

LETIMER_IntGetEnabled ==
  /\ irq_flags = {} /\ int_flags \cap int_enable # {}
  /\ irq_flags' = int_flags \cap int_enable
  /\ UNCHANGED <<cnt, comp1, int_flags, int_enable, rollover_count, call, ticks, cur_cnt, waited>>

(* Mutant: every flag is cleared, not only those that were read. *)
LETIMER0_IRQHandler_ClearsAll ==
  /\ irq_flags # {}
  /\ int_flags' = {}
  /\ rollover_count' = IF "UF" \in irq_flags THEN (rollover_count + 1) % ROLLOVER_MODULUS
                       ELSE rollover_count
  /\ int_enable' = int_enable \ (irq_flags \cap {"COMP1"})
  /\ irq_flags' = {}
  /\ UNCHANGED <<cnt, comp1, call, ticks, cur_cnt, waited>>

LETIMER0_IRQHandler ==
  /\ irq_flags # {}
  /\ int_flags' = int_flags \ irq_flags
  /\ rollover_count' = IF "UF" \in irq_flags THEN (rollover_count + 1) % ROLLOVER_MODULUS
                       ELSE rollover_count
  /\ int_enable' = int_enable \ (irq_flags \cap {"COMP1"})
  /\ irq_flags' = {}
  /\ UNCHANGED <<cnt, comp1, call, ticks, cur_cnt, waited>>

-----------------------------------------------------------------------------
Call == LETIMER_CompareSet \/ LETIMER_IntClear \/ LETIMER_IntEnable
Handler == LETIMER_IntGetEnabled \/ LETIMER0_IRQHandler

Next == Tick \/ (\E us \in Waits : timerWaitUs_irq(us)) \/ Call \/ Handler

Spec == Init /\ [][Next]_vars

(* The clock never stops, a call returns and interrupts are taken. *)
FairSpec == Spec /\ WF_vars(Tick) /\ WF_vars(Call) /\ WF_vars(Handler)

(* Read at any moment, for a time stamp of the log. *)
letimerMilliseconds ==
  (rollover_count * LETIMER_PERIOD_MS) + (TimesClkFreq(COMP0_VALUE_TO_LOAD - cnt) \div 1000)

-----------------------------------------------------------------------------
(* Type invariant. *)
TypeOK ==
  /\ cnt \in 0 .. COMP0_VALUE_TO_LOAD
  /\ comp1 \in 0 .. COMP0_VALUE_TO_LOAD
  /\ int_flags \in SUBSET Flags
  /\ int_enable \in {{"UF"}, {"UF", "COMP1"}}
  /\ rollover_count \in 0 .. ROLLOVER_MODULUS - 1
  /\ call \in {"none", "LETIMER_CompareSet", "LETIMER_IntClear", "LETIMER_IntEnable"}
  /\ ticks \in 0 .. COMP0_VALUE_TO_LOAD
  /\ cur_cnt \in 0 .. COMP0_VALUE_TO_LOAD
  /\ irq_flags \in SUBSET Flags
  /\ waited \in Nat

(* A wait ends after its ticks, or one tick later when the counter wraps:  *)
(* neither a match of an earlier wait nor one raised while the call is at  *)
(* work ends it early, and no interleaving with the handler or the clock   *)
(* makes it miss its match and last a period longer.                       *)
WaitIsExact ==
  Armed /\ "COMP1" \in int_flags => waited \in {ticks, ticks + 1}

(* An underflow is counted by the handler whatever else it serves at the   *)
(* same time, unless timerWaitUs_irq clears it before the handler runs.    *)
UnderflowsAreCounted ==
  [][ "UF" \in int_flags /\ "UF" \notin int_flags' =>
        \/ rollover_count' = (rollover_count + 1) % ROLLOVER_MODULUS
        \/ call = "LETIMER_IntClear" /\ call' = "LETIMER_IntEnable" ]_vars

(* Every wait ends. *)
WaitEnds == Armed ~> ~Armed

-----------------------------------------------------------------------------
(* timers.h: timerWaitUs_irq waits for the specified time in microseconds. *)
(* A wait that is over lasted at least as long as its caller asked.        *)
WaitLastsItsMicroseconds ==
  Armed /\ "COMP1" \in int_flags =>
    \A us \in Waits : Ticks(us) = ticks =>
      waited * 1000000 >= us * (CLOCK_FREQ \div PRESCALER_VALUE)

(* irq.h: letimerMilliseconds returns the elapsed time in milliseconds.  A *)
(* tick is shorter than a millisecond, so it adds at most one.             *)
MillisecondsFollowTheClock ==
  [][cnt > 0 /\ cnt' = cnt - 1 =>
       letimerMilliseconds' - letimerMilliseconds \in {0, 1}]_vars
=============================================================================
