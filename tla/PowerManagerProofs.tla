-------------------------- MODULE PowerManagerProofs ------------------------
(***************************************************************************)
(* Proofs about PowerManager.  Under the power manager the measurements of *)
(* SensorReading are what they were: it only chooses when steps happen.    *)
(* So what is proved of them holds; and from it, the power manager never   *)
(* stops the clock of a transfer.                                          *)
(***************************************************************************)
EXTENDS PowerManager, SensorReadingProofs

LEMMA PowerStep ==
  [PowerNext]_power_vars => [Next]_vars
<1> SUFFICES ASSUME [PowerNext]_power_vars
             PROVE  [Next]_vars
  OBVIOUS
<1>1. CASE Thread
  BY <1>1 DEF Thread, Next
<1>2. CASE Interrupt(I2C0_IRQHandler)
  BY <1>2 DEF Interrupt, Next
<1>3. CASE \E flags \in LETIMER0_Flags : Interrupt(LETIMER0_IRQHandler(flags))
  BY <1>3 DEF Interrupt, Next
<1>4. CASE Controller(Bus(si7021))
  BY <1>4 DEF Controller, Next
<1>5. CASE \E error \in Errors : Controller(Disturbed(error))
  BY <1>5 DEF Controller, Next
<1>6. CASE Quiet(ConversionCompletes) /\ UNCHANGED power
  BY <1>6 DEF Next
<1>7. CASE OthersRequirement \/ Wake \/ process_timer_irq \/ delta_list_insert_timer \/ WakeUp
  BY <1>7 DEF OthersRequirement, Wake, process_timer_irq, delta_list_insert_timer, WakeUp
<1>8. CASE sl_power_manager_sleep \/ SleepAgain
  BY <1>8 DEF sl_power_manager_sleep, SleepAgain, GoToSleep, SleepIn
<1>9. CASE UNCHANGED power_vars
  BY <1>9 DEF power_vars
<1> QED BY <1>1, <1>2, <1>3, <1>4, <1>5, <1>6, <1>7, <1>8, <1>9 DEF PowerNext

(* The main loop and the power manager only choose among the steps of      *)
(* SensorReading.                                                          *)
THEOREM PowerImplementsReading == PowerSpec => Spec
<1>1. PowerInit => Init
  BY DEF PowerInit
<1> QED BY <1>1, PowerStep, PTL DEF PowerSpec, Spec

(* Hence, for all bytes of the sensor and all the ways to sleep: the       *)
(* transfers implement the temperature machine's,                          *)
THEOREM PowerImplementsTransfers == PowerSpec => ImplementsMachine
  BY PowerImplementsReading, DriverImplementsTransfers

(* the handler takes every flag it is called for, reads end with a NACK,   *)
(* what is reported was measured, transfers shrink to their end, and the   *)
(* machine loses a wake-up only for the reasons it has.                    *)
THEOREM PowerKeepsReading ==
  PowerSpec => /\ []FlagsAreTaken /\ LastByteIsNacked /\ TemperatureArrives
               /\ TransferShrinks /\ CalledAtRest
               /\ Machine!NoTransferOverrun /\ Machine!ReportIsFresh
               /\ Machine!StallHasCause /\ Machine!StallIsForever
  BY PowerImplementsReading, FlagsTaken, LastByteNacked, TemperaturesArrive, TransfersShrink,
     CalledAtRestOnly, DriverMachineSteps

-----------------------------------------------------------------------------
(* What is known of the measurements in every state, and the power         *)
(* manager's own state.                                                    *)
Measurement ==
  /\ TypeOK
  /\ em1 \in 0..1
  /\ UnderWay => em1 = 1

Balance ==
  /\ requirement_em1 = em1 + One(requirement_on_em1_added) + One(others_em1)
  /\ requirement_on_em1_added \in BOOLEAN /\ others_em1 \in BOOLEAN

Modes ==
  /\ main \in {"run", "asleep", "awake"} /\ current_em \in {"EM0", "EM1", "EM2"}
  /\ is_states_saved \in BOOLEAN
  /\ clock_wakeup_timer \in BOOLEAN /\ sleep_on_isr_exit \in BOOLEAN
  /\ is_states_saved <=> current_em = "EM2"
  /\ current_em = "EM0" <=> main = "run"
  /\ current_em = "EM2" => requirement_em1 = 0

LEMMA MeasurementHolds == PowerSpec => []Measurement
  BY PowerImplementsReading, DriverTypes, EM1WhileUnderWay, PTL DEF Measurement

LEMMA InitPower == PowerInit => Balance /\ Modes
<1> SUFFICES ASSUME PowerInit
             PROVE  Balance /\ Modes
  OBVIOUS
<1>1. em1 = 0 /\ main = "run" /\ current_em = "EM0" /\ requirement_em1 = 0
  BY DEF PowerInit, Init
<1>2. ~requirement_on_em1_added /\ ~is_states_saved /\ ~others_em1
  BY DEF PowerInit
<1>3. /\ requirement_on_em1_added \in BOOLEAN /\ is_states_saved \in BOOLEAN
      /\ others_em1 \in BOOLEAN /\ clock_wakeup_timer \in BOOLEAN
      /\ sleep_on_isr_exit \in BOOLEAN
  BY DEF PowerInit
<1>4. Balance
  BY <1>1, <1>2, <1>3 DEF Balance, One
<1>5. Modes
  BY <1>1, <1>2, <1>3 DEF Modes
<1> QED BY <1>4, <1>5

LEMMA SleepKeeps ==
  ASSUME Measurement, Balance, Modes, GoToSleep
  PROVE  Balance' /\ Modes'
<1> PICK remaining \in {"none", "short", "long"} : SleepIn(remaining)
  BY DEF GoToSleep
<1> DEFINE released == requirement_em1 - One(requirement_on_em1_added)
           short == get_lowest_em(released) = "EM2" /\ remaining = "short"
<1>1. released = em1 + One(others_em1) /\ released \in 0..2
  BY DEF Measurement, Balance, One
<1>2. UNCHANGED <<em1, others_em1, sleep_on_isr_exit>>
  BY DEF SleepIn, vars, app
<1>3. /\ requirement_em1' = released + One(short)
      /\ current_em' = get_lowest_em(requirement_em1') /\ main' = "asleep"
  BY DEF SleepIn
<1>4. /\ clock_wakeup_timer' \in BOOLEAN /\ requirement_on_em1_added' \in BOOLEAN
      /\ is_states_saved' \in BOOLEAN
  BY DEF SleepIn, Modes
<1>5. /\ requirement_on_em1_added' <=> short
      /\ is_states_saved' <=> (current_em' = "EM2" \/ (is_states_saved /\ ~short))
  BY DEF SleepIn
<1> HIDE DEF short, released
<1>6. Balance'
  <2>1. One(requirement_on_em1_added') = One(short)
    BY <1>5 DEF One
  <2>2. requirement_em1' = em1' + One(requirement_on_em1_added') + One(others_em1')
    <3>1. One(short) \in 0..1 /\ One(others_em1) \in 0..1
      BY DEF One
    <3>2. One(others_em1') = One(others_em1)
      BY <1>2
    <3> QED BY <1>1, <1>2, <1>3, <2>1, <3>1, <3>2 DEF Measurement
  <2> QED BY <1>2, <1>4, <2>2 DEF Balance
<1>7. CASE short
  <2>1. released = 0
    BY <1>1, <1>7 DEF get_lowest_em, short
  <2>2. requirement_em1' = 1
    BY <1>3, <1>7, <2>1 DEF One
  <2>3. current_em' = "EM1"
    BY <1>3, <2>2 DEF get_lowest_em
  <2>4. ~is_states_saved'
    BY <1>5, <1>7, <2>3
  <2> QED BY <1>2, <1>3, <1>4, <1>6, <2>3, <2>4 DEF Modes
<1>8. CASE ~short
  <2>1. requirement_em1' = released
    BY <1>1, <1>3, <1>8 DEF One
  <2>2. CASE released = 0
    <3>1. current_em' = "EM2"
      BY <1>3, <2>1, <2>2 DEF get_lowest_em
    <3>2. is_states_saved'
      BY <1>5, <3>1
    <3> QED BY <1>2, <1>3, <1>4, <1>6, <2>1, <2>2, <3>1, <3>2 DEF Modes
  <2>3. CASE released > 0
    <3>1. current_em' = "EM1"
      BY <1>3, <2>1, <2>3 DEF get_lowest_em
    <3>2. requirement_em1 # 0
      BY <1>1, <2>3 DEF Balance, Measurement, One
    <3>3. ~is_states_saved'
      BY <1>5, <3>1, <3>2 DEF Modes
    <3> QED BY <1>2, <1>3, <1>4, <1>6, <3>1, <3>3 DEF Modes
  <2> QED BY <1>1, <2>2, <2>3
<1> QED BY <1>6, <1>7, <1>8

LEMMA ThreadKeeps ==
  ASSUME Measurement, Measurement', Balance, Modes, Thread
  PROVE  Balance' /\ Modes'
<1>1. main = "run" /\ current_em = "EM0" /\ main' = "run"
  BY DEF Thread, AppRequirement, Modes
<1>2. /\ requirement_em1' = requirement_em1 + (em1' - em1)
      /\ UNCHANGED <<current_em, is_states_saved, requirement_on_em1_added, clock_wakeup_timer,
                     sleep_on_isr_exit, others_em1>>
  BY <1>1 DEF Thread, AppRequirement, update_em_requirement
<1>3. Balance'
  BY <1>2 DEF Balance, Measurement, One
<1>4. Modes'
  BY <1>1, <1>2 DEF Modes
<1> QED BY <1>3, <1>4

LEMMA OthersKeep ==
  ASSUME Measurement, Balance, Modes, OthersRequirement
  PROVE  Balance' /\ Modes'
<1>1. UNCHANGED <<em1, main, requirement_on_em1_added, clock_wakeup_timer, sleep_on_isr_exit>>
  BY DEF OthersRequirement, vars, app
<1>2. /\ main # "asleep" /\ others_em1' = ~others_em1
      /\ requirement_em1' = requirement_em1 + (One(others_em1') - One(others_em1))
  BY DEF OthersRequirement, update_em_requirement
<1>3. others_em1' \in BOOLEAN /\ (others_em1' <=> ~others_em1)
  BY <1>2 DEF Balance
<1>4. Balance'
  BY <1>1, <1>2, <1>3 DEF Balance, Measurement, One
<1>5. CASE others_em1
  <2>1. current_em # "EM2"
    BY <1>5 DEF Balance, Measurement, Modes, One
  <2>2. UNCHANGED <<current_em, is_states_saved>>
    BY <2>1 DEF OthersRequirement, update_em_requirement
  <2> QED BY <1>1, <1>2, <1>4, <2>1, <2>2 DEF Modes
<1>6. CASE ~others_em1
  <2>1. One(others_em1') - One(others_em1) = 1
    BY <1>6, <1>3 DEF One
  <2>2. CASE current_em = "EM2"
    <3>1. current_em' = "EM1" /\ is_states_saved' = FALSE
      BY <2>1, <2>2 DEF OthersRequirement, update_em_requirement
    <3>2. current_em' = "EM1" /\ ~is_states_saved' /\ is_states_saved' \in BOOLEAN
      BY <3>1
    <3> QED BY <1>1, <1>2, <1>4, <2>2, <3>2 DEF Modes
  <2>3. CASE current_em # "EM2"
    <3>1. UNCHANGED <<current_em, is_states_saved>>
      BY <2>3 DEF OthersRequirement, update_em_requirement
    <3> QED BY <1>1, <1>2, <1>4, <2>3, <3>1 DEF Modes
  <2> QED BY <2>2, <2>3
<1> QED BY <1>5, <1>6

LEMMA TimersKeep ==
  ASSUME Balance, Modes, process_timer_irq \/ delta_list_insert_timer
  PROVE  Balance' /\ Modes'
<1>1. UNCHANGED <<em1, main, requirement_em1, requirement_on_em1_added, others_em1>>
  BY DEF process_timer_irq, delta_list_insert_timer, vars, app
<1>2. main # "asleep" /\ clock_wakeup_timer' \in BOOLEAN /\ sleep_on_isr_exit' \in BOOLEAN
  BY DEF process_timer_irq, delta_list_insert_timer, Modes
<1>3. \/ UNCHANGED <<current_em, is_states_saved>>
      \/ /\ current_em = "EM2" /\ current_em' = "EM1"
         /\ ~is_states_saved' /\ is_states_saved' \in BOOLEAN
  BY DEF process_timer_irq, delta_list_insert_timer, clock_restore, Modes
<1>4. Balance'
  BY <1>1 DEF Balance, One
<1>5. Modes'
  BY <1>1, <1>2, <1>3 DEF Modes
<1> QED BY <1>4, <1>5

LEMMA WakingKeeps ==
  ASSUME Measurement, Balance, Modes, Wake \/ WakeUp
  PROVE  Balance' /\ Modes'
<1>1. UNCHANGED <<em1, sleep_on_isr_exit, others_em1>>
  BY DEF Wake, WakeUp, vars, app
<1>2. CASE Wake
  BY <1>1, <1>2 DEF Wake, flags_em, Balance, Modes
<1>3. CASE WakeUp
  <2>1. /\ main' = "run" /\ current_em' = "EM0" /\ is_states_saved' = FALSE
        /\ requirement_em1' = requirement_em1 - One(requirement_on_em1_added)
        /\ requirement_on_em1_added' = FALSE /\ clock_wakeup_timer' = FALSE
    BY <1>3 DEF WakeUp
  <2>2. Balance'
    <3>1. requirement_on_em1_added' \in BOOLEAN /\ ~requirement_on_em1_added'
      BY <2>1
    <3> QED BY <1>1, <2>1, <3>1 DEF Balance, Measurement, One
  <2>3. Modes'
    BY <1>1, <2>1 DEF Modes
  <2> QED BY <2>2, <2>3
<1> QED BY <1>2, <1>3

(* Interrupt handlers and the controller never touch a requirement.        *)
LEMMA HardwareKeeps ==
  ASSUME Balance, Modes, UNCHANGED <<power, em1>>
  PROVE  Balance' /\ Modes'
  BY DEF power, flags_em, Balance, Modes

LEMMA PowerKeeps ==
  ASSUME Measurement, Measurement', Balance, Modes, [PowerNext]_power_vars
  PROVE  Balance' /\ Modes'
<1>1. CASE Thread
  BY <1>1, ThreadKeeps
<1>2. CASE OthersRequirement
  BY <1>2, OthersKeep
<1>3. CASE sl_power_manager_sleep \/ SleepAgain
  BY <1>3, SleepKeeps DEF sl_power_manager_sleep, SleepAgain
<1>4. CASE process_timer_irq \/ delta_list_insert_timer
  BY <1>4, TimersKeep
<1>5. CASE Wake \/ WakeUp
  BY <1>5, WakingKeeps
<1>6. CASE Interrupt(I2C0_IRQHandler)
  <2>1. UNCHANGED <<power, em1>>
    BY <1>6 DEF Interrupt, I2C0_IRQHandler, app
  <2> QED BY <2>1, HardwareKeeps
<1>7. CASE \E flags \in LETIMER0_Flags : Interrupt(LETIMER0_IRQHandler(flags))
  <2>1. UNCHANGED <<power, em1>>
    BY <1>7 DEF Interrupt, LETIMER0_IRQHandler
  <2> QED BY <2>1, HardwareKeeps
<1>8. CASE \/ Controller(Bus(si7021)) \/ \E error \in Errors : Controller(Disturbed(error))
           \/ Quiet(ConversionCompletes) /\ UNCHANGED power
  <2>1. UNCHANGED <<power, em1>>
    BY <1>8 DEF Controller, Quiet, app
  <2> QED BY <2>1, HardwareKeeps
<1>9. CASE UNCHANGED power_vars
  <2>1. UNCHANGED <<power, em1>>
    BY <1>9 DEF power_vars, vars, app
  <2> QED BY <2>1, HardwareKeeps
<1> QED BY <1>1, <1>2, <1>3, <1>4, <1>5, <1>6, <1>7, <1>8, <1>9 DEF PowerNext

LEMMA PowerHolds == PowerSpec => [](Measurement /\ Balance /\ Modes)
<1>1. Measurement /\ Measurement' /\ Balance /\ Modes /\ [PowerNext]_power_vars => Balance' /\ Modes'
  BY PowerKeeps
<1> QED BY <1>1, InitPower, MeasurementHolds, PTL DEF PowerSpec

(* All variables keep their types: above all, the counter of requirements  *)
(* neither overflows nor drops below 0.                                    *)
THEOREM PowerTypes == PowerSpec => []PowerTypeOK
<1>1. Measurement /\ Balance /\ Modes => PowerTypeOK
  BY DEF Measurement, Balance, One, Modes, PowerTypeOK
<1> QED BY <1>1, PowerHolds, PTL

(* The processor never sleeps in EM2 while a transfer is under way, the    *)
(* requirements balance, and the thread never runs without the clocks.     *)
THEOREM NothingIsStopped == PowerSpec => []EM2StopsNothing
<1>1. Measurement /\ Balance /\ Modes => EM2StopsNothing
  BY DEF Measurement, Balance, One, Modes, EM2StopsNothing, InEM2
<1> QED BY <1>1, PowerHolds, PTL

-----------------------------------------------------------------------------
(* Nothing waits for a processor that sleeps: the safety half of           *)
(* SignalsAreDelivered and TransferEnds.                                   *)

(* The processor sleeps only while no signal waits for the application,    *)
(* and never inside the thread's call of the driver.                       *)
SleepsIdle ==
  /\ main = "asleep" => signals = {}
  /\ thread # "app" => main = "run"

(* Whoever has a transfer's next step is awake, or will be woken: the      *)
(* thread runs, the handler's flag wakes the processor, or the controller  *)
(* has its clock.                                                          *)
TransferIsServed ==
  UnderControl =>
    \/ thread \in {"prepare", "start", "go"} /\ main = "run"
    \/ Interrupted
    \/ WireMoves /\ ~InEM2

LEMMA SleepsIdleKept ==
  ASSUME SleepsIdle, [PowerNext]_power_vars
  PROVE  SleepsIdle'
<1>1. CASE Thread
  BY <1>1 DEF Thread, AppRequirement, SleepsIdle
<1>2. CASE \/ Interrupt(I2C0_IRQHandler)
           \/ \E flags \in LETIMER0_Flags : Interrupt(LETIMER0_IRQHandler(flags))
  <2>1. main # "asleep" /\ main' = main /\ thread' = thread
    BY <1>2 DEF Interrupt, power, I2C0_IRQHandler, I2C0_IRQHandler_Body, TransferFault,
         NotAcknowledged, Acknowledged, DataReceived, StopSeen, LETIMER0_IRQHandler, driver_vars
  <2> QED BY <2>1 DEF SleepsIdle
<1>3. CASE \/ Controller(Bus(si7021)) \/ \E error \in Errors : Controller(Disturbed(error))
           \/ Quiet(ConversionCompletes) /\ UNCHANGED power
  <2>1. UNCHANGED <<main, thread, signals>>
    BY <1>3 DEF Controller, Quiet, power, Bus, AddressSent, ByteSent, ByteReceived, StopSent,
         Disturbed, ConversionCompletes
  <2> QED BY <2>1 DEF SleepsIdle
<1>4. CASE OthersRequirement \/ process_timer_irq \/ delta_list_insert_timer \/ UNCHANGED power_vars
  <2>1. UNCHANGED <<main, thread, signals>>
    BY <1>4 DEF OthersRequirement, process_timer_irq, delta_list_insert_timer, power_vars, power,
         vars, driver_vars
  <2> QED BY <2>1 DEF SleepsIdle
<1>5. CASE sl_power_manager_sleep
  BY <1>5 DEF sl_power_manager_sleep, GoToSleep, SleepIn, vars, driver_vars, SleepsIdle
<1>6. CASE SleepAgain
  <2>1. signals = {}
    BY <1>6 DEF SleepAgain, Answers, sl_power_manager_sleep_on_isr_exit
  <2>2. thread = "app"
    BY <1>6 DEF SleepAgain, SleepsIdle
  <2> QED BY <1>6, <2>1, <2>2 DEF SleepAgain, GoToSleep, SleepIn, vars, driver_vars, SleepsIdle
<1>7. CASE Wake \/ WakeUp
  <2>1. UNCHANGED <<thread, signals>> /\ main \in {"asleep", "awake"} /\ main' # "asleep"
    BY <1>7 DEF Wake, WakeUp, vars, driver_vars
  <2> QED BY <2>1 DEF SleepsIdle
<1> QED BY <1>1, <1>2, <1>3, <1>4, <1>5, <1>6, <1>7 DEF PowerNext

(* A signal raised at any point of going to sleep, waking or going back to *)
(* sleep is never slept on: with interrupts disabled the stack is asked    *)
(* after the last interrupt.                                               *)
THEOREM NoSignalSleptOn == PowerSpec => []SleepsIdle
<1>1. PowerInit => SleepsIdle
  BY DEF PowerInit, Init, DriverInit, SleepsIdle
<1>2. SleepsIdle /\ [PowerNext]_power_vars => SleepsIdle'
  BY SleepsIdleKept
<1> QED BY <1>1, <1>2, PTL DEF PowerSpec

(* A transfer that is not disturbed never waits for the processor: what    *)
(* moves it next is awake, clocked, or an interrupt that wakes it.         *)
THEOREM TransfersAreServed == PowerSpec => []TransferIsServed
<1>1. IInv /\ TransferGoesOn /\ SleepsIdle /\ EM2StopsNothing => TransferIsServed
  <2> SUFFICES ASSUME IInv, TransferGoesOn, SleepsIdle, EM2StopsNothing, UnderControl
               PROVE  TransferIsServed
    BY DEF TransferIsServed
  <2>1. CASE thread \in {"prepare", "start", "go"}
    BY <2>1 DEF SleepsIdle, TransferIsServed
  <2>2. CASE Interrupted
    BY <2>2 DEF TransferIsServed
  <2>3. CASE WireMoves /\ thread \notin {"prepare", "start", "go"}
    <3>1. UnderWay
      BY <2>3, ControlledPhase DEF UnderWay
    <3> QED BY <2>3, <3>1 DEF EM2StopsNothing, TransferIsServed
  <2> QED BY <2>1, <2>2, <2>3 DEF TransferGoesOn
<1> QED BY <1>1, PowerImplementsReading, InvariantHolds, TransfersGoOn,
           NoSignalSleptOn, NothingIsStopped, PTL
=============================================================================
