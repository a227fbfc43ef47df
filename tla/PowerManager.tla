---------------------------- MODULE PowerManager ----------------------------
(***************************************************************************)
(* The main loop and sl_power_manager_sleep around the measurements of     *)
(* SensorReading: when the processor sleeps, how deep, and what wakes it.  *)
(*                                                                         *)
(* In EM2 the high-frequency clocks stop, and the I2C controller with      *)
(* them; LETIMER0, the button, the radio and the sleeptimer go on and wake *)
(* the processor.  With interrupts disabled, as they are from the check    *)
(* whether to sleep until the processor wakes, only the hardware moves.    *)
(*                                                                         *)
(* app_init and the sleeptimer hold an EM2 requirement for good, so the    *)
(* lowest mode is EM1 or EM2.  On the EFR32BG13 the clocks are ready as    *)
(* soon as they are asked for, so is_sleeping_waiting_for_clock_restore,   *)
(* is_actively_waiting_for_clock_restore, is_restored_from_hfxo_isr and    *)
(* is_hf_x_oscillator_not_preserved have no effect and are left out, and   *)
(* clock_restore_and_wait does what clock_restore does.                    *)
(***************************************************************************)
EXTENDS SensorReading

VARIABLES
  main,                    \* main loop: "run", "asleep", or "awake": woken but
                           \* still in the loop of sl_power_manager_sleep
  current_em,
  requirement_em1,         \* requirement_em_table[EM1 - 1]
  requirement_on_em1_added,
  is_states_saved,         \* the high-frequency clocks are off
  clock_wakeup_timer,      \* the internal timer for the early wake-up runs
  sleep_on_isr_exit,       \* it was the last timer to expire, alone
  others_em1               \* the radio or the UART hold an EM1 requirement

flags_em == <<requirement_on_em1_added, is_states_saved, clock_wakeup_timer>>
power == <<main, current_em, requirement_em1, flags_em, sleep_on_isr_exit, others_em1>>
power_vars == <<vars, power>>

PowerInit ==
  /\ Init
  /\ main = "run" /\ current_em = "EM0"
  /\ requirement_em1 = 0 /\ requirement_on_em1_added = FALSE
  /\ is_states_saved = FALSE
  /\ clock_wakeup_timer = FALSE /\ sleep_on_isr_exit = FALSE
  /\ others_em1 = FALSE

One(condition) == IF condition THEN 1 ELSE 0

get_lowest_em(requirement) == IF requirement > 0 THEN "EM1" ELSE "EM2"

-----------------------------------------------------------------------------
(* Requirements. *)

(* Mutant: an interrupt's requirement does not bring the clocks back. *)
update_em_requirement_NoRestore(change) ==
  /\ requirement_em1' = requirement_em1 + change
  /\ UNCHANGED <<current_em, is_states_saved>>

(* An EM1 requirement added by an interrupt that woke the processor from   *)
(* EM2 restores the clocks.                                                *)
update_em_requirement(change) ==
  /\ requirement_em1' = requirement_em1 + change
  /\ IF change > 0 /\ current_em = "EM2"
       THEN current_em' = "EM1" /\ is_states_saved' = FALSE
       ELSE UNCHANGED <<current_em, is_states_saved>>

(* The application's requirement is added and removed by the machine's     *)
(* steps, in the thread.                                                   *)
AppRequirement ==
  /\ update_em_requirement(em1' - em1)
  /\ UNCHANGED <<main, requirement_on_em1_added, clock_wakeup_timer, sleep_on_isr_exit, others_em1>>

(* The radio's and the UART's come and go, with interrupts too.            *)
OthersRequirement ==
  /\ main # "asleep"
  /\ others_em1' = ~others_em1
  /\ update_em_requirement(One(others_em1') - One(others_em1))
  /\ UNCHANGED <<vars, main, requirement_on_em1_added, clock_wakeup_timer, sleep_on_isr_exit>>

clock_restore ==
  IF is_states_saved
    THEN is_states_saved' = FALSE /\ current_em' = "EM1"
    ELSE UNCHANGED <<is_states_saved, current_em>>

-----------------------------------------------------------------------------
(* Going to sleep and waking up. *)

(* One round of the loop, up to the processor's sleep.  remaining is the   *)
(* time until the first timer of the sleeptimer, if there is one: too      *)
(* short for EM2, the power manager holds an EM1 requirement of its own    *)
(* for this sleep, and starts the clocks if they are off; otherwise its    *)
(* internal timer will start them early.                                   *)
SleepIn(remaining) ==
  LET released == requirement_em1 - One(requirement_on_em1_added)
      short == get_lowest_em(released) = "EM2" /\ remaining = "short"
      requirement == released + One(short)
  IN /\ main' = "asleep"
     /\ requirement_on_em1_added' = short
     /\ requirement_em1' = requirement
     /\ current_em' = get_lowest_em(requirement)
     /\ is_states_saved' = (current_em' = "EM2" \/ (is_states_saved /\ ~short))
     /\ clock_wakeup_timer' = (current_em' = "EM2" /\ remaining = "long")
     /\ UNCHANGED <<vars, sleep_on_isr_exit, others_em1>>

GoToSleep == \E remaining \in {"none", "short", "long"} : SleepIn(remaining)

(* Mutant: what an interrupt signalled since the last event is not seen. *)
sl_power_manager_sleep_NotChecked ==
  /\ main = "run" /\ thread = "app"
  /\ GoToSleep

(* Called by the main loop between two events, it returns at once unless   *)
(* the stack, asked with interrupts disabled, has nothing to do.           *)
sl_power_manager_sleep ==
  /\ main = "run" /\ thread = "app"
  /\ signals = {}
  /\ GoToSleep

(* An interrupt wakes the processor; it is taken when the power manager    *)
(* enables interrupts.  Some are of no concern here.                       *)
Wake ==
  /\ main = "asleep"
  /\ main' = "awake"
  /\ UNCHANGED <<vars, current_em, requirement_em1, flags_em, sleep_on_isr_exit, others_em1>>

(* The sleeptimer's interrupt: the internal timer, other timers, or both   *)
(* expired.                                                                *)
process_timer_irq ==
  /\ main # "asleep"
  /\ \/ /\ clock_wakeup_timer /\ clock_wakeup_timer' = FALSE
        /\ clock_restore
        /\ sleep_on_isr_exit' \in BOOLEAN
     \/ /\ sleep_on_isr_exit' = FALSE
        /\ UNCHANGED <<clock_wakeup_timer, is_states_saved, current_em>>
  /\ UNCHANGED <<vars, main, requirement_em1, requirement_on_em1_added, others_em1>>

(* A timer started by an interrupt, and due before the clocks could be     *)
(* restored for it, starts them at once.                                   *)
delta_list_insert_timer ==
  /\ main = "awake" /\ current_em = "EM2"
  /\ clock_restore
  /\ UNCHANGED <<vars, main, requirement_em1, requirement_on_em1_added, clock_wakeup_timer,
                 sleep_on_isr_exit, others_em1>>

(* The stack wakes the application for a signal; it and the UART may have  *)
(* other reasons.  The application's own hook never has one.               *)
Answers == IF signals # {} THEN {"WAKEUP"} ELSE {"IGNORE", "SLEEP", "WAKEUP"}

sl_power_manager_sleep_on_isr_exit(answer) ==
  answer = "SLEEP" \/ (answer = "IGNORE" /\ sleep_on_isr_exit)

SleepAgain ==
  /\ main = "awake" /\ ~Interrupted
  /\ \E answer \in Answers : sl_power_manager_sleep_on_isr_exit(answer)
  /\ GoToSleep

(* Back in the main loop, the clocks restored. *)
WakeUp ==
  /\ main = "awake" /\ ~Interrupted
  /\ \E answer \in Answers : ~sl_power_manager_sleep_on_isr_exit(answer)
  /\ main' = "run" /\ current_em' = "EM0"
  /\ is_states_saved' = FALSE
  /\ requirement_em1' = requirement_em1 - One(requirement_on_em1_added)
  /\ requirement_on_em1_added' = FALSE
  /\ clock_wakeup_timer' = FALSE
  /\ UNCHANGED <<vars, sleep_on_isr_exit, others_em1>>

-----------------------------------------------------------------------------
(* Composition with SensorReading: the thread runs in the main loop,       *)
(* interrupts are taken unless the processor sleeps, and the I2C           *)
(* controller has a clock unless it sleeps in EM2.                         *)

InEM2 == main = "asleep" /\ current_em = "EM2"

Thread == main = "run" /\ (ExternalSignal \/ GateEvent \/ Quiet(CallStep)) /\ AppRequirement

Interrupt(handler) == main # "asleep" /\ handler /\ UNCHANGED power

Controller(step) == ~InEM2 /\ Quiet(step) /\ UNCHANGED power

PowerNext ==
  \/ Thread
  \/ Interrupt(I2C0_IRQHandler)
  \/ \E flags \in LETIMER0_Flags : Interrupt(LETIMER0_IRQHandler(flags))
  \/ Controller(Bus(si7021))
  \/ \E error \in Errors : Controller(Disturbed(error))
  \/ Quiet(ConversionCompletes) /\ UNCHANGED power
  \/ OthersRequirement
  \/ sl_power_manager_sleep
  \/ Wake
  \/ process_timer_irq
  \/ delta_list_insert_timer
  \/ SleepAgain
  \/ WakeUp

PowerSpec == PowerInit /\ [][PowerNext]_power_vars

(* The thread goes on, signals are delivered before the main loop sleeps   *)
(* again, an enabled interrupt wakes the processor and is taken, its       *)
(* handlers end, and the controller goes on while it has a clock.          *)
FairPowerSpec ==
  /\ PowerSpec
  /\ WF_power_vars(Thread /\ Quiet(CallStep))
  /\ WF_power_vars(Thread /\ ExternalSignal)
  /\ WF_power_vars(Interrupt(I2C0_IRQHandler))
  /\ WF_power_vars(Interrupted /\ Wake)
  /\ WF_power_vars(SleepAgain \/ WakeUp)
  /\ WF_power_vars(Controller(Bus(si7021)))

-----------------------------------------------------------------------------
PowerTypeOK ==
  /\ TypeOK
  /\ main \in {"run", "asleep", "awake"}
  /\ current_em \in {"EM0", "EM1", "EM2"}
  /\ requirement_em1 \in 0..3
  /\ requirement_on_em1_added \in BOOLEAN /\ is_states_saved \in BOOLEAN
  /\ clock_wakeup_timer \in BOOLEAN /\ sleep_on_isr_exit \in BOOLEAN
  /\ others_em1 \in BOOLEAN

(* Whatever interrupts add and remove while the processor sleeps, wakes    *)
(* and goes back to sleep: the counter is the sum of the requirements that *)
(* are held; the processor never sleeps in EM2 on a transfer, whose clock  *)
(* it would stop, or on another's requirement; and the thread never runs   *)
(* without the clocks.                                                     *)
EM2StopsNothing ==
  /\ requirement_em1 = em1 + One(requirement_on_em1_added) + One(others_em1)
  /\ InEM2 => ~UnderWay /\ ~others_em1
  /\ is_states_saved <=> current_em = "EM2"
  /\ current_em = "EM0" <=> main = "run"

(* A signal raised at any point, while the power manager makes up its mind *)
(* too, reaches the application: the processor does not sleep on it.       *)
SignalsAreDelivered == signals # {} ~> signals = {}
=============================================================================
