------------------------- MODULE TemperatureMachine -------------------------
(***************************************************************************)
(* The server's periodic temperature measurement: temperature_state_machine*)
(* of scheduler.c, run on the event-handling thread, and the interrupt     *)
(* handlers that wake it (LETIMER0, I2C0, GPIO).                           *)
(*                                                                         *)
(* A handler signals the thread with sl_bt_external_signal.  The stack     *)
(* keeps one bitmask of the signals raised since it last delivered them    *)
(* and delivers them in one event; the bitmask is the set signals here.    *)
(*                                                                         *)
(* The two fields of ble_data that gate the machine are set by the stack's *)
(* events; BleServer gives those events in full and refines this module.   *)
(***************************************************************************)
EXTENDS Naturals

VARIABLES
  next_state,                  \* static next_state of temperature_state_machine
  connection_open,             \* ble_data->connection_open
  ok_to_send_htm_indications,  \* ble_data->ok_to_send_htm_indications
  signals,                     \* external signals not yet delivered
  comp1,                       \* LETIMER0 COMP1 interrupt is enabled
  i2c,                         \* I2C transfer under way
  i2c_irq,                     \* I2C0 interrupt is enabled in the NVIC
  si7021,                      \* the sensor is powered
  em1,                         \* energy mode EM1 requirements held
  read_data                    \* how far the measurement got: the bytes in
                               \* read_data answer it only when "measured"

machine == <<next_state, signals, comp1, i2c, i2c_irq, si7021, em1, read_data>>
gate == <<connection_open, ok_to_send_htm_indications>>
vars == <<machine, gate>>

States == {"STATE_IDLE", "STATE_SI7021_ON", "STATE_I2C_SEND",
           "STATE_I2C_SEND_COMPLETE", "STATE_I2C_READ_COMPLETE"}
ButtonSignals == {"evtPB0_pressed", "evtPB0_released"}
Signals == {"evtLETIMER0_UF", "evtLETIMER0_COMP1", "evtI2C0_done"} \cup ButtonSignals

Init ==
  /\ next_state = "STATE_IDLE"
  /\ connection_open = FALSE
  /\ ok_to_send_htm_indications = FALSE
  /\ signals = {}
  /\ comp1 = FALSE
  /\ i2c = "none"
  /\ i2c_irq = FALSE
  /\ si7021 = FALSE
  /\ em1 = 0
  /\ read_data = "old"

-----------------------------------------------------------------------------
(* Interrupt handlers.                                                     *)

(* Mutant: the COMP1 interrupt stays enabled. *)
LETIMER0_IRQHandler_KeepsCOMP1(flags) ==
  /\ "evtLETIMER0_COMP1" \in flags => comp1
  /\ signals' = signals \cup flags
  /\ UNCHANGED <<next_state, comp1, i2c, i2c_irq, si7021, em1, read_data, gate>>

(* The timer runs free with a period of 3 s: an underflow may come at any  *)
(* time, a COMP1 match whenever its interrupt is enabled, or both at once. *)
LETIMER0_IRQHandler(flags) ==
  /\ "evtLETIMER0_COMP1" \in flags => comp1
  /\ signals' = signals \cup flags
  /\ comp1' = (comp1 /\ "evtLETIMER0_COMP1" \notin flags)
  /\ UNCHANGED <<next_state, i2c, i2c_irq, si7021, em1, read_data, gate>>

LETIMER0_Flags == SUBSET {"evtLETIMER0_UF", "evtLETIMER0_COMP1"} \ {{}}

(* The last interrupt of a transfer that succeeds.  A read only answers    *)
(* the measurement when the command was written before it.                 *)
I2C0_IRQHandler_Done ==
  /\ i2c # "none" /\ i2c_irq
  /\ i2c' = "none"
  /\ i2c_irq' = FALSE
  /\ signals' = signals \cup {"evtI2C0_done"}
  /\ read_data' = CASE i2c = "write" -> "commanded"
                    [] i2c = "read" /\ read_data = "commanded" -> "measured"
                    [] OTHER -> read_data
  /\ UNCHANGED <<next_state, comp1, si7021, em1, gate>>

(* A transfer that ends with an error (the sensor does not acknowledge,    *)
(* arbitration lost, bus error): it is logged and nothing is signalled.    *)
I2C0_IRQHandler_Error ==
  /\ i2c # "none" /\ i2c_irq
  /\ i2c' = "none"
  /\ UNCHANGED <<next_state, signals, comp1, i2c_irq, si7021, em1, read_data, gate>>

GPIO_EVEN_IRQHandler(signal) ==
  /\ signals' = signals \cup {signal}
  /\ UNCHANGED <<next_state, comp1, i2c, i2c_irq, si7021, em1, read_data, gate>>

-----------------------------------------------------------------------------
(* The functions the machine calls.                                        *)

(* Mutants: an interrupt that is not enabled, a requirement not added or   *)
(* not removed.                                                            *)
timerWaitUs_irq_NotEnabled == UNCHANGED comp1
I2C_TransferInit_NoIrq(kind) == i2c' = kind /\ UNCHANGED i2c_irq
em1_requirement_Forgotten == UNCHANGED em1

timerWaitUs_irq == comp1' = TRUE

I2C_TransferInit(kind) == i2c' = kind /\ i2c_irq' = TRUE

add_em1_requirement == em1' = em1 + 1
remove_em1_requirement == em1' = em1 - 1

-----------------------------------------------------------------------------
(* temperature_state_machine: one action per state that reacts.  A signal  *)
(* is compared with ==, so an event that merges two signals is none of     *)
(* those the machine looks for.                                            *)

Gate == connection_open /\ ok_to_send_htm_indications

(* Mutants: the state is not checked; next_state is not advanced.          *)
StartMeasurement_AnyState(extsignals) ==
  /\ Gate /\ extsignals = {"evtLETIMER0_UF"}
  /\ si7021' = TRUE
  /\ timerWaitUs_irq
  /\ read_data' = "old"
  /\ next_state' = "STATE_SI7021_ON"
  /\ UNCHANGED <<i2c, i2c_irq, em1>>

StartMeasurement(extsignals) ==
  /\ Gate
  /\ next_state = "STATE_IDLE" /\ extsignals = {"evtLETIMER0_UF"}
  /\ si7021' = TRUE
  /\ timerWaitUs_irq
  /\ read_data' = "old"
  /\ next_state' = "STATE_SI7021_ON"
  /\ UNCHANGED <<i2c, i2c_irq, em1>>

SendCommand(extsignals) ==
  /\ Gate
  /\ next_state = "STATE_SI7021_ON" /\ extsignals = {"evtLETIMER0_COMP1"}
  /\ add_em1_requirement
  /\ I2C_TransferInit("write")
  /\ next_state' = "STATE_I2C_SEND"
  /\ UNCHANGED <<comp1, si7021, read_data>>

(* Mutant: any signal is taken for the end of the transfer. *)
CommandSent_AnySignal(extsignals) ==
  /\ Gate
  /\ next_state = "STATE_I2C_SEND"
  /\ remove_em1_requirement
  /\ timerWaitUs_irq
  /\ next_state' = "STATE_I2C_SEND_COMPLETE"
  /\ UNCHANGED <<i2c, i2c_irq, si7021, read_data>>

CommandSent(extsignals) ==
  /\ Gate
  /\ next_state = "STATE_I2C_SEND" /\ extsignals = {"evtI2C0_done"}
  /\ remove_em1_requirement
  /\ timerWaitUs_irq
  /\ next_state' = "STATE_I2C_SEND_COMPLETE"
  /\ UNCHANGED <<i2c, i2c_irq, si7021, read_data>>

ReadResponse(extsignals) ==
  /\ Gate
  /\ next_state = "STATE_I2C_SEND_COMPLETE" /\ extsignals = {"evtLETIMER0_COMP1"}
  /\ add_em1_requirement
  /\ I2C_TransferInit("read")
  /\ next_state' = "STATE_I2C_READ_COMPLETE"
  /\ UNCHANGED <<comp1, si7021, read_data>>

(* ble_send_temp_value, called in this step, is BleServer's.               *)
(* Mutant: any signal is taken for the end of the transfer. *)
ReportTemperature_AnySignal(extsignals) ==
  /\ Gate
  /\ next_state = "STATE_I2C_READ_COMPLETE"
  /\ remove_em1_requirement
  /\ next_state' = "STATE_IDLE"
  /\ UNCHANGED <<comp1, i2c, i2c_irq, si7021, read_data>>

ReportTemperature(extsignals) ==
  /\ Gate
  /\ next_state = "STATE_I2C_READ_COMPLETE" /\ extsignals = {"evtI2C0_done"}
  /\ remove_em1_requirement
  /\ next_state' = "STATE_IDLE"
  /\ UNCHANGED <<comp1, i2c, i2c_irq, si7021, read_data>>

(* The signal each state reacts to. *)
Awaited ==
  CASE next_state = "STATE_IDLE" -> "evtLETIMER0_UF"
    [] next_state \in {"STATE_SI7021_ON", "STATE_I2C_SEND_COMPLETE"} -> "evtLETIMER0_COMP1"
    [] OTHER -> "evtI2C0_done"

Ignored(extsignals) ==
  /\ ~(Gate /\ extsignals = {Awaited})
  /\ UNCHANGED <<next_state, comp1, i2c, i2c_irq, si7021, em1, read_data>>

temperature_state_machine(extsignals) ==
  \/ StartMeasurement(extsignals)
  \/ SendCommand(extsignals)
  \/ CommandSent(extsignals)
  \/ ReadResponse(extsignals)
  \/ ReportTemperature(extsignals)
  \/ Ignored(extsignals)

(* The stack delivers the signals raised since the last such event. *)
ExternalSignal ==
  /\ signals # {}
  /\ signals' = {}
  /\ temperature_state_machine(signals)
  /\ UNCHANGED gate

-----------------------------------------------------------------------------
(* What handle_ble_event does to the gate on the stack's other events.     *)

ConnectionOpened ==
  /\ ~connection_open
  /\ connection_open' = TRUE
  /\ UNCHANGED <<machine, ok_to_send_htm_indications>>

ConnectionClosed ==
  /\ connection_open
  /\ connection_open' = FALSE
  /\ ok_to_send_htm_indications' = FALSE
  /\ UNCHANGED machine

(* The client enables or disables the indications of the temperature.      *)
ClientConfig(enabled) ==
  /\ connection_open
  /\ ok_to_send_htm_indications' = enabled
  /\ UNCHANGED <<machine, connection_open>>

IndicationTimeout ==
  /\ connection_open
  /\ ok_to_send_htm_indications' = FALSE
  /\ UNCHANGED <<machine, connection_open>>

Next ==
  \/ \E flags \in LETIMER0_Flags : LETIMER0_IRQHandler(flags)
  \/ I2C0_IRQHandler_Done
  \/ I2C0_IRQHandler_Error
  \/ \E signal \in ButtonSignals : GPIO_EVEN_IRQHandler(signal)
  \/ ExternalSignal
  \/ ConnectionOpened
  \/ ConnectionClosed
  \/ \E enabled \in BOOLEAN : ClientConfig(enabled)
  \/ IndicationTimeout

Spec == Init /\ [][Next]_vars

(* The timer never stops, a transfer always ends, one way or the other,    *)
(* and the main loop always comes back to the stack.                       *)
Underflows == \E flags \in LETIMER0_Flags :
                "evtLETIMER0_UF" \in flags /\ LETIMER0_IRQHandler(flags)
Comp1Matches == \E flags \in LETIMER0_Flags :
                  "evtLETIMER0_COMP1" \in flags /\ LETIMER0_IRQHandler(flags)

FairSpec ==
  /\ Spec
  /\ WF_vars(Underflows)
  /\ WF_vars(Comp1Matches)
  /\ WF_vars(I2C0_IRQHandler_Done \/ I2C0_IRQHandler_Error)
  /\ WF_vars(ExternalSignal)

-----------------------------------------------------------------------------
(* Type invariant. *)
TypeOK ==
  /\ next_state \in States
  /\ connection_open \in BOOLEAN
  /\ ok_to_send_htm_indications \in BOOLEAN
  /\ signals \in SUBSET Signals
  /\ comp1 \in BOOLEAN
  /\ i2c \in {"none", "write", "read"}
  /\ i2c_irq \in BOOLEAN
  /\ si7021 \in BOOLEAN
  /\ em1 \in Nat
  /\ read_data \in {"old", "commanded", "measured"}

(* The EM1 requirements added and removed on the two I2C waits balance     *)
(* whatever interleaving of interrupts, disconnections and I2C errors: the *)
(* power manager's counter never overflows or underflows, and EM2, which   *)
(* stops the I2C clock, is never entered while a transfer is under way on  *)
(* a powered sensor.                                                       *)
EM1HeldForTransfer ==
  /\ em1 = IF next_state \in {"STATE_I2C_SEND", "STATE_I2C_READ_COMPLETE"} THEN 1 ELSE 0
  /\ i2c # "none" => em1 = 1 /\ si7021 /\ i2c_irq

(* A wait has at most one wake-up on its way, and it is that wait's own: a *)
(* COMP1 or an I2C signal left behind by an abandoned measurement is never *)
(* there to wake a later state early.                                      *)
WakeupBelongsToWait ==
  /\ comp1 \/ "evtLETIMER0_COMP1" \in signals =>
       next_state \in {"STATE_SI7021_ON", "STATE_I2C_SEND_COMPLETE"}
  /\ ~(comp1 /\ "evtLETIMER0_COMP1" \in signals)
  /\ i2c = "write" => next_state = "STATE_I2C_SEND"
  /\ i2c = "read" => next_state = "STATE_I2C_READ_COMPLETE"
  /\ "evtI2C0_done" \in signals =>
       /\ next_state \in {"STATE_I2C_SEND", "STATE_I2C_READ_COMPLETE"}
       /\ i2c = "none"

(* The machine waits for a signal nobody will raise. *)
Stalled ==
  \/ /\ Awaited = "evtLETIMER0_COMP1"
     /\ ~comp1 /\ "evtLETIMER0_COMP1" \notin signals
  \/ /\ Awaited = "evtI2C0_done"
     /\ i2c = "none" /\ "evtI2C0_done" \notin signals

(* No transfer is started over one under way: I2C_TransferInit would abort *)
(* it and the transferSequence the interrupt handler works on is shared.   *)
NoTransferOverrun == [][i2c # "none" => i2c' \in {i2c, "none"}]_vars

(* A reported temperature was read after this measurement's command was    *)
(* written and waited for; read_data of an earlier one is never sent.      *)
ReportIsFresh ==
  [][next_state = "STATE_I2C_READ_COMPLETE" /\ next_state' = "STATE_IDLE"
       => read_data = "measured"]_vars

(* The only three ways to lose a wake-up: an I2C error, an event delivered *)
(* while the connection or the client's subscription is gone, and one that *)
(* merges the awaited signal with another.                                 *)
StallHasCause ==
  [][~Stalled /\ Stalled' =>
       \/ I2C0_IRQHandler_Error
       \/ signals' = {} /\ Awaited \in signals /\ (~Gate \/ signals # {Awaited})]_vars

(* A machine that lost its wake-up measures no more: not a reconnection,   *)
(* not a new subscription, not the next period restarts it.                *)
StallIsForever == [][Stalled => Stalled']_vars

(* As long as the client stays subscribed, no wake-up is lost and no button*)
(* is there to merge with one, every period starts a measurement: the one  *)
(* before has completed.                                                   *)
MeasuresPeriodically ==
  <>[](Gate /\ ~Stalled /\ signals \cap ButtonSignals = {})
    => []<>(next_state = "STATE_SI7021_ON")

(* sl_bt_api.h: extsignals is a bitmask of the signals received since the  *)
(* last event.  A machine that honours that reacts to the COMP1 or I2C     *)
(* signal it waits for, which is raised once, although the user presses or *)
(* releases the button before it is delivered; the code compares the mask  *)
(* with ==.  (A lost underflow in STATE_IDLE costs a period only, and      *)
(* underflow and COMP1 are seconds apart on the real timer: neither is     *)
(* asked about.)                                                           *)
AwaitedSignalActedOn ==
  [][Gate /\ next_state # "STATE_IDLE" /\ signals' = {}
       /\ Awaited \in signals /\ signals \subseteq ButtonSignals \cup {Awaited}
       => next_state' # next_state]_vars
=============================================================================
