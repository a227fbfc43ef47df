---------------------- MODULE TemperatureMachineProofs ----------------------
(***************************************************************************)
(* The invariants and action properties of TemperatureMachine, proved for  *)
(* every behaviour: the module has no parameter, but neither bound nor     *)
(* state enumeration is used.                                              *)
(***************************************************************************)
EXTENDS TemperatureMachine, TLAPS

(* How far the measurement got is determined by the state and by what is   *)
(* still on its way; it is what makes the other invariants inductive.      *)
MeasurementProgress ==
  /\ next_state # "STATE_IDLE" => si7021
  /\ next_state = "STATE_I2C_SEND" /\ "evtI2C0_done" \in signals => read_data = "commanded"
  /\ next_state = "STATE_I2C_SEND_COMPLETE" => read_data = "commanded"
  /\ i2c = "read" => read_data = "commanded"
  /\ next_state = "STATE_I2C_READ_COMPLETE" /\ "evtI2C0_done" \in signals
       => read_data = "measured"

IInv == TypeOK /\ EM1HeldForTransfer /\ WakeupBelongsToWait /\ MeasurementProgress

LEMMA InitIInv == Init => IInv
<1> SUFFICES ASSUME Init PROVE IInv
  OBVIOUS
<1>1. TypeOK
  BY DEF Init, TypeOK, States
<1>2. EM1HeldForTransfer
  BY DEF Init, EM1HeldForTransfer
<1>3. WakeupBelongsToWait
  BY DEF Init, WakeupBelongsToWait
<1>4. MeasurementProgress
  BY DEF Init, MeasurementProgress
<1> QED BY <1>1, <1>2, <1>3, <1>4 DEF IInv

-----------------------------------------------------------------------------
(* The interrupt handlers keep the invariant. *)

LEMMA LetimerKeeps ==
  ASSUME IInv, NEW flags \in LETIMER0_Flags, LETIMER0_IRQHandler(flags)
  PROVE  IInv'
<1>1. flags \subseteq {"evtLETIMER0_UF", "evtLETIMER0_COMP1"}
  BY DEF LETIMER0_Flags
<1>2. TypeOK'
  BY <1>1 DEF IInv, TypeOK, LETIMER0_IRQHandler, gate, Signals
<1>3. "evtI2C0_done" \in signals' <=> "evtI2C0_done" \in signals
  BY <1>1 DEF LETIMER0_IRQHandler
<1>4. EM1HeldForTransfer'
  BY DEF IInv, EM1HeldForTransfer, LETIMER0_IRQHandler
<1>5. WakeupBelongsToWait'
  BY <1>3 DEF IInv, TypeOK, WakeupBelongsToWait, LETIMER0_IRQHandler
<1>6. MeasurementProgress'
  BY <1>3 DEF IInv, MeasurementProgress, LETIMER0_IRQHandler
<1> QED BY <1>2, <1>4, <1>5, <1>6 DEF IInv

LEMMA DoneKeeps ==
  ASSUME IInv, I2C0_IRQHandler_Done
  PROVE  IInv'
<1>1. TypeOK'
  BY DEF IInv, TypeOK, I2C0_IRQHandler_Done, gate, Signals
<1>2. EM1HeldForTransfer'
  BY DEF IInv, EM1HeldForTransfer, I2C0_IRQHandler_Done
<1>3. WakeupBelongsToWait'
  BY DEF IInv, TypeOK, WakeupBelongsToWait, I2C0_IRQHandler_Done
<1>4. MeasurementProgress'
  BY DEF IInv, TypeOK, WakeupBelongsToWait, MeasurementProgress, I2C0_IRQHandler_Done
<1> QED BY <1>1, <1>2, <1>3, <1>4 DEF IInv

LEMMA ErrorKeeps ==
  ASSUME IInv, I2C0_IRQHandler_Error
  PROVE  IInv'
  BY DEF IInv, TypeOK, EM1HeldForTransfer, WakeupBelongsToWait, MeasurementProgress,
         I2C0_IRQHandler_Error, gate

LEMMA GpioKeeps ==
  ASSUME IInv, NEW signal \in ButtonSignals, GPIO_EVEN_IRQHandler(signal)
  PROVE  IInv'
<1>1. \A s \in {"evtI2C0_done", "evtLETIMER0_COMP1"} : s \in signals' <=> s \in signals
  BY DEF GPIO_EVEN_IRQHandler, ButtonSignals
<1>2. TypeOK'
  BY DEF IInv, TypeOK, GPIO_EVEN_IRQHandler, gate, Signals, ButtonSignals
<1> QED BY <1>1, <1>2 DEF IInv, EM1HeldForTransfer, WakeupBelongsToWait, MeasurementProgress,
         GPIO_EVEN_IRQHandler

-----------------------------------------------------------------------------
(* The delivery of the signals keeps it, whatever the machine does.        *)
LEMMA ExternalSignalKeeps ==
  ASSUME IInv, ExternalSignal
  PROVE  IInv'
<1> USE DEF IInv, TypeOK, States, EM1HeldForTransfer, WakeupBelongsToWait, MeasurementProgress
<1>1. signals' = {} /\ UNCHANGED <<connection_open, ok_to_send_htm_indications>>
  BY DEF ExternalSignal, gate
<1>2. CASE StartMeasurement(signals)
  BY <1>1, <1>2 DEF StartMeasurement, timerWaitUs_irq
<1>3. CASE SendCommand(signals)
  BY <1>1, <1>3 DEF SendCommand, add_em1_requirement, I2C_TransferInit
<1>4. CASE CommandSent(signals)
  BY <1>1, <1>4 DEF CommandSent, remove_em1_requirement, timerWaitUs_irq
<1>5. CASE ReadResponse(signals)
  BY <1>1, <1>5 DEF ReadResponse, add_em1_requirement, I2C_TransferInit
<1>6. CASE ReportTemperature(signals)
  BY <1>1, <1>6 DEF ReportTemperature, remove_em1_requirement
<1>7. CASE Ignored(signals)
  BY <1>1, <1>7 DEF Ignored
<1> QED BY <1>2, <1>3, <1>4, <1>5, <1>6, <1>7 DEF ExternalSignal, temperature_state_machine

(* The stack's other events only move the gate. *)
LEMMA GateKeeps ==
  ASSUME IInv, UNCHANGED machine,
         connection_open' \in BOOLEAN, ok_to_send_htm_indications' \in BOOLEAN
  PROVE  IInv'
  BY DEF IInv, TypeOK, EM1HeldForTransfer, WakeupBelongsToWait, MeasurementProgress, machine

LEMMA GateEvents ==
  ASSUME TypeOK, \/ ConnectionOpened \/ ConnectionClosed \/ IndicationTimeout
                 \/ \E enabled \in BOOLEAN : ClientConfig(enabled)
                 \/ UNCHANGED vars
  PROVE  /\ UNCHANGED machine
         /\ connection_open' \in BOOLEAN /\ ok_to_send_htm_indications' \in BOOLEAN
  BY DEF TypeOK, ConnectionOpened, ConnectionClosed, IndicationTimeout, ClientConfig, vars, gate

LEMMA NextKeeps == IInv /\ [Next]_vars => IInv'
  BY LetimerKeeps, DoneKeeps, ErrorKeeps, GpioKeeps, ExternalSignalKeeps, GateKeeps, GateEvents
     DEF Next, IInv

-----------------------------------------------------------------------------
LEMMA InvariantHolds == Spec => []IInv
  BY InitIInv, NextKeeps, PTL DEF Spec

(* Type correctness, and that EM1 is held exactly while the machine waits  *)
(* for I2C, and that every wake-up on its way is the current wait's own.   *)
THEOREM MachineInvariant ==
  Spec => [](TypeOK /\ EM1HeldForTransfer /\ WakeupBelongsToWait)
  BY InvariantHolds, PTL DEF IInv

(* The machine's variables keep to their values. *)
THEOREM MachineTypes == Spec => []TypeOK
  BY MachineInvariant, PTL

(* A COMP1 or I2C signal on its way is the one the current state awaits:   *)
(* no wake-up outlives its wait.                                           *)
THEOREM WakeupsBelong == Spec => []WakeupBelongsToWait
  BY MachineInvariant, PTL

(* send_I2C_command and read_I2C_response never run while a transfer is    *)
(* under way.                                                              *)
THEOREM TransfersDoNotOverlap == Spec => NoTransferOverrun
<1>1. ASSUME IInv, [Next]_vars, i2c # "none"
      PROVE  i2c' \in {i2c, "none"}
  <2>1. signals = {} \/ (Awaited = "evtI2C0_done" /\ signals # {Awaited})
    BY <1>1 DEF IInv, TypeOK, WakeupBelongsToWait, Awaited
  <2>2. CASE ExternalSignal
    <3>1. ~(\E s \in {"evtLETIMER0_UF", "evtLETIMER0_COMP1"} : signals = {s} /\ s = Awaited)
      BY <2>1
    <3> QED BY <1>1, <2>2, <2>1
            DEF ExternalSignal, temperature_state_machine, Ignored, StartMeasurement,
                SendCommand, CommandSent, ReadResponse, ReportTemperature,
                IInv, TypeOK, WakeupBelongsToWait
  <2>3. CASE \E flags \in LETIMER0_Flags : LETIMER0_IRQHandler(flags)
    BY <2>3 DEF LETIMER0_IRQHandler
  <2>4. CASE I2C0_IRQHandler_Done \/ I2C0_IRQHandler_Error
    BY <2>4 DEF I2C0_IRQHandler_Done, I2C0_IRQHandler_Error
  <2>5. CASE \E signal \in ButtonSignals : GPIO_EVEN_IRQHandler(signal)
    BY <2>5 DEF GPIO_EVEN_IRQHandler
  <2>6. CASE \/ ConnectionOpened \/ ConnectionClosed \/ IndicationTimeout
             \/ \E enabled \in BOOLEAN : ClientConfig(enabled)
             \/ UNCHANGED vars
    BY <1>1, <2>6, GateEvents DEF IInv, machine
  <2> QED BY <1>1, <2>2, <2>3, <2>4, <2>5, <2>6 DEF Next
<1>2. IInv /\ [Next]_vars => (i2c # "none" => i2c' \in {i2c, "none"})
  BY <1>1
<1> QED BY <1>2, InvariantHolds, PTL DEF Spec, NoTransferOverrun

(* The temperature that is reported answers the command of this            *)
(* measurement, written and waited for.                                    *)
THEOREM ReportsAreFresh == Spec => ReportIsFresh
<1>1. ASSUME IInv, [Next]_vars,
             next_state = "STATE_I2C_READ_COMPLETE", next_state' = "STATE_IDLE"
      PROVE  read_data = "measured"
  <2>1. ~ UNCHANGED machine
    BY <1>1 DEF machine
  <2>2. ExternalSignal
    BY <1>1, <2>1, GateEvents
       DEF Next, IInv, LETIMER0_IRQHandler, I2C0_IRQHandler_Done, I2C0_IRQHandler_Error,
           GPIO_EVEN_IRQHandler
  <2>3. ReportTemperature(signals)
    BY <1>1, <2>2 DEF ExternalSignal, temperature_state_machine, Ignored, StartMeasurement,
                      SendCommand, CommandSent, ReadResponse
  <2>4. "evtI2C0_done" \in signals
    BY <2>3 DEF ReportTemperature
  <2> QED BY <1>1, <2>4 DEF IInv, MeasurementProgress
<1>2. IInv /\ [Next]_vars =>
        (next_state = "STATE_I2C_READ_COMPLETE" /\ next_state' = "STATE_IDLE"
           => read_data = "measured")
  BY <1>1
<1> QED BY <1>2, InvariantHolds, PTL DEF Spec, ReportIsFresh

(* Once its wake-up is lost the machine never leaves its state again.      *)
THEOREM StallsAreForever == Spec => StallIsForever
<1>1. ASSUME IInv, [Next]_vars, Stalled
      PROVE  Stalled'
  <2>1. Awaited \notin signals
    BY <1>1 DEF Stalled, IInv, TypeOK
  <2>2. i2c = "none" /\ ~comp1
    BY <1>1 DEF Stalled, Awaited, IInv, TypeOK, States, WakeupBelongsToWait
  <2>3. CASE ExternalSignal
    <3>1. Ignored(signals)
      BY <2>1, <2>3 DEF ExternalSignal, temperature_state_machine, StartMeasurement,
           SendCommand, CommandSent, ReadResponse, ReportTemperature, Awaited
    <3>2. next_state' = next_state /\ signals' = {} /\ comp1' = comp1 /\ i2c' = i2c
      BY <2>3, <3>1 DEF ExternalSignal, Ignored
    <3> QED BY <1>1, <3>2 DEF Stalled, Awaited
  <2>4. CASE \E flags \in LETIMER0_Flags : LETIMER0_IRQHandler(flags)
    <3>1. PICK flags \in LETIMER0_Flags : LETIMER0_IRQHandler(flags)
      BY <2>4
    <3>2. flags \subseteq {"evtLETIMER0_UF"}
      BY <2>2, <3>1 DEF LETIMER0_IRQHandler, LETIMER0_Flags
    <3>3. /\ next_state' = next_state /\ i2c' = i2c /\ ~comp1'
          /\ "evtI2C0_done" \in signals' <=> "evtI2C0_done" \in signals
          /\ "evtLETIMER0_COMP1" \in signals' <=> "evtLETIMER0_COMP1" \in signals
      BY <2>2, <3>1, <3>2 DEF LETIMER0_IRQHandler
    <3> QED BY <1>1, <2>2, <3>3 DEF Stalled, Awaited
  <2>5. CASE \E signal \in ButtonSignals : GPIO_EVEN_IRQHandler(signal)
    <3>1. /\ next_state' = next_state /\ i2c' = i2c /\ comp1' = comp1
          /\ "evtI2C0_done" \in signals' <=> "evtI2C0_done" \in signals
          /\ "evtLETIMER0_COMP1" \in signals' <=> "evtLETIMER0_COMP1" \in signals
      BY <2>5 DEF GPIO_EVEN_IRQHandler, ButtonSignals
    <3> QED BY <1>1, <3>1 DEF Stalled, Awaited
  <2>6. ~(I2C0_IRQHandler_Done \/ I2C0_IRQHandler_Error)
    BY <2>2 DEF I2C0_IRQHandler_Done, I2C0_IRQHandler_Error
  <2>7. CASE \/ ConnectionOpened \/ ConnectionClosed \/ IndicationTimeout
             \/ \E enabled \in BOOLEAN : ClientConfig(enabled)
             \/ UNCHANGED vars
    <3>1. UNCHANGED machine
      BY <1>1, <2>7, GateEvents DEF IInv
    <3> QED BY <1>1, <3>1 DEF Stalled, Awaited, machine
  <2> QED BY <1>1, <2>3, <2>4, <2>5, <2>6, <2>7 DEF Next
<1>2. IInv /\ [Next]_vars => (Stalled => Stalled')
  BY <1>1
<1> QED BY <1>2, InvariantHolds, PTL DEF Spec, StallIsForever

(* A machine that loses its wake-up lost it to an I2C error, to a closed   *)
(* gate or to a merged event, and to nothing else.                         *)
THEOREM StallsHaveCauses == Spec => StallHasCause
<1> DEFINE Cause == \/ I2C0_IRQHandler_Error
                    \/ signals' = {} /\ Awaited \in signals /\ (~Gate \/ signals # {Awaited})
<1>1. ASSUME IInv, [Next]_vars, ~Stalled, Stalled'
      PROVE  Cause
  <2>1. CASE ExternalSignal
    <3>1. signals' = {}
      BY <2>1 DEF ExternalSignal
    <3>2. CASE Ignored(signals)
      <4>1. next_state' = next_state /\ comp1' = comp1 /\ i2c' = i2c
        BY <3>2 DEF Ignored
      <4>2. Awaited \in signals
        BY <1>1, <3>1, <4>1 DEF Stalled, Awaited, IInv, TypeOK, WakeupBelongsToWait
      <4> QED BY <3>1, <3>2, <4>2 DEF Ignored
    <3>3. CASE ~Ignored(signals)
      <4>1. ~Stalled'
        BY <2>1, <3>1, <3>3 DEF ExternalSignal, temperature_state_machine, StartMeasurement,
             SendCommand, CommandSent, ReadResponse, ReportTemperature, Stalled, Awaited,
             timerWaitUs_irq, I2C_TransferInit
      <4> QED BY <1>1, <4>1
    <3> QED BY <3>2, <3>3
  <2>2. CASE \E flags \in LETIMER0_Flags : LETIMER0_IRQHandler(flags)
    <3>1. PICK flags \in LETIMER0_Flags : LETIMER0_IRQHandler(flags)
      BY <2>2
    <3>2. next_state' = next_state /\ i2c' = i2c /\ signals \subseteq signals'
      BY <3>1 DEF LETIMER0_IRQHandler
    <3>3. comp1 /\ ~comp1' => "evtLETIMER0_COMP1" \in signals'
      BY <3>1 DEF LETIMER0_IRQHandler
    <3> QED BY <1>1, <3>2, <3>3 DEF Stalled, Awaited, IInv, TypeOK
  <2>3. CASE \E signal \in ButtonSignals : GPIO_EVEN_IRQHandler(signal)
    <3>1. next_state' = next_state /\ i2c' = i2c /\ comp1' = comp1 /\ signals \subseteq signals'
      BY <2>3 DEF GPIO_EVEN_IRQHandler
    <3> QED BY <1>1, <3>1 DEF Stalled, Awaited
  <2>4. CASE I2C0_IRQHandler_Done
    BY <1>1, <2>4 DEF I2C0_IRQHandler_Done, Stalled, Awaited
  <2>5. CASE \/ ConnectionOpened \/ ConnectionClosed \/ IndicationTimeout
             \/ \E enabled \in BOOLEAN : ClientConfig(enabled)
             \/ UNCHANGED vars
    <3>1. UNCHANGED machine
      BY <1>1, <2>5, GateEvents DEF IInv
    <3> QED BY <1>1, <3>1 DEF Stalled, Awaited, machine
  <2> QED BY <1>1, <2>1, <2>2, <2>3, <2>4, <2>5 DEF Next
<1>2. IInv /\ [Next]_vars => (~Stalled /\ Stalled' => Cause)
  BY <1>1
<1> QED BY <1>2, InvariantHolds, PTL DEF Spec, StallHasCause

-----------------------------------------------------------------------------
(* A measurement that lost no wake-up goes on.                             *)

(* What a wait waits for is raised already, or its interrupt is enabled:   *)
(* never both, so that no second one is left over for a later wait.        *)
WakeupIsDue ==
  ~Stalled =>
    /\ Awaited = "evtLETIMER0_COMP1" => (comp1 <=> "evtLETIMER0_COMP1" \notin signals)
    /\ Awaited = "evtI2C0_done" => (i2c # "none" <=> "evtI2C0_done" \notin signals)
                                     /\ (i2c # "none" => i2c_irq)

(* The states of one measurement, in their order. *)
Following ==
  CASE next_state = "STATE_IDLE" -> "STATE_SI7021_ON"
    [] next_state = "STATE_SI7021_ON" -> "STATE_I2C_SEND"
    [] next_state = "STATE_I2C_SEND" -> "STATE_I2C_SEND_COMPLETE"
    [] next_state = "STATE_I2C_SEND_COMPLETE" -> "STATE_I2C_READ_COMPLETE"
    [] OTHER -> "STATE_IDLE"

(* Each delivery of what the state awaits is the next step of the          *)
(* measurement, in particular the first underflow after one has ended is   *)
(* the start of the next; nothing else moves it, on or back.               *)
MeasurementComesCloser ==
  [][/\ next_state' # next_state => next_state' = Following /\ signals = {Awaited} /\ Gate
     /\ Gate /\ ~Stalled' /\ signals \cap ButtonSignals = {} =>
          (Awaited \in signals \ signals' => next_state' = Following)]_vars

LEMMA DeliveryMovesOn ==
  ASSUME IInv, ExternalSignal, Gate, ~Stalled', signals \cap ButtonSignals = {},
         Awaited \in signals
  PROVE  signals = {Awaited}
<1>1. signals \subseteq {"evtLETIMER0_UF", "evtLETIMER0_COMP1", "evtI2C0_done"}
  BY DEF IInv, TypeOK, Signals
<1>2. CASE next_state = "STATE_IDLE"
  BY <1>1, <1>2 DEF IInv, WakeupBelongsToWait, Awaited
<1>3. CASE next_state # "STATE_IDLE" /\ signals # {Awaited}
  <2>1. UNCHANGED <<next_state, comp1, i2c>> /\ signals' = {}
    BY <1>3 DEF ExternalSignal, temperature_state_machine, StartMeasurement, SendCommand,
                CommandSent, ReadResponse, ReportTemperature, Ignored, Awaited
  <2>2. ~comp1 \/ Awaited # "evtLETIMER0_COMP1"
    BY DEF IInv, WakeupBelongsToWait
  <2>3. i2c = "none" \/ Awaited # "evtI2C0_done"
    BY DEF IInv, WakeupBelongsToWait
  <2>4. Awaited' = Awaited /\ Awaited \in {"evtLETIMER0_COMP1", "evtI2C0_done"}
    BY <1>3, <2>1 DEF Awaited, IInv, TypeOK, States
  <2>5. Stalled'
    BY <2>1, <2>2, <2>3, <2>4 DEF Stalled
  <2> QED BY <2>5
<1> QED BY <1>2, <1>3

(* With its causes of a stall (StallsHaveCauses), the safety half of       *)
(* MeasuresPeriodically: what a measurement waits for is due, and each     *)
(* delivery of it takes the measurement one state on.                      *)
THEOREM MeasurementsComeCloser == Spec => []WakeupIsDue /\ MeasurementComesCloser
<1>1. IInv => WakeupIsDue
  BY DEF IInv, WakeupBelongsToWait, EM1HeldForTransfer, WakeupIsDue, Stalled
<1> DEFINE A == /\ next_state' # next_state =>
                     next_state' = Following /\ signals = {Awaited} /\ Gate
                /\ Gate /\ ~Stalled' /\ signals \cap ButtonSignals = {} =>
                     (Awaited \in signals \ signals' => next_state' = Following)
<1>2. IInv /\ [Next]_vars => [A]_vars
  <2> SUFFICES ASSUME IInv, Next PROVE A
    OBVIOUS
  <2>1. CASE ExternalSignal
    <3>1. \/ next_state' = Following /\ signals = {Awaited} /\ Gate
          \/ next_state' = next_state /\ ~(Gate /\ signals = {Awaited})
      BY <2>1 DEF ExternalSignal, temperature_state_machine, StartMeasurement, SendCommand,
                  CommandSent, ReadResponse, ReportTemperature, Ignored, Awaited, Following
    <3>2. Gate /\ ~Stalled' /\ signals \cap ButtonSignals = {} /\ Awaited \in signals
            => signals = {Awaited}
      BY <2>1, DeliveryMovesOn
    <3> QED BY <3>1, <3>2
  <2>2. CASE ~ExternalSignal
    <3>1. next_state' = next_state
      BY <2>2 DEF Next, LETIMER0_IRQHandler, I2C0_IRQHandler_Done, I2C0_IRQHandler_Error,
                  GPIO_EVEN_IRQHandler, ConnectionOpened, ConnectionClosed, ClientConfig,
                  IndicationTimeout, machine
    <3>2. signals \subseteq signals'
      BY <2>2 DEF Next, LETIMER0_IRQHandler, I2C0_IRQHandler_Done, I2C0_IRQHandler_Error,
                  GPIO_EVEN_IRQHandler, ConnectionOpened, ConnectionClosed, ClientConfig,
                  IndicationTimeout, machine
    <3> QED BY <3>1, <3>2
  <2> QED BY <2>1, <2>2
<1> QED BY <1>1, <1>2, InvariantHolds, PTL DEF Spec, MeasurementComesCloser
=============================================================================
