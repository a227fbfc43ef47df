---------------------------- MODULE SensorReading ---------------------------
(***************************************************************************)
(* A temperature measurement from the timer's underflow to the bytes of    *)
(* the indication: temperature_state_machine over the transfers of         *)
(* I2cDriver and the encoding of TemperatureCodec.                         *)
(*                                                                         *)
(* TemperatureMachine takes a transfer for one step of its handler; this   *)
(* module shows that the driver lives up to that.                          *)
(***************************************************************************)
EXTENDS I2cDriver, TemperatureCodec

VARIABLES
  next_state, connection_open, ok_to_send_htm_indications,
  signals, comp1, si7021, em1,    \* as in TemperatureMachine
  htm_temperature_buffer,         \* bytes last sent, <<>> before the first
  measured                        \* history: progress of the measurement

gate == <<connection_open, ok_to_send_htm_indications>>
app == <<next_state, comp1, si7021, em1, htm_temperature_buffer>>
vars == <<driver_vars, app, gate, signals, measured>>

Init ==
  /\ DriverInit
  /\ next_state = "STATE_IDLE"
  /\ connection_open = FALSE /\ ok_to_send_htm_indications = FALSE
  /\ signals = {} /\ comp1 = FALSE /\ si7021 = FALSE /\ em1 = 0
  /\ htm_temperature_buffer = <<>>
  /\ measured = "old"

-----------------------------------------------------------------------------
(* Interrupts. *)

LETIMER0_IRQHandler(flags) ==
  /\ "evtLETIMER0_COMP1" \in flags => comp1
  /\ signals' = signals \cup flags
  /\ comp1' = (comp1 /\ "evtLETIMER0_COMP1" \notin flags)
  /\ UNCHANGED <<driver_vars, next_state, si7021, em1, htm_temperature_buffer, gate, measured>>

LETIMER0_Flags == SUBSET {"evtLETIMER0_UF", "evtLETIMER0_COMP1"} \ {{}}

Progress ==
  CASE sequence = "write" -> "commanded"
    [] sequence = "read" /\ measured = "commanded" -> "measured"
    [] OTHER -> measured

(* Mutant: the end of a transfer is signalled whatever its result. *)
I2C0_IRQHandler_AnyResult ==
  /\ I2C0_IRQHandler_Body
  /\ IF state' = "Done"
       THEN signals' = signals \cup {"evtI2C0_done"} /\ measured' = Progress
       ELSE UNCHANGED <<signals, measured>>
  /\ UNCHANGED <<app, gate>>

I2C0_IRQHandler ==
  /\ I2C0_IRQHandler_Body
  /\ IF state' = "Done" /\ result' = "Done"
       THEN signals' = signals \cup {"evtI2C0_done"} /\ measured' = Progress
       ELSE UNCHANGED <<signals, measured>>
  /\ UNCHANGED <<app, gate>>

-----------------------------------------------------------------------------
(* The thread.  The machine's step that starts a transfer adds the EM1     *)
(* requirement before the call and sets next_state, which only the thread  *)
(* looks at, after it.                                                     *)

Delivered(state_, signal) ==
  /\ connection_open /\ ok_to_send_htm_indications
  /\ next_state = state_ /\ signals = {signal}

StartMeasurement ==
  /\ Delivered("STATE_IDLE", "evtLETIMER0_UF")
  /\ si7021' = TRUE /\ comp1' = TRUE
  /\ next_state' = "STATE_SI7021_ON"
  /\ measured' = "old"
  /\ UNCHANGED <<driver_vars, em1, htm_temperature_buffer>>

Call(kind, from, to) ==
  /\ Delivered(from, "evtLETIMER0_COMP1")
  /\ em1' = em1 + 1
  /\ CallTransfer(kind)
  /\ next_state' = to
  /\ UNCHANGED <<comp1, si7021, htm_temperature_buffer, measured>>

CommandSent ==
  /\ Delivered("STATE_I2C_SEND", "evtI2C0_done")
  /\ em1' = em1 - 1 /\ comp1' = TRUE
  /\ next_state' = "STATE_I2C_SEND_COMPLETE"
  /\ UNCHANGED <<driver_vars, si7021, htm_temperature_buffer, measured>>

ReportTemperature ==
  /\ Delivered("STATE_I2C_READ_COMPLETE", "evtI2C0_done")
  /\ em1' = em1 - 1
  /\ \E t \in get_temp_value(read_data) : htm_temperature_buffer' = Buffer(t)
  /\ next_state' = "STATE_IDLE"
  /\ UNCHANGED <<driver_vars, comp1, si7021, measured>>

Awaited ==
  CASE next_state = "STATE_IDLE" -> "evtLETIMER0_UF"
    [] next_state \in {"STATE_SI7021_ON", "STATE_I2C_SEND_COMPLETE"} -> "evtLETIMER0_COMP1"
    [] OTHER -> "evtI2C0_done"

Ignored == ~Delivered(next_state, Awaited) /\ UNCHANGED <<driver_vars, app, measured>>

ExternalSignal ==
  /\ thread = "app" /\ signals # {}
  /\ signals' = {}
  /\ \/ StartMeasurement
     \/ Call("write", "STATE_SI7021_ON", "STATE_I2C_SEND")
     \/ CommandSent
     \/ Call("read", "STATE_I2C_SEND_COMPLETE", "STATE_I2C_READ_COMPLETE")
     \/ ReportTemperature
     \/ Ignored
  /\ UNCHANGED gate

(* The stack's events that open and close the gate, as in                  *)
(* TemperatureMachine.                                                     *)
ConnectionOpened ==
  ~connection_open /\ connection_open' = TRUE /\ UNCHANGED ok_to_send_htm_indications

ConnectionClosed ==
  connection_open /\ connection_open' = FALSE /\ ok_to_send_htm_indications' = FALSE

ClientConfig(enabled) ==
  connection_open /\ ok_to_send_htm_indications' = enabled /\ UNCHANGED connection_open

IndicationTimeout ==
  connection_open /\ ok_to_send_htm_indications' = FALSE /\ UNCHANGED connection_open

GateEvent ==
  /\ thread = "app"
  /\ \/ ConnectionOpened \/ ConnectionClosed
     \/ \E enabled \in BOOLEAN : ClientConfig(enabled)
     \/ IndicationTimeout
  /\ UNCHANGED <<driver_vars, app, signals, measured>>

Quiet(step) == step /\ UNCHANGED <<app, gate, signals, measured>>

Next ==
  \/ \E flags \in LETIMER0_Flags : LETIMER0_IRQHandler(flags)
  \/ I2C0_IRQHandler
  \/ ExternalSignal
  \/ GateEvent
  \/ Quiet(CallStep)
  \/ Quiet(Bus(si7021))
  \/ Quiet(ConversionCompletes)
  \/ \E error \in Errors : Quiet(Disturbed(error))

Spec == Init /\ [][Next]_vars

-----------------------------------------------------------------------------
(* The transfer is the application's until the driver gives up or is done. *)
UnderWay == thread = "prepare" \/ (IEN /\ state # "Done")

Machine == INSTANCE TemperatureMachine WITH
  i2c <- IF UnderWay THEN sequence ELSE "none",
  i2c_irq <- NVIC,
  read_data <- measured

(* The machine over the driver is a machine over atomic transfers: for all *)
(* interleavings of the call with the handler and all ways a transfer can  *)
(* fail, a transfer is signalled once, after its bytes were exchanged, or  *)
(* not at all.                                                             *)
ImplementsMachine == Machine!Spec

TypeOK ==
  /\ thread \in Threads /\ sequence \in {"write", "read"}
  /\ state \in TransferStates /\ result \in Results /\ offset \in 0..2
  /\ read_data \in [1..2 -> Byte]
  /\ IF_ \subseteq Flags /\ IEN \in BOOLEAN /\ NVIC \in BOOLEAN
  /\ bus \in {"idle", "busy", "address", "held", "transmit", "receive", "unanswered",
              "nacked", "stop"}
  /\ reply \in {"none", "ACK", "NACK"} /\ RXDATA \in Byte
  /\ sensor \in [conversion : {"none", "running", "complete"}, code : Codes \cup {None},
                 sent : Nat]

(* I2C0_IRQHandler is called as long as a flag is up: whenever it is, the  *)
(* transfer is in a state that takes one of the flags, or the processor    *)
(* would never leave it.                                                   *)
FlagsAreTaken ==
  Undisturbed =>
    CASE state \in {"AddrWFAckNack", "DataWFAckNack"} -> IF_ \cap {"ACK", "NACK"} # {}
      [] state = "WFData" -> "RXDATAV" \in IF_
      [] state = "WFStopSent" -> "MSTOP" \in IF_
      [] OTHER -> FALSE

(* A read ends the way the bus demands: the stop is sent after a NACK, of  *)
(* the address or of the last byte, which must be commanded before that    *)
(* byte comes.  A byte acknowledged too many, or not answered, leaves the  *)
(* sensor driving the data line.                                           *)
LastByteIsNacked ==
  [][bus # "stop" /\ bus' = "stop" /\ sequence = "read" =>
       bus = "nacked" /\ (result' = "Nack" \/ sensor.sent = 2)]_vars

Reported == next_state = "STATE_I2C_READ_COMPLETE" /\ next_state' = "STATE_IDLE"

(* What the client makes of a report, also of one that repeats the last, is*)
(* the temperature of the conversion the server asked for, in whole        *)
(* degrees; below zero the conversion is undefined in the server, which may*)
(* have made it 0.                                                         *)
TemperatureArrives ==
  [][Reported \/ htm_temperature_buffer' # htm_temperature_buffer =>
       LET t == Degrees(Code(sensor.code))
       IN FLOAT_TO_INT32(htm_temperature_buffer') \in IF t >= 0 THEN {t} ELSE {t, 0}]_vars

(* A transfer started ends, well or with an error, unless the bus is       *)
(* disturbed.                                                              *)
TransferEnds == UnderWay ~> (~UnderWay \/ IF_ \cap Errors # {})
=============================================================================
