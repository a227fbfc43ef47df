----------------------------- MODULE I2cDriver ------------------------------
(***************************************************************************)
(* The interrupt-driven I2C transfers of i2c.c and em_i2c.c, down to the   *)
(* flags of the controller and the bytes on the bus.                       *)
(*                                                                         *)
(* The thread starts a transfer in send_I2C_command or read_I2C_response   *)
(* and goes on; I2C0_IRQHandler runs the rest of it, one flag at a time.   *)
(* The handler may preempt the thread between any two of the thread's      *)
(* steps below; the thread never runs inside the handler.                  *)
(*                                                                         *)
(* The application writes one byte or reads two with 7-bit addresses; the  *)
(* states of I2C_Transfer for 10-bit addresses, for WRITE_READ and for     *)
(* reads of one byte or none are not reached.  bufIndx and cmd_data never  *)
(* matter then.  Controller, bus and sensor are external.                  *)
(***************************************************************************)
EXTENDS Naturals

CONSTANT Codes   \* pairs of bytes the sensor may answer

ASSUME CodesAssumption == Codes \subseteq [1..2 -> 0..255]

VARIABLES
  thread,       \* step of the thread's call, "app" when in none
  sequence,     \* flags of transferSequence
  state,        \* transfer->state
  result,       \* transfer->result
  offset,       \* transfer->offset
  read_data,    \* buffer of a read
  IF_, IEN,     \* interrupt flags; the ones the driver uses are enabled together
  NVIC,         \* I2C0 interrupt is enabled in the NVIC
  bus,          \* what the controller does with the wires
  reply,        \* ACK or NACK commanded ahead of the byte it answers
  RXDATA,       \* byte in the receive buffer
  sensor        \* conversion of the sensor, its code and the bytes it sent

transfer == <<sequence, state, result, offset, read_data>>
wires == <<bus, reply, RXDATA, sensor>>
driver_vars == <<thread, transfer, IF_, IEN, NVIC, wires>>

Threads == {"app", "prepare", "start", "go", "check"}
TransferStates == {"StartAddrSend", "AddrWFAckNack", "DataWFAckNack",
                   "WFData", "WFStopSent", "Done"}
Results == {"InProgress", "Done", "Nack", "BusErr", "ArbLost", "SwFault"}
Errors == {"ARBLOST", "BUSERR"}
Flags == {"ACK", "NACK", "RXDATAV", "MSTOP"} \cup Errors

None == [i \in 1..2 |-> 0]

(* Mutant: one byte more than the buffer holds. *)
BufferLen_OneMore == IF sequence = "write" THEN 1 ELSE 3

BufferLen == IF sequence = "write" THEN 1 ELSE 2

(* I2CSPM_Init leaves the controller enabled and its interrupts disabled;  *)
(* after a reset it takes the bus for busy until it sees a stop.           *)
DriverInit ==
  /\ thread = "app"
  /\ sequence = "write"
  /\ state = "StartAddrSend" /\ result = "Done" /\ offset = 0
  /\ read_data = None
  /\ IF_ = {} /\ IEN = FALSE /\ NVIC = FALSE
  /\ bus \in {"idle", "busy"}
  /\ reply = "none" /\ RXDATA = 0
  /\ sensor = [conversion |-> "none", code |-> None, sent |-> 0]

-----------------------------------------------------------------------------
(* Commands to the controller.                                             *)

(* A byte on the bus that waits for its answer gets it at once; otherwise  *)
(* the answer is kept for the byte to come.                                *)
AckThen(next) ==   \* CMD_ACK, and CMD_NACK if next
  IF bus = "unanswered"
    THEN bus' = "receive" /\ reply' = next
    ELSE UNCHANGED bus /\ reply' = IF next = "none" THEN "ACK" ELSE next

(* Mutant: the stop is not sent. *)
Stop_Forgotten == UNCHANGED <<bus, reply>>

Stop == bus' = "stop" /\ UNCHANGED reply
-----------------------------------------------------------------------------
(* The thread.                                                             *)

(* send_I2C_command and read_I2C_response, up to the call of               *)
(* I2C_TransferInit.                                                       *)
CallTransfer(kind) ==
  /\ thread = "app"
  /\ thread' = "prepare"
  /\ sequence' = kind
  /\ NVIC' = TRUE
  /\ UNCHANGED <<state, result, offset, read_data, IF_, IEN, wires>>

(* A busy bus is aborted; pending commands, data and flags are cleared.    *)
I2C_TransferInit ==
  /\ thread = "prepare"
  /\ thread' = "start"
  /\ state' = "StartAddrSend" /\ result' = "InProgress" /\ offset' = 0
  /\ IF_' = {} /\ IEN' = TRUE
  /\ bus' = "idle" /\ reply' = "none"
  /\ UNCHANGED <<sequence, read_data, NVIC, RXDATA, sensor>>

(* The call of I2C_Transfer it ends with: the flags and the state are read *)
(* before the start is sent.                                               *)
ErrorResult == IF "ARBLOST" \in IF_ THEN "ArbLost" ELSE "BusErr"

I2C_Transfer_Begin ==
  /\ thread = "start"
  /\ IF IF_ \cap Errors = {} /\ state = "StartAddrSend"
       THEN thread' = "go" /\ UNCHANGED <<state, result>>
       ELSE /\ thread' = "check"
            /\ state' = "Done"
            /\ result' = IF IF_ \cap Errors # {} THEN ErrorResult ELSE "SwFault"
  /\ UNCHANGED <<sequence, offset, read_data, IF_, IEN, NVIC, wires>>

I2C_Transfer_Start ==
  /\ thread = "go"
  /\ thread' = "check"
  /\ state' = "AddrWFAckNack"
  /\ bus' = "address"
  /\ UNCHANGED <<sequence, result, offset, read_data, IF_, IEN, NVIC, reply, RXDATA, sensor>>

Finished == IF result = "InProgress" THEN "Done" ELSE result

(* Back in the application, which only logs the outcome.                   *)
I2C_Transfer_Return ==
  /\ thread = "check"
  /\ thread' = "app"
  /\ IF state = "Done" THEN IEN' = FALSE /\ result' = Finished
                       ELSE UNCHANGED <<IEN, result>>
  /\ UNCHANGED <<sequence, state, offset, read_data, IF_, NVIC, wires>>

CallStep == I2C_TransferInit \/ I2C_Transfer_Begin \/ I2C_Transfer_Start \/ I2C_Transfer_Return

-----------------------------------------------------------------------------
(* The handler: I2C_Transfer, one action per state and flag.               *)

Interrupted == NVIC /\ IEN /\ IF_ # {}
Undisturbed == Interrupted /\ IF_ \cap Errors = {}

(* Arbitration lost or a bus error. *)
TransferFault ==
  /\ Interrupted /\ IF_ \cap Errors # {}
  /\ result' = ErrorResult
  /\ state' = "Done" /\ IEN' = FALSE
  /\ UNCHANGED <<thread, sequence, offset, read_data, IF_, NVIC, wires>>

(* The address or the byte is not acknowledged. *)
NotAcknowledged ==
  /\ Undisturbed /\ "NACK" \in IF_
  /\ state \in {"AddrWFAckNack", "DataWFAckNack"}
  /\ IF_' = IF_ \ {"NACK"}
  /\ result' = "Nack"
  /\ state' = "WFStopSent" /\ Stop
  /\ UNCHANGED <<thread, sequence, offset, read_data, IEN, NVIC, RXDATA, sensor>>

(* Mutant: the flag of the acknowledgement is not cleared. *)
Acknowledged_KeepsFlag ==
  /\ Undisturbed /\ "NACK" \notin IF_ /\ "ACK" \in IF_
  /\ state \in {"AddrWFAckNack", "DataWFAckNack"}
  /\ UNCHANGED IF_
  /\ IF sequence = "read"
       THEN state' = "WFData" /\ UNCHANGED <<offset, bus, reply>>
       ELSE IF offset < BufferLen
         THEN /\ state' = "DataWFAckNack" /\ offset' = offset + 1
              /\ bus' = "transmit" /\ UNCHANGED reply
         ELSE state' = "WFStopSent" /\ offset' = 0 /\ Stop
  /\ UNCHANGED <<thread, sequence, result, read_data, IEN, NVIC, RXDATA, sensor>>

(* The address or the byte is acknowledged: a read waits for data, a write *)
(* sends the next byte or stops.                                           *)
Acknowledged ==
  /\ Undisturbed /\ "NACK" \notin IF_ /\ "ACK" \in IF_
  /\ state \in {"AddrWFAckNack", "DataWFAckNack"}
  /\ IF_' = IF_ \ {"ACK"}
  /\ IF sequence = "read"
       THEN state' = "WFData" /\ UNCHANGED <<offset, bus, reply>>
       ELSE IF offset < BufferLen
         THEN /\ state' = "DataWFAckNack" /\ offset' = offset + 1
              /\ bus' = "transmit" /\ UNCHANGED reply
         ELSE state' = "WFStopSent" /\ offset' = 0 /\ Stop
  /\ UNCHANGED <<thread, sequence, result, read_data, IEN, NVIC, RXDATA, sensor>>

(* Mutant: the NACK is commanded one byte too late. *)
DataReceived_LateNack ==
  /\ Undisturbed /\ "RXDATAV" \in IF_ /\ state = "WFData"
  /\ IF_' = IF_ \ {"RXDATAV"}
  /\ read_data' = [read_data EXCEPT ![offset + 1] = RXDATA]
  /\ offset' = offset + 1
  /\ IF offset + 1 >= BufferLen
       THEN state' = "WFStopSent" /\ Stop
       ELSE AckThen("none") /\ UNCHANGED state
  /\ UNCHANGED <<thread, sequence, result, IEN, NVIC, RXDATA, sensor>>

(* Reading the buffer clears its flag.  The last byte but one is answered  *)
(* with ACK and the NACK of the last is commanded ahead; then STOP.        *)
DataReceived ==
  /\ Undisturbed /\ "RXDATAV" \in IF_ /\ state = "WFData"
  /\ IF_' = IF_ \ {"RXDATAV"}
  /\ read_data' = [read_data EXCEPT ![offset + 1] = RXDATA]
  /\ offset' = offset + 1
  /\ IF offset + 1 >= BufferLen
       THEN state' = "WFStopSent" /\ Stop
       ELSE /\ AckThen(IF offset + 1 = BufferLen - 1 THEN "NACK" ELSE "none")
            /\ UNCHANGED state
  /\ UNCHANGED <<thread, sequence, result, IEN, NVIC, RXDATA, sensor>>

(* The stop was sent.  Only a transfer without an error is signalled, and  *)
(* only then is the interrupt disabled in the NVIC.                        *)
StopSeen ==
  /\ Undisturbed /\ "MSTOP" \in IF_ /\ state = "WFStopSent"
  /\ IF_' = IF_ \ {"MSTOP"}
  /\ state' = "Done" /\ IEN' = FALSE
  /\ result' = Finished
  /\ NVIC' = (result' # "Done")
  /\ UNCHANGED <<thread, sequence, offset, read_data, wires>>

I2C0_IRQHandler_Body ==
  \/ TransferFault \/ NotAcknowledged \/ Acknowledged \/ DataReceived \/ StopSeen

-----------------------------------------------------------------------------
(* Controller, bus and sensor.  The sensor acknowledges when it is powered *)
(* and not converting; a read it acknowledges answers its last conversion. *)
(* The bus may disturb any acknowledgement.                                *)

Responds(powered) ==
  /\ powered
  /\ sensor.conversion # "running"
  /\ sequence = "read" => sensor.conversion = "complete"

AddressSent(powered) ==
  /\ bus = "address"
  /\ \/ /\ Responds(powered)
        /\ IF_' = IF_ \cup {"ACK"}
        /\ bus' = IF sequence = "read" THEN "receive" ELSE "held"
     \/ IF_' = IF_ \cup {"NACK"} /\ bus' = "nacked"
  /\ sensor' = [sensor EXCEPT !.sent = 0]
  /\ UNCHANGED <<thread, transfer, IEN, NVIC, reply, RXDATA>>

(* The command starts a conversion. *)
ByteSent ==
  /\ bus = "transmit"
  /\ \/ /\ IF_' = IF_ \cup {"ACK"} /\ bus' = "held"
        /\ \E code \in Codes :
             sensor' = [conversion |-> "running", code |-> code, sent |-> 0]
     \/ IF_' = IF_ \cup {"NACK"} /\ bus' = "nacked" /\ UNCHANGED sensor
  /\ UNCHANGED <<thread, transfer, IEN, NVIC, reply, RXDATA>>

ConversionCompletes ==
  /\ sensor.conversion = "running"
  /\ sensor' = [sensor EXCEPT !.conversion = "complete"]
  /\ UNCHANGED <<thread, transfer, IF_, IEN, NVIC, bus, reply, RXDATA>>

(* A byte arrives when the buffer has room and is answered by the command  *)
(* given ahead, if there is one.                                           *)
ByteReceived ==
  /\ bus = "receive" /\ "RXDATAV" \notin IF_
  /\ IF_' = IF_ \cup {"RXDATAV"}
  /\ RXDATA' = IF sensor.sent < 2 THEN sensor.code[sensor.sent + 1] ELSE 0
  /\ sensor' = [sensor EXCEPT !.sent = @ + 1]
  /\ bus' = CASE reply = "NACK" -> "nacked" [] reply = "ACK" -> "receive" [] OTHER -> "unanswered"
  /\ reply' = "none"
  /\ UNCHANGED <<thread, transfer, IEN, NVIC>>

StopSent ==
  /\ bus = "stop"
  /\ IF_' = IF_ \cup {"MSTOP"}
  /\ bus' = "idle"
  /\ UNCHANGED <<thread, transfer, IEN, NVIC, reply, RXDATA, sensor>>

Bus(powered) == AddressSent(powered) \/ ByteSent \/ ByteReceived \/ StopSent

(* Another master, or noise. *)
Disturbed(error) ==
  /\ error \notin IF_
  /\ error = "ARBLOST" => bus \notin {"idle", "busy"}
  /\ IF_' = IF_ \cup {error}
  /\ bus' = "busy"
  /\ UNCHANGED <<thread, transfer, IEN, NVIC, reply, RXDATA, sensor>>
=============================================================================
