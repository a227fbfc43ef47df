------------------------ MODULE SensorReadingProofs -------------------------
(***************************************************************************)
(* The interrupt-driven transfers, for every set of codes the sensor may   *)
(* answer and every interleaving of the thread, the handler and the bus:   *)
(* the handler always finds what it waits for, the machine over the driver *)
(* is TemperatureMachine, and what is reported is what was measured.       *)
(***************************************************************************)
EXTENDS SensorReading, TLAPS

Waiting == {"STATE_I2C_SEND", "STATE_I2C_READ_COMPLETE"}

(* The transfer runs and the bus was not disturbed. *)
Running == IEN /\ IF_ \cap Errors = {}

(* What each state of the transfer may find: the bus, the flags and the    *)
(* answers commanded so far.                                               *)
Addressing ==
  /\ offset = 0 /\ reply = "none"
  /\ \/ bus = "address" /\ IF_ = {}
     \/ bus = "nacked" /\ IF_ = {"NACK"}
     \/ sequence = "write" /\ bus = "held" /\ IF_ = {"ACK"}
     \/ sequence = "read" /\ bus = "receive" /\ IF_ = {"ACK"} /\ sensor.sent = 0
     \/ sequence = "read" /\ bus = "unanswered" /\ IF_ = {"ACK", "RXDATAV"} /\ sensor.sent = 1

Writing ==
  /\ sequence = "write" /\ offset = 1 /\ reply = "none"
  /\ \/ bus = "transmit" /\ IF_ = {}
     \/ bus = "held" /\ IF_ = {"ACK"}
     \/ bus = "nacked" /\ IF_ = {"NACK"}

Reading ==
  /\ sequence = "read"
  /\ \/ offset = 0 /\ reply = "none" /\ bus = "receive" /\ IF_ = {} /\ sensor.sent = 0
     \/ offset = 0 /\ reply = "none" /\ bus = "unanswered" /\ IF_ = {"RXDATAV"} /\ sensor.sent = 1
     \/ offset = 1 /\ reply = "NACK" /\ bus = "receive" /\ IF_ = {} /\ sensor.sent = 1
     \/ offset = 1 /\ reply = "none" /\ bus = "nacked" /\ IF_ = {"RXDATAV"} /\ sensor.sent = 2

Stopping ==
  \/ bus = "stop" /\ IF_ = {}
  \/ bus = "idle" /\ IF_ = {"MSTOP"}

Phase ==
  /\ result \in {"InProgress", "Nack"}
  /\ \/ /\ state = "StartAddrSend" /\ thread \in {"start", "go"}
        /\ offset = 0 /\ reply = "none" /\ bus = "idle" /\ IF_ = {}
     \/ state = "AddrWFAckNack" /\ Addressing
     \/ state = "DataWFAckNack" /\ Writing
     \/ state = "WFData" /\ Reading
     \/ state = "WFStopSent" /\ Stopping

(* Where the thread is in its call. *)
CallInv ==
  /\ thread = "prepare" => ~IEN
  /\ thread \in {"start", "go"} => state = "StartAddrSend" \/ (state = "Done" /\ ~IEN)
  /\ thread \in {"prepare", "start", "go"} \/ IEN => NVIC

(* A transfer belongs to the wait that started it, and its signal comes    *)
(* when it is over.                                                        *)
OwnerInv ==
  /\ next_state \in {"STATE_IDLE", "STATE_SI7021_ON", "STATE_I2C_SEND_COMPLETE"} \cup Waiting
  /\ IEN \/ thread # "app" => next_state \in Waiting
  /\ next_state = "STATE_I2C_SEND" => sequence = "write"
  /\ next_state = "STATE_I2C_READ_COMPLETE" => sequence = "read"
  /\ "evtI2C0_done" \in signals => ~IEN /\ thread \in {"app", "check"}

(* The bytes on their way from the sensor to read_data. *)
DataInv ==
  /\ bus = "transmit" => Running /\ state = "DataWFAckNack"
  /\ Running /\ "RXDATAV" \in IF_ => RXDATA = sensor.code[sensor.sent]
  /\ Running /\ state = "WFData" /\ offset = 1 => read_data[1] = sensor.code[1]
  /\ Running /\ state = "WFStopSent" /\ sequence = "read" /\ result = "InProgress"
       => read_data = sensor.code
  /\ next_state = "STATE_I2C_READ_COMPLETE" /\ "evtI2C0_done" \in signals
       => read_data = sensor.code

IInv ==
  /\ TypeOK
  /\ Running => Phase
  /\ CallInv
  /\ OwnerInv
  /\ DataInv

-----------------------------------------------------------------------------
LEMMA InitIInv == Init => IInv
<1> SUFFICES ASSUME Init PROVE IInv
  OBVIOUS
<1> USE DEF Init, DriverInit
<1>1. TypeOK
  <2>1. read_data \in [1..2 -> Byte]
    BY DEF None, Byte
  <2>2. sensor \in [conversion : {"none", "running", "complete"}, code : Codes \cup {None},
                   sent : Nat]
    BY SMT
  <2>3. offset \in 0..2 /\ RXDATA \in Byte
    BY DEF Byte
  <2> QED BY <2>1, <2>2, <2>3 DEF TypeOK, Threads, TransferStates, Results
<1>2. Running => Phase
  BY DEF Running
<1>3. CallInv
  BY DEF CallInv
<1>4. OwnerInv
  BY DEF OwnerInv, Waiting
<1>5. DataInv
  BY DEF DataInv, Running
<1> QED BY <1>1, <1>2, <1>3, <1>4, <1>5 DEF IInv

-----------------------------------------------------------------------------
(* The thread's call of the driver. *)

LEMMA InitTransferKeeps ==
  ASSUME IInv, Quiet(I2C_TransferInit)
  PROVE  IInv'
<1> USE DEF IInv, Quiet, I2C_TransferInit
<1>1. TypeOK'
  BY DEF TypeOK, Threads, TransferStates, Results, Flags
<1>2. (Running => Phase)'
  BY DEF Phase
<1>3. CallInv'
  BY DEF CallInv
<1>4. OwnerInv'
  BY DEF OwnerInv, app
<1>5. DataInv'
  BY DEF DataInv, OwnerInv, Running, app
<1> QED BY <1>1, <1>2, <1>3, <1>4, <1>5 DEF IInv

LEMMA BeginKeeps ==
  ASSUME IInv, Quiet(I2C_Transfer_Begin)
  PROVE  IInv'
<1> USE DEF IInv, Quiet, I2C_Transfer_Begin, wires
<1>1. TypeOK'
  BY DEF TypeOK, Threads, TransferStates, Results, ErrorResult
<1>2. (Running => Phase)'
  BY DEF Phase, Running, CallInv, Addressing, Reading, Writing, Stopping
<1>3. CallInv'
  BY DEF CallInv
<1>4. OwnerInv'
  BY DEF OwnerInv, app
<1>5. DataInv'
  BY DEF DataInv, OwnerInv, CallInv, Running, app
<1> QED BY <1>1, <1>2, <1>3, <1>4, <1>5 DEF IInv

LEMMA StartKeeps ==
  ASSUME IInv, Quiet(I2C_Transfer_Start)
  PROVE  IInv'
<1> USE DEF IInv, Quiet, I2C_Transfer_Start
<1>1. TypeOK'
  BY DEF TypeOK, Threads, TransferStates
<1>2. (Running => Phase)'
  BY DEF Phase, Running, CallInv, Addressing
<1>3. CallInv'
  BY DEF CallInv
<1>4. OwnerInv'
  BY DEF OwnerInv, app
<1>5. DataInv'
  BY DEF DataInv, OwnerInv, CallInv, Running, Phase, app
<1> QED BY <1>1, <1>2, <1>3, <1>4, <1>5 DEF IInv

LEMMA ReturnKeeps ==
  ASSUME IInv, Quiet(I2C_Transfer_Return)
  PROVE  IInv'
<1> USE DEF IInv, Quiet, I2C_Transfer_Return, wires
<1>1. TypeOK'
  <2>1. /\ thread' \in Threads /\ IEN' \in BOOLEAN
        /\ result' \in Results
    BY DEF TypeOK, Threads, Results, Finished
  <2>2. UNCHANGED <<sequence, state, offset, read_data, IF_, NVIC, bus, reply, RXDATA, sensor>>
    OBVIOUS
  <2> QED BY <2>1, <2>2 DEF TypeOK
<1>2. (Running => Phase)'
  BY DEF Phase, Running, Addressing, Reading, Writing, Stopping
<1>3. CallInv'
  BY DEF CallInv
<1>4. OwnerInv'
  BY DEF OwnerInv, app
<1>5. DataInv'
  BY DEF DataInv, OwnerInv, Running, app
<1> QED BY <1>1, <1>2, <1>3, <1>4, <1>5 DEF IInv

-----------------------------------------------------------------------------
(* The handler. *)

(* The handler runs in a transfer that is not disturbed, or ends it. *)
LEMMA FaultKeeps ==
  ASSUME IInv, TransferFault, UNCHANGED <<app, gate, signals>>
  PROVE  IInv'
<1> USE DEF IInv, TransferFault, wires
<1>1. TypeOK'
  BY DEF TypeOK, TransferStates, Results, ErrorResult
<1>2. (Running => Phase)'
  BY DEF Running
<1>3. CallInv'
  BY DEF CallInv
<1>4. OwnerInv'
  BY DEF OwnerInv, app
<1>5. DataInv'
  BY DEF DataInv, Running, Interrupted, app
<1> QED BY <1>1, <1>2, <1>3, <1>4, <1>5 DEF IInv

LEMMA NotAcknowledgedKeeps ==
  ASSUME IInv, NotAcknowledged, UNCHANGED <<app, gate, signals>>
  PROVE  IInv'
<1> USE DEF IInv, NotAcknowledged, Undisturbed, Interrupted, Stop
<1>1. TypeOK'
  BY DEF TypeOK, TransferStates, Results
<1>2. IF_ = {"NACK"} /\ bus = "nacked" /\ thread \notin {"start", "go"}
  BY DEF Running, Phase, Addressing, Writing, CallInv
<1>3. IF_' = {}
  BY <1>2
<1>4. (Running => Phase)'
  BY <1>3 DEF Phase, Stopping
<1>5. CallInv'
  BY <1>2 DEF CallInv
<1>6. OwnerInv'
  BY DEF OwnerInv, app
<1>7. DataInv'
  BY <1>3 DEF DataInv, OwnerInv, app
<1> QED BY <1>1, <1>4, <1>5, <1>6, <1>7 DEF IInv

LEMMA AcknowledgedKeeps ==
  ASSUME IInv, Acknowledged, UNCHANGED <<app, gate, signals>>
  PROVE  IInv'
<1> USE DEF IInv, Acknowledged, Undisturbed, Interrupted, Stop, BufferLen
<1>1. TypeOK'
  BY DEF TypeOK, TransferStates
<1>2. Running /\ Phase /\ state \in {"AddrWFAckNack", "DataWFAckNack"}
  BY DEF Running
<1>3. \/ sequence = "write" /\ IF_ = {"ACK"} /\ bus = "held" /\ reply = "none"
      \/ /\ sequence = "read" /\ state = "AddrWFAckNack" /\ offset = 0 /\ reply = "none"
         /\ \/ IF_ = {"ACK"} /\ bus = "receive" /\ sensor.sent = 0
            \/ IF_ = {"ACK", "RXDATAV"} /\ bus = "unanswered" /\ sensor.sent = 1
  BY <1>2 DEF Phase, Addressing, Writing
<1>4. thread \notin {"start", "go"}
  BY <1>2 DEF CallInv
<1>5. offset \in {0, 1} /\ result \in {"InProgress", "Nack"}
  BY <1>2 DEF Phase, Addressing, Writing
<1>6. (Running => Phase)'
  <2>1. CASE sequence = "write"
    <3>1. IF_' = {}
      BY <1>3, <2>1
    <3> QED BY <1>3, <1>4, <1>5, <2>1, <3>1, <1>2 DEF Phase, Writing, Stopping
  <2>2. CASE sequence = "read"
    <3>1. \/ IF_' = {} /\ bus = "receive" /\ sensor.sent = 0
          \/ IF_' = {"RXDATAV"} /\ bus = "unanswered" /\ sensor.sent = 1
      BY <1>3, <2>2
    <3> QED BY <1>3, <1>4, <1>5, <2>2, <3>1 DEF Phase, Reading
  <2> QED BY <1>3, <2>1, <2>2
<1>7. CallInv'
  BY <1>4 DEF CallInv
<1>8. OwnerInv'
  BY DEF OwnerInv, app
<1>9. DataInv'
  <2>1. bus' = "transmit" => Running' /\ state' = "DataWFAckNack"
    BY <1>3, <1>2 DEF Running
  <2>2. "RXDATAV" \in IF_' => RXDATA' = sensor'.code[sensor'.sent]
    BY <1>2, <1>3 DEF DataInv
  <2>3. ~(state' = "WFData" /\ offset' = 1) /\ ~(state' = "WFStopSent" /\ sequence' = "read")
    BY <1>3
  <2> QED BY <2>1, <2>2, <2>3 DEF DataInv, OwnerInv, app
<1> QED BY <1>1, <1>6, <1>7, <1>8, <1>9 DEF IInv

LEMMA DataReceivedKeeps ==
  ASSUME IInv, DataReceived, UNCHANGED <<app, gate, signals>>
  PROVE  IInv'
<1> USE DEF IInv, DataReceived, Undisturbed, Interrupted, Stop, BufferLen, AckThen
<1>1. Running /\ Phase
  BY DEF Running
<1>2. /\ sequence = "read" /\ IF_ = {"RXDATAV"} /\ reply = "none"
      /\ \/ offset = 0 /\ bus = "unanswered" /\ sensor.sent = 1
         \/ offset = 1 /\ bus = "nacked" /\ sensor.sent = 2
  BY <1>1 DEF Phase, Reading
<1>3. thread \notin {"start", "go"}
  BY <1>1 DEF CallInv
<1>4. IF_' = {}
  BY <1>2
<1>5. TypeOK'
  <2>1. read_data' \in [1..2 -> Byte]
    BY <1>2 DEF TypeOK
  <2> QED BY <1>2, <1>4, <2>1 DEF TypeOK, TransferStates
<1>6. \/ /\ offset = 0 /\ offset' = 1 /\ state' = "WFData"
         /\ bus' = "receive" /\ reply' = "NACK"
      \/ offset = 1 /\ state' = "WFStopSent" /\ bus' = "stop"
  BY <1>2
<1>7. (Running => Phase)'
  BY <1>1, <1>2, <1>3, <1>4, <1>6 DEF Phase, Reading, Stopping
<1>8. CallInv'
  BY <1>3 DEF CallInv
<1>9. OwnerInv'
  BY DEF OwnerInv, app
<1>10. DataInv'
  <2>1. RXDATA = sensor.code[sensor.sent]
    BY <1>1, <1>2 DEF DataInv
  <2>2. read_data \in [1..2 -> Byte] /\ sensor.code \in [1..2 -> Byte]
    BY CodesAssumption DEF TypeOK, None, Byte
  <2>3. offset = 0 => read_data'[1] = sensor.code[1]
    BY <1>2, <2>1, <2>2
  <2>4. offset = 1 => read_data' = sensor.code
    <3> SUFFICES ASSUME offset = 1 PROVE read_data' = sensor.code
      OBVIOUS
    <3>1. read_data' \in [1..2 -> Byte]
      BY <1>5 DEF TypeOK
    <3>2. read_data'[1] = sensor.code[1] /\ read_data'[2] = sensor.code[2]
      BY <1>1, <1>2, <2>1, <2>2 DEF DataInv
    <3>3. \A i \in 1..2 : i = 1 \/ i = 2
      OBVIOUS
    <3> QED BY <2>2, <3>1, <3>2, <3>3
  <2> QED BY <1>4, <1>6, <2>3, <2>4 DEF DataInv, OwnerInv, app
<1> QED BY <1>5, <1>7, <1>8, <1>9, <1>10 DEF IInv

LEMMA StopSeenKeeps ==
  ASSUME IInv, StopSeen, UNCHANGED <<app, gate>>,
         signals' = IF result' = "Done" THEN signals \cup {"evtI2C0_done"} ELSE signals
  PROVE  IInv'
<1> USE DEF IInv, StopSeen, Undisturbed, Interrupted, wires, Finished
<1>1. Running /\ Phase
  BY DEF Running
<1>2. thread \notin {"prepare", "start", "go"} /\ thread \in Threads
  BY <1>1 DEF CallInv, TypeOK
<1>3. TypeOK'
  BY DEF TypeOK, TransferStates, Results
<1>4. ~Running'
  BY DEF Running
<1>5. CallInv'
  BY <1>2 DEF CallInv
<1>6. OwnerInv'
  BY <1>2 DEF OwnerInv, app, Threads
<1>7. DataInv'
  <2>1. bus' # "transmit"
    BY <1>1 DEF Phase, Stopping
  <2>2. result' = "Done" <=> result = "InProgress"
    BY <1>1 DEF Phase
  <2>3. ASSUME next_state' = "STATE_I2C_READ_COMPLETE", "evtI2C0_done" \in signals'
        PROVE  read_data' = sensor'.code
    <3>1. sequence = "read" /\ "evtI2C0_done" \notin signals
      BY <2>3 DEF OwnerInv, app
    <3> QED BY <1>1, <2>2, <2>3, <3>1 DEF DataInv
  <2> QED BY <1>4, <2>1, <2>3 DEF DataInv
<1> QED BY <1>3, <1>4, <1>5, <1>6, <1>7 DEF IInv

LEMMA I2C0_IRQHandlerKeeps ==
  ASSUME IInv, I2C0_IRQHandler
  PROVE  IInv'
<1>1. /\ UNCHANGED <<app, gate>>
      /\ signals' = IF state' = "Done" /\ result' = "Done" THEN signals \cup {"evtI2C0_done"}
                                                         ELSE signals
  BY DEF I2C0_IRQHandler
<1>2. CASE TransferFault
  <2>1. result' # "Done"
    BY <1>2 DEF TransferFault, ErrorResult
  <2> QED BY <1>1, <1>2, <2>1, FaultKeeps
<1>3. CASE NotAcknowledged
  <2>1. state' # "Done"
    BY <1>3 DEF NotAcknowledged
  <2> QED BY <1>1, <1>3, <2>1, NotAcknowledgedKeeps
<1>4. CASE Acknowledged
  <2>1. state' # "Done"
    BY <1>4 DEF Acknowledged, Undisturbed, Interrupted
  <2> QED BY <1>1, <1>4, <2>1, AcknowledgedKeeps
<1>5. CASE DataReceived
  <2>1. state' # "Done"
    BY <1>5 DEF DataReceived
  <2> QED BY <1>1, <1>5, <2>1, DataReceivedKeeps
<1>6. CASE StopSeen
  <2>1. state' = "Done"
    BY <1>6 DEF StopSeen
  <2> QED BY <1>1, <1>6, <2>1, StopSeenKeeps
<1> QED BY <1>2, <1>3, <1>4, <1>5, <1>6 DEF I2C0_IRQHandler, I2C0_IRQHandler_Body

-----------------------------------------------------------------------------
(* Controller, bus and sensor: in a transfer that is not disturbed they    *)
(* give the flag the transfer waits for.                                   *)

LEMMA AddressSentKeeps ==
  ASSUME IInv, Quiet(AddressSent(si7021))
  PROVE  IInv'
<1> USE DEF IInv, Quiet, AddressSent, transfer
<1>1. \/ IF_' = IF_ \cup {"ACK"} /\ bus' = IF sequence = "read" THEN "receive" ELSE "held"
      \/ IF_' = IF_ \cup {"NACK"} /\ bus' = "nacked"
  OBVIOUS
<1>2. Running' <=> Running
  BY <1>1 DEF Running, Errors
<1>3. TypeOK'
  BY <1>1 DEF TypeOK, Flags
<1>4. Running => state = "AddrWFAckNack" /\ IF_ = {} /\ offset = 0 /\ reply = "none"
  BY DEF Phase, Addressing, Writing, Reading, Stopping
<1>5. (Running => Phase)'
  <2> SUFFICES ASSUME Running' PROVE Phase'
    OBVIOUS
  <2>1. IF_' \in {{"ACK"}, {"NACK"}}
    BY <1>1, <1>2, <1>4
  <2>2. sequence \in {"read", "write"} /\ sensor'.sent = 0
    BY DEF TypeOK
  <2> QED BY <1>1, <1>2, <1>4, <2>1, <2>2 DEF Phase, Addressing
<1>6. CallInv'
  BY DEF CallInv
<1>7. OwnerInv'
  BY DEF OwnerInv, app
<1>8. DataInv'
  <2>1. sensor'.code = sensor.code
    BY DEF TypeOK
  <2>2. Running => "RXDATAV" \notin IF_'
    BY <1>1, <1>4
  <2> QED BY <1>1, <1>2, <1>4, <2>1, <2>2 DEF DataInv, app
<1> QED BY <1>3, <1>5, <1>6, <1>7, <1>8 DEF IInv

LEMMA ByteSentKeeps ==
  ASSUME IInv, Quiet(ByteSent)
  PROVE  IInv'
<1> USE DEF IInv, Quiet, ByteSent, transfer
<1>1. /\ Running /\ state = "DataWFAckNack" /\ sequence = "write" /\ IF_ = {}
      /\ offset = 1 /\ reply = "none" /\ result \in {"InProgress", "Nack"}
  BY DEF DataInv, Phase, Writing
<1>2. \/ IF_' = {"ACK"} /\ bus' = "held"
      \/ IF_' = {"NACK"} /\ bus' = "nacked"
  BY <1>1
<1>3. TypeOK'
  <2>1. sensor' \in [conversion : {"none", "running", "complete"}, code : Codes \cup {None},
                    sent : Nat]
    BY DEF TypeOK
  <2> QED BY <1>2, <2>1 DEF TypeOK, Flags
<1>4. (Running => Phase)'
  BY <1>1, <1>2 DEF Phase, Writing
<1>5. CallInv'
  BY DEF CallInv
<1>6. OwnerInv'
  BY DEF OwnerInv, app
<1>7. DataInv'
  BY <1>1, <1>2 DEF DataInv, OwnerInv, Running, app
<1> QED BY <1>3, <1>4, <1>5, <1>6, <1>7 DEF IInv

LEMMA ConversionKeeps ==
  ASSUME IInv, Quiet(ConversionCompletes)
  PROVE  IInv'
<1> USE DEF IInv, Quiet, ConversionCompletes, transfer
<1>1. sensor'.code = sensor.code /\ sensor'.sent = sensor.sent
  BY DEF TypeOK
<1>2. TypeOK'
  BY DEF TypeOK
<1>3. (Running => Phase)'
  BY <1>1 DEF Running, Phase, Addressing, Writing, Reading, Stopping
<1>4. CallInv' /\ OwnerInv'
  BY DEF CallInv, OwnerInv, app
<1>5. DataInv'
  BY <1>1 DEF DataInv, Running, app
<1> QED BY <1>2, <1>3, <1>4, <1>5 DEF IInv

LEMMA ByteReceivedKeeps ==
  ASSUME IInv, Quiet(ByteReceived)
  PROVE  IInv'
<1> USE DEF IInv, Quiet, ByteReceived, transfer
<1>1. Running' <=> Running
  BY DEF Running, Errors
<1>2. sensor.sent \in Nat /\ sensor'.sent = sensor.sent + 1 /\ sensor'.code = sensor.code
  BY DEF TypeOK
<1>3. TypeOK'
  <2>1. sensor.code \in [1..2 -> Byte]
    BY CodesAssumption DEF TypeOK, None, Byte
  <2>2. RXDATA' \in Byte
    BY <1>2, <2>1 DEF Byte
  <2> QED BY <2>2 DEF TypeOK, Flags
<1>4. Running =>
        /\ sequence = "read" /\ sensor.sent \in {0, 1}
        /\ \/ state = "AddrWFAckNack" /\ IF_ = {"ACK"} /\ offset = 0 /\ reply = "none" /\ sensor.sent = 0
           \/ state = "WFData" /\ IF_ = {} /\ offset = 0 /\ reply = "none" /\ sensor.sent = 0
           \/ state = "WFData" /\ IF_ = {} /\ offset = 1 /\ reply = "NACK" /\ sensor.sent = 1
  BY DEF Phase, Addressing, Writing, Reading, Stopping
<1>5. (Running => Phase)'
  <2> SUFFICES ASSUME Running' PROVE Phase'
    OBVIOUS
  <2>1. CASE IF_ = {"ACK"}
    <3>1. IF_' = {"ACK", "RXDATAV"}
      BY <2>1
    <3> QED BY <1>1, <1>2, <1>4, <2>1, <3>1 DEF Phase, Addressing
  <2>2. CASE IF_ = {}
    <3>1. IF_' = {"RXDATAV"}
      BY <2>2
    <3> QED BY <1>1, <1>2, <1>4, <2>2, <3>1 DEF Phase, Reading
  <2> QED BY <1>1, <1>4, <2>1, <2>2
<1>6. CallInv' /\ OwnerInv'
  BY DEF CallInv, OwnerInv, app
<1>7. DataInv'
  <2>1. Running => RXDATA' = sensor'.code[sensor'.sent]
    BY <1>2, <1>4
  <2> QED BY <1>1, <1>2, <2>1 DEF DataInv, app
<1> QED BY <1>3, <1>5, <1>6, <1>7 DEF IInv

LEMMA StopSentKeeps ==
  ASSUME IInv, Quiet(StopSent)
  PROVE  IInv'
<1> USE DEF IInv, Quiet, StopSent, transfer
<1>1. Running' <=> Running
  BY DEF Running, Errors
<1>2. TypeOK'
  BY DEF TypeOK, Flags
<1>3. Running => state = "WFStopSent" /\ IF_ = {}
  BY DEF Phase, Addressing, Writing, Reading, Stopping
<1>4. (Running => Phase)'
  <2>1. Running => IF_' = {"MSTOP"}
    BY <1>3
  <2> QED BY <1>1, <1>3, <2>1 DEF Phase, Stopping
<1>5. CallInv' /\ OwnerInv'
  BY DEF CallInv, OwnerInv, app
<1>6. DataInv'
  BY <1>1, <1>3 DEF DataInv, app
<1> QED BY <1>2, <1>4, <1>5, <1>6 DEF IInv

LEMMA DisturbedKeeps ==
  ASSUME IInv, NEW error \in Errors, Quiet(Disturbed(error))
  PROVE  IInv'
<1> USE DEF IInv, Quiet, Disturbed, transfer
<1>1. ~Running'
  BY DEF Running
<1>2. TypeOK'
  BY DEF TypeOK, Flags
<1>3. CallInv' /\ OwnerInv'
  BY DEF CallInv, OwnerInv, app
<1>4. DataInv'
  BY <1>1 DEF DataInv, app
<1> QED BY <1>1, <1>2, <1>3, <1>4 DEF IInv

-----------------------------------------------------------------------------
(* The machine, its other interrupt and its gate. *)

LEMMA LetimerKeeps ==
  ASSUME IInv, NEW flags \in LETIMER0_Flags, LETIMER0_IRQHandler(flags)
  PROVE  IInv'
<1> USE DEF IInv, LETIMER0_IRQHandler, driver_vars, transfer, wires
<1>1. "evtI2C0_done" \in signals' <=> "evtI2C0_done" \in signals
  BY DEF LETIMER0_Flags
<1>2. TypeOK'
  BY DEF TypeOK
<1>3. (Running => Phase)'
  BY DEF Running, Phase, Addressing, Writing, Reading, Stopping
<1>4. CallInv' /\ OwnerInv'
  BY <1>1 DEF CallInv, OwnerInv
<1>5. DataInv'
  BY <1>1 DEF DataInv, Running
<1> QED BY <1>2, <1>3, <1>4, <1>5 DEF IInv

(* A step of the thread that calls no driver. *)
LEMMA MachineStepKeeps ==
  ASSUME IInv, signals' \in {{}, signals}, UNCHANGED driver_vars, thread = "app",
         \/ UNCHANGED next_state
         \/ ~IEN /\ next_state' \in {"STATE_IDLE", "STATE_SI7021_ON", "STATE_I2C_SEND_COMPLETE"}
  PROVE  IInv'
<1> USE DEF IInv, driver_vars, transfer, wires
<1>1. TypeOK'
  BY DEF TypeOK
<1>2. (Running => Phase)'
  BY DEF Running, Phase, Addressing, Writing, Reading, Stopping
<1>3. CallInv' /\ OwnerInv'
  BY DEF CallInv, OwnerInv, Waiting
<1>4. DataInv'
  BY DEF DataInv, Running
<1> QED BY <1>1, <1>2, <1>3, <1>4 DEF IInv

(* A transfer is started when none is under way. *)
LEMMA CallKeeps ==
  ASSUME IInv, thread = "app", signals' = {}, UNCHANGED gate,
         \/ Call("write", "STATE_SI7021_ON", "STATE_I2C_SEND")
         \/ Call("read", "STATE_I2C_SEND_COMPLETE", "STATE_I2C_READ_COMPLETE")
  PROVE  IInv'
<1> USE DEF IInv, Call, CallTransfer, Delivered, wires
<1>1. ~IEN
  BY DEF OwnerInv, Waiting
<1>2. TypeOK'
  BY DEF TypeOK, Threads
<1>3. (Running => Phase)'
  BY <1>1 DEF Running
<1>4. CallInv' /\ OwnerInv'
  BY <1>1 DEF CallInv, OwnerInv, Waiting
<1>5. DataInv'
  BY <1>1 DEF DataInv, Running
<1> QED BY <1>2, <1>3, <1>4, <1>5 DEF IInv

LEMMA ExternalSignalKeeps ==
  ASSUME IInv, ExternalSignal
  PROVE  IInv'
<1>1. thread = "app" /\ signals' = {} /\ UNCHANGED gate
  BY DEF ExternalSignal
<1>2. CASE \/ Call("write", "STATE_SI7021_ON", "STATE_I2C_SEND")
           \/ Call("read", "STATE_I2C_SEND_COMPLETE", "STATE_I2C_READ_COMPLETE")
  BY <1>1, <1>2, CallKeeps
<1>3. CASE StartMeasurement \/ CommandSent \/ ReportTemperature
  <2>1. ~IEN
    BY <1>3 DEF IInv, OwnerInv, Waiting, StartMeasurement, CommandSent, ReportTemperature, Delivered
  <2>2. UNCHANGED driver_vars
    BY <1>3 DEF StartMeasurement, CommandSent, ReportTemperature
  <2>3. next_state' \in {"STATE_IDLE", "STATE_SI7021_ON", "STATE_I2C_SEND_COMPLETE"}
    BY <1>3 DEF StartMeasurement, CommandSent, ReportTemperature
  <2> QED BY <1>1, <2>1, <2>2, <2>3, MachineStepKeeps
<1>4. CASE Ignored
  <2>1. UNCHANGED driver_vars /\ UNCHANGED next_state
    BY <1>4 DEF Ignored, app
  <2> QED BY <1>1, <2>1, MachineStepKeeps
<1> QED BY <1>2, <1>3, <1>4 DEF ExternalSignal

LEMMA GateKeeps ==
  ASSUME IInv, GateEvent
  PROVE  IInv'
<1>1. UNCHANGED driver_vars /\ UNCHANGED next_state /\ signals' = signals /\ thread = "app"
  BY DEF GateEvent, app
<1> QED BY <1>1, MachineStepKeeps

LEMMA StutterKeeps ==
  ASSUME IInv, UNCHANGED vars
  PROVE  IInv'
  BY DEF IInv, vars, driver_vars, transfer, wires, app, TypeOK, Running, Phase, Addressing,
         Writing, Reading, Stopping, CallInv, OwnerInv, DataInv

LEMMA NextKeeps == IInv /\ [Next]_vars => IInv'
<1> SUFFICES ASSUME IInv, [Next]_vars PROVE IInv'
  OBVIOUS
<1>1. CASE \E flags \in LETIMER0_Flags : LETIMER0_IRQHandler(flags)
  BY <1>1, LetimerKeeps
<1>2. CASE I2C0_IRQHandler
  BY <1>2, I2C0_IRQHandlerKeeps
<1>3. CASE ExternalSignal
  BY <1>3, ExternalSignalKeeps
<1>4. CASE GateEvent
  BY <1>4, GateKeeps
<1>5. CASE Quiet(CallStep)
  <2>1. \/ Quiet(I2C_TransferInit) \/ Quiet(I2C_Transfer_Begin)
        \/ Quiet(I2C_Transfer_Start) \/ Quiet(I2C_Transfer_Return)
    BY <1>5 DEF CallStep, Quiet
  <2> QED BY <2>1, InitTransferKeeps, BeginKeeps, StartKeeps, ReturnKeeps
<1>6. CASE Quiet(Bus(si7021))
  <2>1. \/ Quiet(AddressSent(si7021)) \/ Quiet(ByteSent) \/ Quiet(ByteReceived) \/ Quiet(StopSent)
    BY <1>6 DEF Bus, Quiet
  <2> QED BY <2>1, AddressSentKeeps, ByteSentKeeps, ByteReceivedKeeps, StopSentKeeps
<1>7. CASE Quiet(ConversionCompletes)
  BY <1>7, ConversionKeeps
<1>8. CASE \E error \in Errors : Quiet(Disturbed(error))
  BY <1>8, DisturbedKeeps
<1>9. CASE UNCHANGED vars
  BY <1>9, StutterKeeps
<1> QED BY <1>1, <1>2, <1>3, <1>4, <1>5, <1>6, <1>7, <1>8, <1>9 DEF Next

-----------------------------------------------------------------------------
LEMMA InvariantHolds == Spec => []IInv
  BY InitIInv, NextKeeps, PTL DEF Spec

(* The variables of the driver keep their types: above all, no byte is     *)
(* stored past the buffer of a read.                                       *)
THEOREM DriverTypes == Spec => []TypeOK
  BY InvariantHolds, PTL DEF IInv

(* The handler is never called for a flag that its state does not take.    *)
THEOREM FlagsTaken == Spec => []FlagsAreTaken
<1>1. IInv => FlagsAreTaken
  <2> SUFFICES ASSUME IInv, Undisturbed PROVE FlagsAreTaken
    BY DEF FlagsAreTaken
  <2>1. Phase /\ IF_ # {}
    BY DEF IInv, Running, Undisturbed, Interrupted
  <2> QED BY <2>1 DEF FlagsAreTaken, Phase, Addressing, Writing, Reading, Stopping
<1> QED BY <1>1, InvariantHolds, PTL

(* The driver sends the stop of a read after a NACK, which is the one of   *)
(* the last byte unless the address was refused.                           *)
THEOREM LastByteNacked == Spec => LastByteIsNacked
<1> DEFINE P == bus # "stop" /\ bus' = "stop" /\ sequence = "read" =>
                  bus = "nacked" /\ (result' = "Nack" \/ sensor.sent = 2)
<1>1. ASSUME IInv, [Next]_vars, bus # "stop", bus' = "stop", sequence = "read"
      PROVE  bus = "nacked" /\ (result' = "Nack" \/ sensor.sent = 2)
  <2>1. I2C0_IRQHandler_Body
    BY <1>1 DEF Next, LETIMER0_IRQHandler, ExternalSignal, StartMeasurement, Call, CallTransfer,
         CommandSent, ReportTemperature, Ignored, GateEvent, Quiet, CallStep, I2C_TransferInit,
         I2C_Transfer_Begin, I2C_Transfer_Start, I2C_Transfer_Return, Bus, AddressSent, ByteSent,
         ByteReceived, StopSent, ConversionCompletes, Disturbed, vars, driver_vars, transfer,
         wires, I2C0_IRQHandler
  <2>2. ~TransferFault /\ ~StopSeen
    BY <1>1 DEF TransferFault, StopSeen, wires
  <2>3. Phase
    BY <1>1, <2>1, <2>2 DEF IInv, I2C0_IRQHandler_Body, NotAcknowledged, Acknowledged,
         DataReceived, Undisturbed, Interrupted, Running
  <2>4. CASE NotAcknowledged
    BY <2>3, <2>4 DEF NotAcknowledged, Phase, Addressing, Writing
  <2>5. CASE Acknowledged
    BY <1>1, <2>5 DEF Acknowledged
  <2>6. CASE DataReceived
    BY <1>1, <2>3, <2>6 DEF DataReceived, Phase, Reading, BufferLen, AckThen
  <2> QED BY <2>1, <2>2, <2>4, <2>5, <2>6 DEF I2C0_IRQHandler_Body
<1>2. IInv /\ [Next]_vars => P
  BY <1>1
<1> QED BY <1>2, InvariantHolds, PTL DEF Spec, LastByteIsNacked

-----------------------------------------------------------------------------
(* Transfers end: what of it is a matter of states and steps.  StepsLeft   *)
(* bounds the steps of the thread, the handler and the wires that a        *)
(* transfer still takes while nothing disturbs the bus.                    *)

UnderControl == thread = "prepare" \/ Running

CallSteps ==
  CASE thread = "prepare" -> 4 [] thread = "start" -> 3 [] thread = "go" -> 2
    [] thread = "check" -> 1 [] OTHER -> 0

(* Flags to handle: of the address, of each byte and of the stop. *)
HandlerSteps ==
  CASE state = "AddrWFAckNack" -> IF sequence = "read" THEN 4 ELSE 3
    [] state = "DataWFAckNack" -> 2
    [] state = "WFData" -> 3 - offset
    [] OTHER -> 1

(* Address, bytes and stop to be put on the wires. *)
WireSteps ==
  CASE bus = "address" -> IF sequence = "read" THEN 4 ELSE 3
    [] bus \in {"receive", "unanswered"} -> 3 - sensor.sent
    [] bus = "transmit" \/ (bus = "held" /\ state = "AddrWFAckNack") -> 2
    [] bus = "idle" -> 0
    [] OTHER -> 1

StepsLeft ==
  CallSteps + IF thread \in {"prepare", "start", "go"} THEN 8 ELSE HandlerSteps + WireSteps

WireMoves ==
  bus \in {"address", "transmit", "stop"} \/ (bus = "receive" /\ "RXDATAV" \notin IF_)

(* A transfer under control takes at most twelve more steps, and someone   *)
(* can take the next: the thread in its call, the handler for a flag that  *)
(* is up, or the wires.                                                    *)
TransferGoesOn ==
  UnderControl =>
    /\ StepsLeft \in 1..12
    /\ thread \in {"prepare", "start", "go"} \/ Interrupted \/ WireMoves

(* Each such step brings the end nearer, and no other step puts it off.    *)
TransferShrinks ==
  [][UnderControl /\ UnderControl' =>
       /\ StepsLeft' <= StepsLeft
       /\ CallStep \/ I2C0_IRQHandler_Body \/ (Bus(si7021) /\ thread # "prepare")
            => StepsLeft' < StepsLeft]_vars

(* The thread writes transferSequence and the rest of the transfer's state *)
(* only while the handler that works on them cannot be called, and never   *)
(* those of a transfer under way.                                          *)
CalledAtRest ==
  [][thread' # thread /\ thread \in {"app", "prepare"} =>
       ~IEN /\ ~(thread = "app" /\ UnderWay)]_vars

LEMMA ControlledPhase ==
  ASSUME IInv, UnderControl
  PROVE  \/ thread = "prepare" /\ ~IEN
         \/ /\ thread \in {"start", "go"} /\ IEN /\ NVIC
            /\ state = "StartAddrSend" /\ bus = "idle" /\ IF_ = {}
         \/ /\ thread \in {"check", "app"} /\ IEN /\ NVIC
            /\ \/ state = "AddrWFAckNack" /\ Addressing
               \/ state = "DataWFAckNack" /\ Writing
               \/ state = "WFData" /\ Reading
               \/ state = "WFStopSent" /\ Stopping
<1>1. thread \in Threads
  BY DEF IInv, TypeOK
<1>2. CASE thread = "prepare"
  BY <1>2 DEF IInv, CallInv
<1>3. CASE thread # "prepare"
  <2>1. Running /\ IEN /\ NVIC /\ Phase
    BY <1>3 DEF UnderControl, IInv, CallInv, Running
  <2>2. thread \in {"start", "go"} => state = "StartAddrSend"
    BY <2>1 DEF IInv, CallInv
  <2> QED BY <1>1, <1>3, <2>1, <2>2 DEF Phase, Threads
<1> QED BY <1>2, <1>3

(* What is left, in each phase. *)
LEMMA PhaseSteps ==
  ASSUME IInv, UnderControl, thread \in {"check", "app"}
  PROVE  /\ HandlerSteps \in 1..4 /\ WireSteps \in 0..4
         /\ sequence = "write" => HandlerSteps \in 1..3 /\ WireSteps \in 0..3
         /\ IF_ # {} \/ WireMoves
<1>1. \/ state = "AddrWFAckNack" /\ Addressing
      \/ state = "DataWFAckNack" /\ Writing
      \/ state = "WFData" /\ Reading
      \/ state = "WFStopSent" /\ Stopping
  BY ControlledPhase
<1>2. sequence \in {"write", "read"}
  BY DEF IInv, TypeOK
<1>3. CASE state = "AddrWFAckNack" /\ Addressing
  BY <1>2, <1>3 DEF Addressing, HandlerSteps, WireSteps, WireMoves
<1>4. CASE state = "DataWFAckNack" /\ Writing
  BY <1>4 DEF Writing, HandlerSteps, WireSteps, WireMoves
<1>5. CASE state = "WFData" /\ Reading
  BY <1>5 DEF Reading, HandlerSteps, WireSteps, WireMoves
<1>6. CASE state = "WFStopSent" /\ Stopping
  BY <1>6 DEF Stopping, HandlerSteps, WireSteps, WireMoves
<1> QED BY <1>1, <1>3, <1>4, <1>5, <1>6

LEMMA ShortAndMoving ==
  ASSUME IInv, UnderControl
  PROVE  /\ StepsLeft \in 1..12
         /\ thread \in {"prepare", "start", "go"} \/ Interrupted \/ WireMoves
<1>1. CASE thread \in {"prepare", "start", "go"}
  BY <1>1 DEF StepsLeft, CallSteps
<1>2. CASE thread \in {"check", "app"}
  <2>1. IEN /\ NVIC
    BY <1>2, ControlledPhase
  <2>2. CallSteps \in 0..1
    BY <1>2 DEF CallSteps
  <2>3. StepsLeft = CallSteps + (HandlerSteps + WireSteps)
    BY <1>2 DEF StepsLeft
  <2> QED BY <1>2, <2>1, <2>2, <2>3, PhaseSteps DEF Interrupted
<1> QED BY <1>1, <1>2, ControlledPhase

(* Twelve steps of the thread, the handler and the wires at most, and      *)
(* always one that can be taken: an undisturbed transfer cannot hang on a  *)
(* flag nobody raises, on a flag the handler leaves, or on a bus that      *)
(* waits for a command.                                                    *)
THEOREM TransfersGoOn == Spec => []TransferGoesOn
<1>1. IInv => TransferGoesOn
  BY ShortAndMoving DEF TransferGoesOn
<1> QED BY <1>1, InvariantHolds, PTL

(* To the provers a primed definition is no number: they instantiate.      *)
LEMMA Sums ==
  /\ \A a, b, c, d \in Int : a = b /\ c < d => a + c < b + d
  /\ \A a, b, c, d \in Int : a < b /\ c = d => a + c < b + d
  OBVIOUS

LEMMA CallShrinks ==
  ASSUME IInv, CallStep, UnderControl, UnderControl'
  PROVE  StepsLeft' < StepsLeft
<1>1. CASE I2C_TransferInit
  BY <1>1 DEF I2C_TransferInit, StepsLeft, CallSteps
<1>2. CASE I2C_Transfer_Begin
  <2>1. thread = "start" /\ thread' = "go"
    BY <1>2, ControlledPhase DEF I2C_Transfer_Begin
  <2> QED BY <2>1 DEF StepsLeft, CallSteps
<1>3. CASE I2C_Transfer_Start
  <2>1. /\ thread = "go" /\ thread' = "check"
        /\ state' = "AddrWFAckNack" /\ bus' = "address"
    BY <1>3 DEF I2C_Transfer_Start
  <2>2. StepsLeft = 10
    BY <2>1 DEF StepsLeft, CallSteps
  <2>3. HandlerSteps' \in {3, 4} /\ WireSteps' \in {3, 4}
    BY <2>1 DEF HandlerSteps, WireSteps
  <2>4. StepsLeft' = 1 + (HandlerSteps' + WireSteps')
    BY <2>1 DEF StepsLeft, CallSteps
  <2>5. \A a, b \in {3, 4} : 1 + (a + b) < 10
    OBVIOUS
  <2> QED BY <2>2, <2>3, <2>4, <2>5
<1>4. CASE I2C_Transfer_Return
  <2>1. /\ thread = "check" /\ thread' = "app"
        /\ UNCHANGED <<sequence, state, offset, bus, sensor>>
    BY <1>4 DEF I2C_Transfer_Return, wires
  <2>2. HandlerSteps' = HandlerSteps /\ WireSteps' = WireSteps
    BY <2>1 DEF HandlerSteps, WireSteps
  <2>3. HandlerSteps \in Int /\ WireSteps \in Int
    BY <2>1, PhaseSteps
  <2>4. CallSteps = 1 /\ CallSteps' = 0
    BY <2>1 DEF CallSteps
  <2>5. /\ StepsLeft = CallSteps + (HandlerSteps + WireSteps)
        /\ StepsLeft' = CallSteps' + (HandlerSteps' + WireSteps')
    BY <2>1 DEF StepsLeft
  <2>6. HandlerSteps + WireSteps \in Int /\ HandlerSteps' + WireSteps' = HandlerSteps + WireSteps
    BY <2>2, <2>3
  <2> QED BY <2>4, <2>5, <2>6, Sums
<1> QED BY <1>1, <1>2, <1>3, <1>4 DEF CallStep

(* Past the call, the steps left are the handler's and the wires'. *)
LEMMA PastTheCall ==
  ASSUME IInv, UnderControl, thread \in {"check", "app"}, thread' = thread,
         HandlerSteps' \in Int, WireSteps' \in Int,
         HandlerSteps' + WireSteps' < HandlerSteps + WireSteps
  PROVE  StepsLeft' < StepsLeft
<1>1. CallSteps' = CallSteps /\ CallSteps \in 0..1
  BY DEF CallSteps
<1>2. HandlerSteps \in Int /\ WireSteps \in Int
  BY PhaseSteps
<1>3. /\ StepsLeft = CallSteps + (HandlerSteps + WireSteps)
      /\ StepsLeft' = CallSteps' + (HandlerSteps' + WireSteps')
  BY DEF StepsLeft
<1>4. /\ CallSteps \in Int /\ HandlerSteps + WireSteps \in Int
      /\ HandlerSteps' + WireSteps' \in Int
  BY <1>1, <1>2
<1> QED BY <1>1, <1>3, <1>4, Sums

LEMMA HandlerShrinks ==
  ASSUME IInv, I2C0_IRQHandler_Body, UnderControl, UnderControl'
  PROVE  StepsLeft' < StepsLeft
<1>1. thread' = thread /\ sequence' = sequence /\ UNCHANGED sensor /\ IEN
  BY DEF I2C0_IRQHandler_Body, TransferFault, NotAcknowledged, Acknowledged, DataReceived,
         StopSeen, Undisturbed, Interrupted, wires
<1>2. thread \in {"check", "app"} /\ IF_ # {}
  BY <1>1, ControlledPhase
     DEF I2C0_IRQHandler_Body, TransferFault, NotAcknowledged, Acknowledged, DataReceived,
         StopSeen, Undisturbed, Interrupted
<1>3. IEN'
  BY <1>1, <1>2 DEF UnderControl, Running
<1>4. HandlerSteps' \in Int /\ WireSteps' \in Int /\ HandlerSteps' + WireSteps' < HandlerSteps + WireSteps
  <2>1. CASE NotAcknowledged
    <3>1. /\ state \in {"AddrWFAckNack", "DataWFAckNack"} /\ bus = "nacked"
          /\ state' = "WFStopSent" /\ bus' = "stop"
      BY <1>2, <2>1, ControlledPhase DEF NotAcknowledged, Stop, Addressing, Writing
    <3>2. HandlerSteps \in {2, 3, 4} /\ HandlerSteps' = 1
      BY <3>1 DEF HandlerSteps
    <3>3. WireSteps = 1 /\ WireSteps' = 1
      BY <3>1 DEF WireSteps
    <3>4. HandlerSteps' < HandlerSteps
      BY <3>2
    <3> QED BY <3>2, <3>3, <3>4, Sums
  <2>2. CASE Acknowledged /\ sequence = "read"
    <3>1. /\ state = "AddrWFAckNack" /\ offset = 0 /\ bus \in {"receive", "unanswered"}
          /\ sensor.sent \in 0..1
      BY <1>2, <2>2, ControlledPhase DEF Acknowledged, Addressing, Writing
    <3>2. state' = "WFData" /\ UNCHANGED <<offset, bus>>
      BY <2>2 DEF Acknowledged
    <3> QED BY <1>1, <2>2, <3>1, <3>2 DEF HandlerSteps, WireSteps
  <2>3. CASE Acknowledged /\ sequence = "write"
    <3>1. \/ state = "AddrWFAckNack" /\ offset = 0 /\ bus = "held"
          \/ state = "DataWFAckNack" /\ offset = 1 /\ bus = "held"
      BY <1>2, <2>3, ControlledPhase DEF Acknowledged, Addressing, Writing
    <3>2. CASE state = "AddrWFAckNack" /\ offset = 0 /\ bus = "held"
      <4>1. state' = "DataWFAckNack" /\ bus' = "transmit"
        BY <2>3, <3>2 DEF Acknowledged, BufferLen
      <4> QED BY <1>1, <2>3, <3>2, <4>1 DEF HandlerSteps, WireSteps
    <3>3. CASE state = "DataWFAckNack" /\ offset = 1 /\ bus = "held"
      <4>1. state' = "WFStopSent" /\ bus' = "stop"
        BY <2>3, <3>3 DEF Acknowledged, BufferLen, Stop
      <4> QED BY <3>3, <4>1 DEF HandlerSteps, WireSteps
    <3> QED BY <3>1, <3>2, <3>3
  <2>4. CASE DataReceived
    <3>1. /\ state = "WFData" /\ sequence = "read"
          /\ \/ offset = 0 /\ bus = "unanswered" /\ sensor.sent = 1
             \/ offset = 1 /\ bus = "nacked" /\ sensor.sent = 2
      BY <1>2, <2>4, ControlledPhase DEF DataReceived, Reading
    <3>2. CASE offset = 0 /\ bus = "unanswered" /\ sensor.sent = 1
      <4>1. state' = "WFData" /\ offset' = 1 /\ bus' = "receive"
        BY <2>4, <3>1, <3>2 DEF DataReceived, BufferLen, AckThen
      <4> QED BY <1>1, <3>1, <3>2, <4>1 DEF HandlerSteps, WireSteps
    <3>3. CASE offset = 1 /\ bus = "nacked" /\ sensor.sent = 2
      <4>1. state' = "WFStopSent" /\ bus' = "stop"
        BY <2>4, <3>1, <3>3 DEF DataReceived, BufferLen, Stop
      <4> QED BY <3>1, <3>3, <4>1 DEF HandlerSteps, WireSteps
    <3> QED BY <3>1, <3>2, <3>3
  <2>5. ~TransferFault /\ ~StopSeen
    BY <1>3 DEF TransferFault, StopSeen
  <2>6. sequence \in {"read", "write"}
    BY DEF IInv, TypeOK
  <2> QED BY <2>1, <2>2, <2>3, <2>4, <2>5, <2>6 DEF I2C0_IRQHandler_Body
<1> QED BY <1>1, <1>2, <1>4, PastTheCall

LEMMA WiresShrink ==
  ASSUME IInv, Bus(si7021), UnderControl, UnderControl', thread # "prepare"
  PROVE  StepsLeft' < StepsLeft
<1>1. UNCHANGED <<thread, sequence, state, offset>>
  BY DEF Bus, AddressSent, ByteSent, ByteReceived, StopSent, transfer
<1>2. thread \in {"check", "app"}
  BY ControlledPhase DEF Bus, AddressSent, ByteSent, ByteReceived, StopSent
<1>3. sequence \in {"read", "write"} /\ offset \in 0..2
  BY DEF IInv, TypeOK
<1>4. HandlerSteps' = HandlerSteps /\ HandlerSteps \in Int
  BY <1>1, <1>2, PhaseSteps DEF HandlerSteps
<1>5. WireSteps' \in Int /\ WireSteps' < WireSteps
  <2>1. CASE AddressSent(si7021)
    <3>1. state = "AddrWFAckNack" /\ bus = "address"
      BY <1>2, <2>1, ControlledPhase DEF AddressSent, Writing, Reading, Stopping
    <3>2. \/ sequence = "read" /\ bus' = "receive" /\ sensor'.sent = 0
          \/ sequence = "write" /\ bus' = "held"
          \/ bus' = "nacked"
      BY <1>3, <2>1 DEF AddressSent, IInv, TypeOK
    <3> QED BY <1>1, <1>3, <3>1, <3>2 DEF WireSteps
  <2>2. CASE ByteSent
    <3>1. state = "DataWFAckNack" /\ bus = "transmit"
      BY <1>2, <2>2, ControlledPhase DEF ByteSent, Addressing, Reading, Stopping
    <3>2. bus' \in {"held", "nacked"}
      BY <2>2 DEF ByteSent
    <3> QED BY <1>1, <3>1, <3>2 DEF WireSteps
  <2>3. CASE ByteReceived
    <3>1. /\ sequence = "read" /\ bus = "receive"
          /\ \/ sensor.sent = 0 /\ reply = "none"
             \/ sensor.sent = 1 /\ reply = "NACK"
      BY <1>2, <2>3, ControlledPhase DEF ByteReceived, Addressing, Reading, Writing, Stopping
    <3>2. sensor'.sent = sensor.sent + 1
      BY <2>3 DEF ByteReceived, IInv, TypeOK
    <3>3. bus' = IF reply = "NACK" THEN "nacked" ELSE "unanswered"
      BY <2>3, <3>1 DEF ByteReceived
    <3> QED BY <1>1, <3>1, <3>2, <3>3 DEF WireSteps
  <2>4. CASE StopSent
    BY <2>4 DEF StopSent, WireSteps
  <2> QED BY <2>1, <2>2, <2>3, <2>4 DEF Bus
<1>6. WireSteps \in Int
  BY <1>2, PhaseSteps
<1>7. HandlerSteps' + WireSteps' < HandlerSteps + WireSteps
  BY <1>4, <1>5, <1>6, Sums
<1> QED BY <1>1, <1>2, <1>4, <1>5, <1>7, PastTheCall

(* What the steps of nobody concerned leave alone. *)
LEMMA StepsStay ==
  ASSUME UNCHANGED <<thread, sequence, state, offset, bus, sensor.sent>>
  PROVE  StepsLeft' = StepsLeft
<1>1. CallSteps' = CallSteps
  BY DEF CallSteps
<1>2. HandlerSteps' = HandlerSteps
  BY DEF HandlerSteps
<1>3. WireSteps' = WireSteps
  BY DEF WireSteps
<1> QED BY <1>1, <1>2, <1>3 DEF StepsLeft

LEMMA OthersLeave ==
  ASSUME IInv, [Next]_vars, UnderControl, UnderControl',
         ~(CallStep \/ I2C0_IRQHandler_Body \/ (Bus(si7021) /\ thread # "prepare"))
  PROVE  StepsLeft' = StepsLeft
<1>1. ASSUME UNCHANGED driver_vars
      PROVE  StepsLeft' = StepsLeft
  BY <1>1, StepsStay DEF driver_vars, transfer, wires
<1>2. CASE \E flags \in LETIMER0_Flags : LETIMER0_IRQHandler(flags)
  BY <1>1, <1>2 DEF LETIMER0_IRQHandler
<1>3. CASE ExternalSignal
  <2>1. CASE UNCHANGED driver_vars
    BY <1>1, <2>1
  <2>2. CASE ~UNCHANGED driver_vars
    <3>1. next_state \notin Waiting /\ thread = "app"
      BY <1>3, <2>2 DEF ExternalSignal, StartMeasurement, Call, CommandSent, ReportTemperature,
           Ignored, Delivered, Waiting
    <3>2. ~IEN
      BY <3>1 DEF IInv, OwnerInv
    <3> QED BY <3>1, <3>2 DEF UnderControl, Running
  <2> QED BY <2>1, <2>2
<1>4. CASE GateEvent \/ UNCHANGED vars
  BY <1>1, <1>4 DEF GateEvent, vars
<1>5. CASE Quiet(Bus(si7021))
  <2>1. thread = "prepare" /\ thread' = "prepare"
    BY <1>5 DEF Quiet, Bus, AddressSent, ByteSent, ByteReceived, StopSent
  <2> QED BY <2>1 DEF StepsLeft, CallSteps
<1>6. CASE Quiet(ConversionCompletes)
  <2>1. sensor'.sent = sensor.sent
    BY <1>6 DEF Quiet, ConversionCompletes, IInv, TypeOK
  <2> QED BY <1>6, <2>1, StepsStay DEF Quiet, ConversionCompletes, transfer
<1>7. CASE \E error \in Errors : Quiet(Disturbed(error))
  <2>1. thread' = thread /\ IF_' \cap Errors # {}
    BY <1>7 DEF Quiet, Disturbed
  <2>2. thread = "prepare"
    BY <2>1 DEF UnderControl, Running
  <2> QED BY <2>1, <2>2 DEF StepsLeft, CallSteps
<1>8. ~I2C0_IRQHandler /\ ~Quiet(CallStep)
  BY DEF I2C0_IRQHandler, Quiet
<1> QED BY <1>2, <1>3, <1>4, <1>5, <1>6, <1>7, <1>8 DEF Next

(* Every such step of an undisturbed transfer brings its end nearer, and   *)
(* no other step puts it off: it cannot go round in circles.               *)
THEOREM TransfersShrink == Spec => TransferShrinks
<1> DEFINE Driver == CallStep \/ I2C0_IRQHandler_Body \/ (Bus(si7021) /\ thread # "prepare")
           P == UnderControl /\ UnderControl' =>
                  /\ StepsLeft' <= StepsLeft
                  /\ Driver => StepsLeft' < StepsLeft
<1>1. ASSUME IInv, TransferGoesOn, TransferGoesOn', [Next]_vars, UnderControl, UnderControl'
      PROVE  StepsLeft' <= StepsLeft /\ (Driver => StepsLeft' < StepsLeft)
  <2>1. StepsLeft \in Int /\ StepsLeft' \in Int
    BY <1>1 DEF TransferGoesOn
  <2>2. StepsLeft' < StepsLeft => StepsLeft' <= StepsLeft
    BY <2>1
  <2>3. CASE Driver
    <3>1. StepsLeft' < StepsLeft
      BY <1>1, <2>3, CallShrinks, HandlerShrinks, WiresShrink
    <3> QED BY <2>2, <3>1
  <2>4. CASE ~Driver
    <3>1. StepsLeft' = StepsLeft
      BY <1>1, <2>4, OthersLeave
    <3>2. StepsLeft' <= StepsLeft
      BY <2>1, <3>1
    <3> QED BY <2>4, <3>2
  <2> QED BY <2>3, <2>4
<1>2. IInv /\ TransferGoesOn /\ TransferGoesOn' /\ [Next]_vars => P
  BY <1>1
<1> QED BY <1>2, TransfersGoOn, InvariantHolds, PTL DEF Spec, TransferShrinks

(* The thread writes what it shares with the handler only while the        *)
(* handler cannot be called.                                               *)
THEOREM CalledAtRestOnly == Spec => CalledAtRest
<1> DEFINE P == thread' # thread /\ thread \in {"app", "prepare"} =>
                  ~IEN /\ ~(thread = "app" /\ UnderWay)
<1>1. ASSUME IInv, [Next]_vars, thread' # thread, thread \in {"app", "prepare"}
      PROVE  ~IEN /\ ~(thread = "app" /\ UnderWay)
  <2>1. CASE thread = "prepare"
    BY <1>1, <2>1 DEF IInv, CallInv
  <2>2. CASE thread = "app"
    <3>1. ExternalSignal
      BY <1>1, <2>2 DEF Next, LETIMER0_IRQHandler, I2C0_IRQHandler, I2C0_IRQHandler_Body,
           TransferFault, NotAcknowledged, Acknowledged, DataReceived, StopSeen, GateEvent,
           Quiet, CallStep, I2C_TransferInit, I2C_Transfer_Begin, I2C_Transfer_Start,
           I2C_Transfer_Return, Bus, AddressSent, ByteSent, ByteReceived, StopSent,
           ConversionCompletes, Disturbed, vars, driver_vars
    <3>2. next_state \notin Waiting
      BY <1>1, <3>1 DEF ExternalSignal, StartMeasurement, Call, CommandSent, ReportTemperature,
           Ignored, Delivered, Waiting, driver_vars
    <3>3. ~IEN
      BY <1>1, <3>2 DEF IInv, OwnerInv
    <3> QED BY <2>2, <3>3 DEF UnderWay
  <2> QED BY <1>1, <2>1, <2>2
<1>2. IInv /\ [Next]_vars => P
  BY <1>1
<1> QED BY <1>2, InvariantHolds, PTL DEF Spec, CalledAtRest

-----------------------------------------------------------------------------
(* The encoding. *)

(* Four bytes hold the number of the indication. *)
LEMMA BitStream ==
  ASSUME NEW m \in Nat, m < 16777216
  PROVE  /\ (m % 256) + 256 * ((m \div 256) % 256) + 65536 * (m \div 65536) = m
         /\ (m \div 65536) >= 128 <=> m >= 8388608
<1>1. (m % 256) + 256 * ((m \div 256) % 256) + 65536 * (m \div 65536) = m
  <2>1. PICK a \in Int, b \in Int :
          a = m \div 256 /\ b = m % 256 /\ m = 256 * a + b /\ b >= 0 /\ b < 256
    BY SMT
  <2>2. PICK c \in Int, d \in Int :
          c = a \div 256 /\ d = a % 256 /\ a = 256 * c + d /\ d >= 0 /\ d < 256
    BY <2>1, SMT
  <2>3. m \div 65536 = c
    BY <2>1, <2>2, SMT
  <2> QED BY <2>1, <2>2, <2>3, SMT
<1> QED BY <1>1, SMT

LEMMA ExponentByte == Exponent % 256 = 253
<1>1. Exponent \in Int /\ Exponent + 3 = 0
  BY SMT DEF Exponent
<1> QED BY <1>1, SMT

(* The number in the indication decodes to the degrees it encodes, for     *)
(* every temperature within the range of the sensor.                       *)
LEMMA CodecRoundTrip ==
  ASSUME NEW t \in Int, t >= -46, t <= 128
  PROVE  FLOAT_TO_INT32(Buffer(t)) = t
<1> DEFINE m == Mantissa(t)
           b == Buffer(t)
<1>1. m = IF t >= 0 THEN t * 1000 ELSE t * 1000 + 16777216
  BY SMT DEF Mantissa
<1>2. m \in Nat /\ m < 16777216 /\ (m >= 8388608 <=> t < 0)
  BY <1>1, SMT
<1> HIDE DEF m
<1>3. /\ (m % 256) + 256 * ((m \div 256) % 256) + 65536 * (m \div 65536) = m
      /\ (m \div 65536) >= 128 <=> m >= 8388608
  BY <1>2, BitStream, ExponentByte, SMT
<1>4. /\ b[2] = m % 256 /\ b[3] = (m \div 256) % 256 /\ b[4] = m \div 65536
      /\ b[5] = 253
  BY ExponentByte, SMT DEF Buffer, UINT32_TO_BITSTREAM, m
<1> HIDE DEF b
<1>5. SignedMantissa(b) = t * 1000
  BY <1>1, <1>2, <1>3, <1>4, SMT DEF SignedMantissa
<1>6. Truncate(t * 1000, 1000) = t
  BY SMT DEF Truncate
<1>7. FLOAT_TO_INT32(b) = Truncate(SignedMantissa(b), Pow10(3))
  BY <1>4, SMT DEF FLOAT_TO_INT32
<1>8. Pow10(3) = 1000
  BY SMT DEF Pow10
<1> QED BY <1>5, <1>6, <1>7, <1>8, SMT DEF b

LEMMA DegreesOfCode ==
  ASSUME NEW c \in Int, c >= 0, c <= 65535
  PROVE  Degrees(c) \in Int /\ Degrees(c) >= -46 /\ Degrees(c) <= 128
<1> DEFINE n == 17572 * c - 4685 * 65536
<1>1. n >= 0 => n \div 6553600 \in Int /\ n \div 6553600 >= 0 /\ n \div 6553600 <= 128
  BY SMT
<1>2. n < 0 => (-n) \div 6553600 \in Int /\ (-n) \div 6553600 >= 0 /\ (-n) \div 6553600 <= 46
  BY SMT
<1> QED BY <1>1, <1>2, SMT DEF Degrees, Truncate

LEMMA DegreesInRange ==
  ASSUME NEW code \in [1..2 -> Byte]
  PROVE  Degrees(Code(code)) \in Int /\ Degrees(Code(code)) >= -46 /\ Degrees(Code(code)) <= 128
<1>1. code[1] \in 0..255 /\ code[2] \in 0..255
  BY SMT DEF Byte
<1>2. PICK a \in 0..255, b \in 0..255 : code[1] = a /\ code[2] = b
  BY <1>1
<1>3. Code(code) \in Int /\ Code(code) >= 0 /\ Code(code) <= 65535
  BY <1>2, SMT DEF Code
<1> QED BY <1>3, DegreesOfCode, SMT

(* Whatever the sensor answers, the client decodes the degrees of that     *)
(* conversion, or 0 for a temperature below zero.                          *)
THEOREM TemperaturesArrive == Spec => TemperatureArrives
<1> DEFINE t == Degrees(Code(sensor.code))
           P == Reported \/ htm_temperature_buffer' # htm_temperature_buffer =>
                  FLOAT_TO_INT32(htm_temperature_buffer') \in IF t >= 0 THEN {t} ELSE {t, 0}
<1>1. ASSUME IInv, [Next]_vars, Reported \/ htm_temperature_buffer' # htm_temperature_buffer
      PROVE  FLOAT_TO_INT32(htm_temperature_buffer') \in IF t >= 0 THEN {t} ELSE {t, 0}
  <2>1. ReportTemperature
    BY <1>1 DEF Next, LETIMER0_IRQHandler, ExternalSignal, StartMeasurement, Call,
         CommandSent, Reported, Delivered, Ignored, GateEvent, Quiet, app, vars, I2C0_IRQHandler
  <2>2. read_data = sensor.code
    BY <1>1, <2>1 DEF IInv, DataInv, ReportTemperature, Delivered
  <2>3. sensor.code \in [1..2 -> Byte]
    BY <1>1, CodesAssumption DEF IInv, TypeOK, None, Byte
  <2>4. t \in Int /\ t >= -46 /\ t <= 128
    BY <2>3, DegreesInRange, SMT
  <2>5. PICK r \in get_temp_value(read_data) : htm_temperature_buffer' = Buffer(r)
    BY <2>1 DEF ReportTemperature
  <2>6. r \in IF t >= 0 THEN {t} ELSE {t, 0}
    BY <2>2, <2>5 DEF get_temp_value
  <2>7. r \in Int /\ r >= -46 /\ r <= 128
    <3> HIDE DEF t
    <3> QED BY <2>4, <2>6, SMT
  <2>8. FLOAT_TO_INT32(htm_temperature_buffer') = r
    BY <2>5, <2>7, CodecRoundTrip
  <2> QED BY <2>6, <2>8
<1>2. IInv /\ [Next]_vars => P
  BY <1>1
<1> QED BY <1>2, InvariantHolds, PTL DEF Spec, TemperatureArrives

-----------------------------------------------------------------------------
(* The machine over the driver is TemperatureMachine: what it takes for    *)
(* one step is what the driver makes of many.                              *)

LEMMA InitMaps == Init => Machine!Init
  BY DEF Init, DriverInit, Machine!Init, UnderWay

LEMMA LetimerMaps ==
  ASSUME NEW flags \in LETIMER0_Flags, LETIMER0_IRQHandler(flags)
  PROVE  Machine!Next
<1>1. flags \in Machine!LETIMER0_Flags
  BY DEF LETIMER0_Flags, Machine!LETIMER0_Flags
<1>2. Machine!LETIMER0_IRQHandler(flags)
  BY DEF LETIMER0_IRQHandler, Machine!LETIMER0_IRQHandler, UnderWay, driver_vars, transfer, gate,
         Machine!gate
<1> QED BY <1>1, <1>2 DEF Machine!Next

(* A flag handled on the way changes nothing the machine sees; the last    *)
(* one ends the transfer.                                                  *)
LEMMA HandlerMaps ==
  ASSUME IInv, I2C0_IRQHandler
  PROVE  Machine!Next \/ UNCHANGED Machine!vars
<1> USE DEF IInv, gate, app, Machine!gate, Machine!vars, Machine!machine
<1>1. /\ UNCHANGED <<next_state, comp1, si7021, em1, connection_open, ok_to_send_htm_indications>>
      /\ thread' = thread /\ sequence' = sequence /\ IEN /\ NVIC /\ thread # "prepare"
  BY DEF I2C0_IRQHandler, I2C0_IRQHandler_Body, TransferFault, NotAcknowledged, Acknowledged,
         DataReceived, StopSeen, Undisturbed, Interrupted, CallInv
<1>2. CASE TransferFault
  <2>1. ~IEN' /\ NVIC' = NVIC /\ UNCHANGED <<signals, measured>>
    BY <1>2 DEF TransferFault, ErrorResult, I2C0_IRQHandler
  <2>2. CASE state = "Done"
    BY <1>1, <2>1, <2>2 DEF UnderWay
  <2>3. CASE state # "Done"
    <3>1. Machine!I2C0_IRQHandler_Error
      BY <1>1, <2>1, <2>3 DEF UnderWay, Machine!I2C0_IRQHandler_Error, TypeOK
    <3> QED BY <3>1 DEF Machine!Next
  <2> QED BY <2>2, <2>3
<1>3. CASE NotAcknowledged \/ Acknowledged \/ DataReceived
  <2>1. state # "Done" /\ state' # "Done" /\ IEN' = IEN /\ NVIC' = NVIC
    BY <1>3 DEF NotAcknowledged, Acknowledged, DataReceived
  <2>2. UNCHANGED <<signals, measured>>
    BY <2>1 DEF I2C0_IRQHandler
  <2> QED BY <1>1, <2>1, <2>2 DEF UnderWay
<1>4. CASE StopSeen
  <2>1. state # "Done" /\ state' = "Done" /\ ~IEN' /\ NVIC' = (result' # "Done")
    BY <1>4 DEF StopSeen
  <2>2. CASE result' = "Done"
    <3>1. signals' = signals \cup {"evtI2C0_done"} /\ measured' = Progress
      BY <2>1, <2>2 DEF I2C0_IRQHandler
    <3>2. Machine!I2C0_IRQHandler_Done
      BY <1>1, <2>1, <2>2, <3>1
         DEF UnderWay, Machine!I2C0_IRQHandler_Done, Progress, TypeOK
    <3> QED BY <3>2 DEF Machine!Next
  <2>3. CASE result' # "Done"
    <3>1. UNCHANGED <<signals, measured>>
      BY <2>3 DEF I2C0_IRQHandler
    <3>2. Machine!I2C0_IRQHandler_Error
      BY <1>1, <2>1, <2>3, <3>1 DEF UnderWay, Machine!I2C0_IRQHandler_Error, TypeOK
    <3> QED BY <3>2 DEF Machine!Next
  <2> QED BY <2>2, <2>3
<1> QED BY <1>2, <1>3, <1>4 DEF I2C0_IRQHandler, I2C0_IRQHandler_Body

LEMMA ExternalSignalMaps ==
  ASSUME IInv, ExternalSignal
  PROVE  Machine!Next
<1> USE DEF IInv, gate, Machine!gate, Delivered, Machine!Gate, UnderWay, driver_vars, transfer
<1>1. thread = "app" /\ signals # {} /\ signals' = {} /\ UNCHANGED gate
  BY DEF ExternalSignal
<1>2. ASSUME Machine!temperature_state_machine(signals)
      PROVE  Machine!Next
  BY <1>1, <1>2 DEF Machine!Next, Machine!ExternalSignal
<1>3. CASE StartMeasurement
  <2>1. Machine!StartMeasurement(signals)
    BY <1>1, <1>3 DEF StartMeasurement, Machine!StartMeasurement, Machine!timerWaitUs_irq
  <2> QED BY <1>2, <2>1 DEF Machine!temperature_state_machine
<1>4. CASE Call("write", "STATE_SI7021_ON", "STATE_I2C_SEND")
  <2>1. Machine!SendCommand(signals)
    BY <1>1, <1>4 DEF Call, CallTransfer, Machine!SendCommand, Machine!add_em1_requirement,
         Machine!I2C_TransferInit
  <2> QED BY <1>2, <2>1 DEF Machine!temperature_state_machine
<1>5. CASE CommandSent
  <2>1. Machine!CommandSent(signals)
    BY <1>1, <1>5 DEF CommandSent, Machine!CommandSent, Machine!remove_em1_requirement,
         Machine!timerWaitUs_irq
  <2> QED BY <1>2, <2>1 DEF Machine!temperature_state_machine
<1>6. CASE Call("read", "STATE_I2C_SEND_COMPLETE", "STATE_I2C_READ_COMPLETE")
  <2>1. Machine!ReadResponse(signals)
    BY <1>1, <1>6 DEF Call, CallTransfer, Machine!ReadResponse, Machine!add_em1_requirement,
         Machine!I2C_TransferInit
  <2> QED BY <1>2, <2>1 DEF Machine!temperature_state_machine
<1>7. CASE ReportTemperature
  <2>1. Machine!ReportTemperature(signals)
    BY <1>1, <1>7 DEF ReportTemperature, Machine!ReportTemperature,
         Machine!remove_em1_requirement
  <2> QED BY <1>2, <2>1 DEF Machine!temperature_state_machine
<1>8. CASE Ignored
  <2>1. Awaited = Machine!Awaited
    BY DEF Awaited, Machine!Awaited
  <2>2. Machine!Ignored(signals)
    BY <1>1, <1>8, <2>1 DEF Ignored, Machine!Ignored, app
  <2> QED BY <1>2, <2>2 DEF Machine!temperature_state_machine
<1> QED BY <1>3, <1>4, <1>5, <1>6, <1>7, <1>8 DEF ExternalSignal

LEMMA GateMaps ==
  ASSUME GateEvent
  PROVE  Machine!Next
<1>1. UNCHANGED Machine!machine
  BY DEF GateEvent, driver_vars, transfer, app, Machine!machine, UnderWay
<1>2. \/ Machine!ConnectionOpened \/ Machine!ConnectionClosed
      \/ \E enabled \in BOOLEAN : Machine!ClientConfig(enabled)
      \/ Machine!IndicationTimeout
  BY <1>1 DEF GateEvent, ConnectionOpened, ConnectionClosed, ClientConfig, IndicationTimeout,
              Machine!ConnectionOpened, Machine!ConnectionClosed, Machine!ClientConfig,
              Machine!IndicationTimeout
<1> QED BY <1>2 DEF Machine!Next

(* The bus, and the thread on its way through the call, are not seen; the  *)
(* call that finds an error at its end gives up the transfer.              *)
LEMMA QuietMaps ==
  ASSUME IInv, \/ Quiet(CallStep) \/ Quiet(Bus(si7021)) \/ Quiet(ConversionCompletes)
               \/ \E error \in Errors : Quiet(Disturbed(error))
  PROVE  Machine!Next \/ UNCHANGED Machine!vars
<1> USE DEF IInv, Machine!vars, Machine!machine, Machine!gate
<1>1. UNCHANGED <<app, gate, signals, measured>>
  BY DEF Quiet
<1>2. sequence' = sequence /\ NVIC' = NVIC
  BY DEF Quiet, CallStep, I2C_TransferInit, I2C_Transfer_Begin, I2C_Transfer_Start,
         I2C_Transfer_Return, Bus, AddressSent, ByteSent, ByteReceived, StopSent,
         ConversionCompletes, Disturbed, transfer
<1>3. ASSUME UNCHANGED UnderWay
      PROVE  UNCHANGED Machine!vars
  BY <1>1, <1>2, <1>3 DEF app, gate
<1>4. CASE I2C_Transfer_Begin /\ thread' = "check"
  <2>1. ~UnderWay'
    BY <1>4 DEF I2C_Transfer_Begin, UnderWay
  <2>2. CASE UnderWay
    <3>1. Machine!I2C0_IRQHandler_Error
      BY <1>1, <1>2, <1>4, <2>1, <2>2 DEF Machine!I2C0_IRQHandler_Error, app, gate, TypeOK,
           I2C_Transfer_Begin, CallInv
    <3> QED BY <3>1 DEF Machine!Next
  <2>3. CASE ~UnderWay
    <3>1. UNCHANGED UnderWay
      BY <2>1, <2>3 DEF UnderWay
    <3> QED BY <1>3, <3>1
  <2> QED BY <2>2, <2>3
<1>5. CASE ~(I2C_Transfer_Begin /\ thread' = "check")
  <2>1. UNCHANGED UnderWay
    BY <1>5 DEF Quiet, CallStep, I2C_TransferInit, I2C_Transfer_Begin, I2C_Transfer_Start,
         I2C_Transfer_Return, Bus, AddressSent, ByteSent, ByteReceived, StopSent,
         ConversionCompletes, Disturbed, transfer, UnderWay, CallInv
  <2> QED BY <1>3, <2>1
<1> QED BY <1>4, <1>5

THEOREM DriverImplementsTransfers == Spec => ImplementsMachine
<1>1. Init => Machine!Init
  BY InitMaps
<1>2. ASSUME IInv, [Next]_vars
      PROVE  [Machine!Next]_(Machine!vars)
  <2>1. CASE UNCHANGED vars
    BY <2>1 DEF vars, driver_vars, transfer, app, gate, Machine!vars, Machine!machine,
         Machine!gate, UnderWay
  <2> QED BY <1>2, <2>1, LetimerMaps, HandlerMaps, ExternalSignalMaps, GateMaps, QuietMaps DEF Next
<1>3. IInv /\ [Next]_vars => [Machine!Next]_(Machine!vars)
  BY <1>2
<1> QED BY <1>1, <1>3, InvariantHolds, PTL DEF Spec, ImplementsMachine, Machine!Spec

MP == INSTANCE TemperatureMachineProofs WITH
  i2c <- IF UnderWay THEN sequence ELSE "none",
  i2c_irq <- NVIC,
  read_data <- measured

LEMMA SameMachine ==
  /\ Machine!Init <=> MP!Init
  /\ [Machine!Next]_(Machine!vars) => [MP!Next]_(MP!vars)
  /\ UNCHANGED Machine!vars <=> UNCHANGED MP!vars
<1>1. Machine!Init <=> MP!Init
  BY DEF Machine!Init, MP!Init
<1>2. Machine!Next <=> MP!Next
  BY DEF Machine!Next, MP!Next, Machine!vars, MP!vars, Machine!machine, MP!machine, Machine!gate,
       MP!gate, Machine!LETIMER0_Flags, MP!LETIMER0_Flags, Machine!LETIMER0_IRQHandler,
       MP!LETIMER0_IRQHandler, Machine!I2C0_IRQHandler_Done, MP!I2C0_IRQHandler_Done,
       Machine!I2C0_IRQHandler_Error, MP!I2C0_IRQHandler_Error, Machine!ButtonSignals,
       MP!ButtonSignals, Machine!GPIO_EVEN_IRQHandler, MP!GPIO_EVEN_IRQHandler,
       Machine!ExternalSignal, MP!ExternalSignal, Machine!temperature_state_machine,
       MP!temperature_state_machine, Machine!StartMeasurement, MP!StartMeasurement,
       Machine!SendCommand, MP!SendCommand, Machine!CommandSent, MP!CommandSent,
       Machine!ReadResponse, MP!ReadResponse, Machine!ReportTemperature, MP!ReportTemperature,
       Machine!Ignored, MP!Ignored, Machine!Awaited, MP!Awaited, Machine!Gate, MP!Gate,
       Machine!timerWaitUs_irq, MP!timerWaitUs_irq, Machine!I2C_TransferInit, MP!I2C_TransferInit,
       Machine!add_em1_requirement, MP!add_em1_requirement, Machine!remove_em1_requirement,
       MP!remove_em1_requirement, Machine!ConnectionOpened, MP!ConnectionOpened,
       Machine!ConnectionClosed, MP!ConnectionClosed, Machine!ClientConfig, MP!ClientConfig,
       Machine!IndicationTimeout, MP!IndicationTimeout
<1>3. UNCHANGED Machine!vars <=> UNCHANGED MP!vars
  BY DEF Machine!vars, MP!vars, Machine!machine, MP!machine, Machine!gate, MP!gate
<1>4. [Machine!Next]_(Machine!vars) => [MP!Next]_(MP!vars)
  <2> SUFFICES ASSUME [Machine!Next]_(Machine!vars)
               PROVE  [MP!Next]_(MP!vars)
    OBVIOUS
  <2>1. CASE Machine!Next
    BY <1>2, <2>1
  <2>2. CASE UNCHANGED Machine!vars
    BY <1>3, <2>2
  <2> QED BY <2>1, <2>2
<1> QED BY <1>1, <1>3, <1>4

LEMMA MachineRuns == Spec => MP!Spec
<1>1. Machine!Init => MP!Init
  BY SameMachine
<1>2. [Machine!Next]_(Machine!vars) => [MP!Next]_(MP!vars)
  BY SameMachine
<1> QED BY <1>1, <1>2, DriverImplementsTransfers, PTL DEF ImplementsMachine, Machine!Spec, MP!Spec

(* So what is proved of TemperatureMachine holds of the bytes on the bus:  *)
(* EM2, which would stop the controller's clock, is never allowed while a  *)
(* transfer is under way, and the sensor is powered.                       *)
THEOREM EM1WhileUnderWay == Spec => [](em1 \in 0..1 /\ (UnderWay => em1 = 1 /\ si7021))
<1>1. MP!Spec => [](MP!TypeOK /\ MP!EM1HeldForTransfer /\ MP!WakeupBelongsToWait)
  BY MP!MachineInvariant DEF MP!MachineInvariant
<1>2. IInv /\ MP!EM1HeldForTransfer => em1 \in 0..1 /\ (UnderWay => em1 = 1 /\ si7021)
  BY DEF MP!EM1HeldForTransfer, IInv, TypeOK
<1> QED BY <1>1, <1>2, MachineRuns, InvariantHolds, PTL

LEMMA SameStep ==
  /\ UNCHANGED Machine!vars <=> UNCHANGED MP!vars
  /\ Machine!I2C0_IRQHandler_Error <=> MP!I2C0_IRQHandler_Error
  /\ Machine!Stalled <=> MP!Stalled
  /\ Machine!Stalled' <=> MP!Stalled'
  /\ Machine!Awaited = MP!Awaited
  /\ Machine!Gate <=> MP!Gate
<1>1. Machine!Awaited = MP!Awaited
  BY DEF Machine!Awaited, MP!Awaited
<1>2. Machine!Stalled <=> MP!Stalled
  BY DEF Machine!Stalled, MP!Stalled, Machine!Awaited, MP!Awaited
<1>3. Machine!Stalled' <=> MP!Stalled'
  BY DEF Machine!Stalled, MP!Stalled, Machine!Awaited, MP!Awaited
<1>4. Machine!I2C0_IRQHandler_Error <=> MP!I2C0_IRQHandler_Error
  BY DEF Machine!I2C0_IRQHandler_Error, MP!I2C0_IRQHandler_Error, Machine!gate, MP!gate
<1>5. UNCHANGED Machine!vars <=> UNCHANGED MP!vars
  BY DEF Machine!vars, MP!vars, Machine!machine, MP!machine, Machine!gate, MP!gate
<1>6. Machine!Gate <=> MP!Gate
  BY DEF Machine!Gate, MP!Gate
<1> QED BY <1>1, <1>2, <1>3, <1>4, <1>5, <1>6

(* The steps of the machine over the driver keep what TemperatureMachine's *)
(* keep: the driver is never called again while the transfer before is     *)
(* under way, a report follows this measurement's command and read, only a *)
(* failed transfer, a closed gate or a merged signal loses a wake-up, and  *)
(* a lost one is never made up for.                                        *)
THEOREM DriverMachineSteps ==
  Spec => /\ Machine!NoTransferOverrun /\ Machine!ReportIsFresh
          /\ Machine!StallHasCause /\ Machine!StallIsForever
<1>1. Spec => Machine!NoTransferOverrun
  <2> DEFINE i2c == IF UnderWay THEN sequence ELSE "none"
             A == i2c # "none" => i2c' \in {i2c, "none"}
  <2>1. [A]_(MP!vars) => [A]_(Machine!vars)
    BY SameStep
  <2>2. MP!Spec => [][A]_(MP!vars)
    BY MP!TransfersDoNotOverlap DEF MP!NoTransferOverrun
  <2> QED BY MachineRuns, <2>1, <2>2, PTL DEF Machine!NoTransferOverrun
<1>2. Spec => Machine!ReportIsFresh
  <2> DEFINE A == next_state = "STATE_I2C_READ_COMPLETE" /\ next_state' = "STATE_IDLE"
                    => measured = "measured"
  <2>1. [A]_(MP!vars) => [A]_(Machine!vars)
    BY SameStep
  <2>2. MP!Spec => [][A]_(MP!vars)
    BY MP!ReportsAreFresh DEF MP!ReportIsFresh
  <2> QED BY MachineRuns, <2>1, <2>2, PTL DEF Machine!ReportIsFresh
<1>3. Spec => Machine!StallHasCause
  <2> DEFINE A == ~Machine!Stalled /\ Machine!Stalled' =>
                    \/ Machine!I2C0_IRQHandler_Error
                    \/ signals' = {} /\ Machine!Awaited \in signals
                         /\ (~Machine!Gate \/ signals # {Machine!Awaited})
             B == ~MP!Stalled /\ MP!Stalled' =>
                    \/ MP!I2C0_IRQHandler_Error
                    \/ signals' = {} /\ MP!Awaited \in signals
                         /\ (~MP!Gate \/ signals # {MP!Awaited})
  <2>1. [B]_(MP!vars) => [A]_(Machine!vars)
    BY SameStep
  <2>2. MP!Spec => [][B]_(MP!vars)
    BY MP!StallsHaveCauses DEF MP!StallHasCause
  <2> QED BY MachineRuns, <2>1, <2>2, PTL DEF Machine!StallHasCause
<1>4. Spec => Machine!StallIsForever
  <2>1. [MP!Stalled => MP!Stalled']_(MP!vars) => [Machine!Stalled => Machine!Stalled']_(Machine!vars)
    BY SameStep
  <2>2. MP!Spec => [][MP!Stalled => MP!Stalled']_(MP!vars)
    BY MP!StallsAreForever DEF MP!StallIsForever
  <2> QED BY MachineRuns, <2>1, <2>2, PTL DEF Machine!StallIsForever
<1> QED BY <1>1, <1>2, <1>3, <1>4

(* And a measurement goes on over the driver: what it waits for is due, a  *)
(* transfer at its bytes included, and each delivery of it takes the       *)
(* measurement one state on.                                               *)
THEOREM DriverMeasures == Spec => []MP!WakeupIsDue /\ MP!MeasurementComesCloser
  BY MachineRuns, MP!MeasurementsComeCloser
=============================================================================
