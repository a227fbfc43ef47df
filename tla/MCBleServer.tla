--------------------------- MODULE MCBleServer ------------------------------
(* Instances of BleServer for TLC.                                         *)
EXTENDS BleServer

(* The user presses the button and the sensor is never read, or the client *)
(* only wants temperatures.                                                *)
ButtonInterrupts == {"evtPB0_pressed", "evtPB0_released"}
SensorInterrupts == {"evtLETIMER0_UF", "evtLETIMER0_COMP1", "evtI2C0_done"}
=============================================================================
