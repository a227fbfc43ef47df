------------------------- MODULE MCIndicationQueue --------------------------
(* Instances of IndicationQueue for TLC.                                   *)
EXTENDS IndicationQueue

(* The two values the server sends, and data whose length is out of range. *)
MCData == {[charHandle |-> "temperature_measurement", bufferLength |-> 5],
           [charHandle |-> "button_state", bufferLength |-> 2],
           [charHandle |-> "button_state", bufferLength |-> 0],
           [charHandle |-> "temperature_measurement", bufferLength |-> 6]}
=============================================================================
