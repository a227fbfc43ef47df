--------------------------- MODULE MCPowerManager ---------------------------
(* Instance of PowerManager for TLC.                                       *)
EXTENDS PowerManager

(* -1.0, -0.0 and 25.3 degrees; the two bytes of each differ.              *)
SomeCodes == {<<66, 204>>, <<68, 64>>, <<105, 27>>}
=============================================================================
