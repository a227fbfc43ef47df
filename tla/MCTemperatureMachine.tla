------------------------ MODULE MCTemperatureMachine ------------------------
(* TemperatureMachine is finite as it stands: nothing to bound for TLC.    *)
EXTENDS TemperatureMachine
=============================================================================
