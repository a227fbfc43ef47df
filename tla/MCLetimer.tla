----------------------------- MODULE MCLetimer ------------------------------
(* A timer of a few ticks: with a clock of 1 kHz a tick is a millisecond.  *)
EXTENDS Letimer

\* below the range, within it with and without a wrap, the whole period, beyond it
MCWaits == {900, 3000, 4500, 9000, 11000}

\* the two waits of temperature_state_machine
SensorWaits == {80000, 10800}
=============================================================================
