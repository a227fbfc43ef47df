---------------------------- MODULE MCBleClient -----------------------------
(* The client with up to MaxInbox events not yet delivered: two let one    *)
(* event overtake a change of the stack, three let a connection come and   *)
(* go behind an advertisement not yet handled.                             *)
EXTENDS BleClient
=============================================================================
