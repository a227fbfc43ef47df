----------------------------- MODULE BleClient ------------------------------
(***************************************************************************)
(* The client build (DEVICE_IS_BLE_SERVER 0): for every event of the stack *)
(* sl_bt_on_event calls handle_ble_event, which scans, connects and keeps  *)
(* the handles that are found, then discovery_state_machine, which issues  *)
(* the GATT commands one after the other.                                  *)
(*                                                                         *)
(* The stack and the server are external: a scanner, a link, the GATT      *)
(* procedure under way, the subscription, an indication that waits for its *)
(* confirmation, and the events not yet delivered.                         *)
(***************************************************************************)
EXTENDS Naturals, Sequences

CONSTANTS MaxInbox, None

ASSUME ClientAssumption == MaxInbox \in Nat \ {0}

VARIABLES
  next_state,              \* static next_state of discovery_state_machine
  connection_open, service_handle, characteristic_handle,  \* ble_data
  display,                 \* connection and temperature rows
  scanning, link,          \* the stack
  procedure,               \* GATT procedure under way, and what it found
  failed,                  \* a procedure of this connection failed
  att_dead,                \* no GATT transactions any more on this connection
  subscribed, indicated,   \* at the server
  inbox

ble_data == <<connection_open, service_handle, characteristic_handle>>
client == <<next_state, ble_data, display>>
gatt == <<procedure, failed, att_dead, subscribed, indicated>>
stack == <<scanning, link, gatt>>
vars == <<client, stack, inbox>>

States == {"STATE_CLOSE", "STATE_OPEN", "STATE_DISCOVER_CHARACTERISTICS",
           "STATE_SET_NOTIFICATION", "STATE_WAIT"}

Events == {"system_boot", "server_report", "other_report", "connection_opened",
           "connection_closed", "gatt_service", "gatt_characteristic",
           "gatt_procedure_completed", "gatt_characteristic_value"}

Pending(e) == \E i \in DOMAIN inbox : inbox[i] = e

Handling(e) == inbox # << >> /\ Head(inbox) = e /\ inbox' = Tail(inbox)

Init ==
  /\ next_state = "STATE_CLOSE"
  /\ connection_open = FALSE /\ service_handle = None /\ characteristic_handle = None
  /\ display = [connection |-> "", temperature |-> FALSE]
  /\ scanning = FALSE /\ link = "standby"
  /\ procedure = "none" /\ failed = FALSE /\ att_dead = FALSE
  /\ subscribed = FALSE /\ indicated = FALSE
  /\ inbox = <<"system_boot">>

-----------------------------------------------------------------------------
(* A GATT command.  The stack refuses it without a link that carries GATT  *)
(* transactions and while a procedure is under way; a handle that was      *)
(* never found may be refused, or asked for in vain.                       *)
gatt_command(kind, handle) ==
  /\ procedure' \in IF link # "connected" \/ att_dead \/ procedure # "none" THEN {procedure}
                    ELSE IF handle = None THEN {kind, procedure}
                    ELSE {kind}
  /\ UNCHANGED <<failed, att_dead, subscribed, indicated>>

-----------------------------------------------------------------------------
(* discovery_state_machine.  The status of a command is logged, the result *)
(* of a procedure is not looked at.                                        *)

DiscoverService(e) ==
  /\ next_state = "STATE_CLOSE" /\ e = "connection_opened"
  /\ gatt_command("services", "connection")
  /\ next_state' = "STATE_OPEN"

(* Mutant: the next command does not wait for the end of the procedure. *)
DiscoverCharacteristics_AtOnce(e) ==
  /\ next_state = "STATE_OPEN" /\ e \in {"gatt_service", "gatt_procedure_completed"}
  /\ gatt_command("characteristics", service_handle)
  /\ next_state' = "STATE_DISCOVER_CHARACTERISTICS"

DiscoverCharacteristics(e) ==
  /\ next_state = "STATE_OPEN" /\ e = "gatt_procedure_completed"
  /\ gatt_command("characteristics", service_handle)
  /\ next_state' = "STATE_DISCOVER_CHARACTERISTICS"

(* Mutants: the command is forgotten; the state is not advanced. *)
SetNotification_Forgotten(e) ==
  /\ next_state = "STATE_DISCOVER_CHARACTERISTICS" /\ e = "gatt_procedure_completed"
  /\ UNCHANGED gatt
  /\ next_state' = "STATE_WAIT"

SetNotification_StateKept(e) ==
  /\ next_state = "STATE_DISCOVER_CHARACTERISTICS" /\ e = "gatt_procedure_completed"
  /\ gatt_command("notification", characteristic_handle)
  /\ UNCHANGED next_state

SetNotification(e) ==
  /\ next_state = "STATE_DISCOVER_CHARACTERISTICS" /\ e = "gatt_procedure_completed"
  /\ gatt_command("notification", characteristic_handle)
  /\ next_state' = "STATE_SET_NOTIFICATION"

NotificationSet(e) ==
  /\ next_state = "STATE_SET_NOTIFICATION" /\ e = "gatt_procedure_completed"
  /\ next_state' = "STATE_WAIT"
  /\ UNCHANGED gatt

(* Only STATE_WAIT looks at the end of the connection.  Mutant: every      *)
(* state does.                                                             *)
ConnectionLost_AnyState(e) ==
  /\ e = "connection_closed"
  /\ next_state' = "STATE_CLOSE"
  /\ UNCHANGED gatt

ConnectionLost(e) ==
  /\ next_state = "STATE_WAIT" /\ e = "connection_closed"
  /\ next_state' = "STATE_CLOSE"
  /\ UNCHANGED gatt

Awaited ==
  CASE next_state = "STATE_CLOSE" -> "connection_opened"
    [] next_state = "STATE_WAIT" -> "connection_closed"
    [] OTHER -> "gatt_procedure_completed"

(* Mutant: the event a state awaits may be dropped. *)
Ignored_Anything(e) == UNCHANGED <<next_state, gatt>>

Ignored(e) == e # Awaited /\ UNCHANGED <<next_state, gatt>>

discovery_state_machine(e) ==
  \/ DiscoverService(e)
  \/ DiscoverCharacteristics(e)
  \/ SetNotification(e)
  \/ NotificationSet(e)
  \/ ConnectionLost(e)
  \/ Ignored(e)

-----------------------------------------------------------------------------
(* handle_ble_event, and the machine on the same event.                    *)

scanner_start == scanning' = TRUE

Boot ==
  /\ Handling("system_boot")
  /\ scanner_start
  /\ connection_open' = FALSE
  /\ display' = [display EXCEPT !.connection = "Discovering"]
  /\ discovery_state_machine("system_boot")
  /\ UNCHANGED <<service_handle, characteristic_handle, link>>

(* The server's connectable advertisement; connection_open fails unless    *)
(* the stack is idle.                                                      *)
ServerReport ==
  /\ Handling("server_report")
  /\ scanning' = FALSE
  /\ link' = IF link = "standby" THEN "initiating" ELSE link
  /\ discovery_state_machine("server_report")
  /\ UNCHANGED <<ble_data, display>>

OtherReport ==
  /\ Handling("other_report")
  /\ discovery_state_machine("other_report")
  /\ UNCHANGED <<ble_data, display, scanning, link>>

ConnectionOpened ==
  /\ Handling("connection_opened")
  /\ connection_open' = TRUE
  /\ display' = [display EXCEPT !.connection = "Connected"]
  /\ discovery_state_machine("connection_opened")
  /\ UNCHANGED <<service_handle, characteristic_handle, scanning, link>>

(* Mutants: scanning is not resumed; the temperature stays on the display. *)
ConnectionClosed_NoScan ==
  /\ Handling("connection_closed")
  /\ connection_open' = FALSE
  /\ display' = [connection |-> "Discovering", temperature |-> FALSE]
  /\ discovery_state_machine("connection_closed")
  /\ UNCHANGED <<service_handle, characteristic_handle, scanning, link>>

ConnectionClosed_KeepsTemperature ==
  /\ Handling("connection_closed")
  /\ connection_open' = FALSE
  /\ display' = [display EXCEPT !.connection = "Discovering"]
  /\ scanner_start
  /\ discovery_state_machine("connection_closed")
  /\ UNCHANGED <<service_handle, characteristic_handle, link>>

ConnectionClosed ==
  /\ Handling("connection_closed")
  /\ connection_open' = FALSE
  /\ display' = [connection |-> "Discovering", temperature |-> FALSE]
  /\ scanner_start
  /\ discovery_state_machine("connection_closed")
  /\ UNCHANGED <<service_handle, characteristic_handle, link>>

ServiceFound ==
  /\ Handling("gatt_service")
  /\ service_handle' = "service"
  /\ discovery_state_machine("gatt_service")
  /\ UNCHANGED <<connection_open, characteristic_handle, display, scanning, link>>

(* Mutant: the wrong handle is kept. *)
CharacteristicFound_KeepsService ==
  /\ Handling("gatt_characteristic")
  /\ characteristic_handle' = "service"
  /\ discovery_state_machine("gatt_characteristic")
  /\ UNCHANGED <<connection_open, service_handle, display, scanning, link>>

CharacteristicFound ==
  /\ Handling("gatt_characteristic")
  /\ characteristic_handle' = "characteristic"
  /\ discovery_state_machine("gatt_characteristic")
  /\ UNCHANGED <<connection_open, service_handle, display, scanning, link>>

ProcedureCompleted ==
  /\ Handling("gatt_procedure_completed")
  /\ discovery_state_machine("gatt_procedure_completed")
  /\ UNCHANGED <<ble_data, display, scanning, link>>

(* An indication of the characteristic that was found is confirmed and     *)
(* shown; the machine ignores the event.                                   *)
(* Mutant: the handle is compared with the service's. *)
CharacteristicValue_WrongHandle ==
  /\ Handling("gatt_characteristic_value")
  /\ indicated' = (indicated /\ ~(service_handle = "characteristic" /\ link = "connected"))
  /\ display' = [connection |-> "Handling Indications",
                 temperature |-> display.temperature \/ service_handle = "characteristic"]
  /\ UNCHANGED <<next_state, ble_data, scanning, link, procedure, failed, att_dead, subscribed>>

CharacteristicValue ==
  /\ Handling("gatt_characteristic_value")
  /\ indicated' = (indicated /\ ~(characteristic_handle = "characteristic" /\ link = "connected"))
  /\ display' = [connection |-> "Handling Indications",
                 temperature |-> display.temperature \/ characteristic_handle = "characteristic"]
  /\ UNCHANGED <<next_state, ble_data, scanning, link, procedure, failed, att_dead, subscribed>>

sl_bt_on_event ==
  \/ Boot \/ ServerReport \/ OtherReport
  \/ ConnectionOpened \/ ConnectionClosed
  \/ ServiceFound \/ CharacteristicFound \/ ProcedureCompleted
  \/ CharacteristicValue

-----------------------------------------------------------------------------
(* The stack and the server.                                               *)

Post(events) == Len(inbox) + Len(events) <= MaxInbox /\ inbox' = inbox \o events

(* The server advertises while it is not connected.                        *)
Report ==
  /\ scanning
  /\ \/ link # "connected" /\ Post(<<"server_report">>)
     \/ Post(<<"other_report">>)
  /\ UNCHANGED <<client, stack>>

Connect ==
  /\ link = "initiating"
  /\ link' = "connected"
  /\ Post(<<"connection_opened">>)
  /\ UNCHANGED <<client, scanning, gatt>>

(* Whether the stack also reports the end of the procedure under way is    *)
(* not documented: it may or may not.                                      *)
Disconnect ==
  /\ link = "connected"
  /\ link' = "standby"
  /\ procedure' = "none" /\ failed' = FALSE /\ att_dead' = FALSE
  /\ subscribed' = FALSE /\ indicated' = FALSE
  /\ \/ Post(<<"connection_closed">>)
     \/ procedure # "none" /\ Post(<<"gatt_procedure_completed", "connection_closed">>)
  /\ UNCHANGED <<client, scanning>>

Found(kind, result, e) ==
  /\ procedure = kind
  /\ procedure' = result
  /\ Post(<<e>>)
  /\ UNCHANGED <<client, scanning, link, failed, att_dead, subscribed, indicated>>

Succeed ==
  /\ \/ procedure \in {"service found", "characteristic found"}
     \/ procedure = "notification" /\ characteristic_handle # None
  /\ procedure' = "none"
  /\ subscribed' = (subscribed \/ procedure = "notification")
  /\ Post(<<"gatt_procedure_completed">>)
  /\ UNCHANGED <<client, scanning, link, failed, att_dead, indicated>>

(* An error of the server, nothing found, or a timeout, after which the    *)
(* connection carries no more GATT transactions.                           *)
Fail ==
  /\ procedure # "none"
  /\ procedure' = "none"
  /\ failed' = TRUE
  /\ att_dead' \in {att_dead, TRUE}
  /\ Post(<<"gatt_procedure_completed">>)
  /\ UNCHANGED <<client, scanning, link, subscribed, indicated>>

Indicate ==
  /\ link = "connected" /\ subscribed /\ ~indicated
  /\ indicated' = TRUE
  /\ Post(<<"gatt_characteristic_value">>)
  /\ UNCHANGED <<client, scanning, link, procedure, failed, att_dead, subscribed>>

Procedure ==
  \/ Found("services", "service found", "gatt_service")
  \/ service_handle # None
       /\ Found("characteristics", "characteristic found", "gatt_characteristic")
  \/ Succeed \/ Fail

Next == sl_bt_on_event \/ Report \/ Connect \/ Disconnect \/ Procedure \/ Indicate

Spec == Init /\ [][Next]_vars

(* The main loop delivers what is pending; a procedure ends, with a result *)
(* or its timeout.  The latter is strong because the bound on the inbox    *)
(* disables it while the server keeps sending.                             *)
FairSpec == Spec /\ WF_vars(sl_bt_on_event) /\ SF_vars(Procedure)

-----------------------------------------------------------------------------
(* Type invariant. *)
TypeOK ==
  /\ next_state \in States
  /\ connection_open \in BOOLEAN
  /\ service_handle \in {None, "service"}
  /\ characteristic_handle \in {None, "characteristic"}
  /\ display \in [connection : {"", "Discovering", "Connected", "Handling Indications"},
                  temperature : BOOLEAN]
  /\ scanning \in BOOLEAN
  /\ link \in {"standby", "initiating", "connected"}
  /\ procedure \in {"none", "services", "service found", "characteristics",
                    "characteristic found", "notification"}
  /\ failed \in BOOLEAN /\ att_dead \in BOOLEAN
  /\ subscribed \in BOOLEAN /\ indicated \in BOOLEAN
  /\ inbox \in Seq(Events) /\ Len(inbox) <= MaxInbox

Discovering == next_state \in {"STATE_OPEN", "STATE_DISCOVER_CHARACTERISTICS",
                               "STATE_SET_NOTIFICATION"}

(* The machine waits for the end of a procedure that does not run. *)
Stalled ==
  Discovering /\ procedure = "none" /\ ~Pending("gatt_procedure_completed")

(* A client without a link and without a connection attempt is scanning,   *)
(* or has the event waiting that makes it scan or connect: advertisements  *)
(* delivered late, after the scanner was stopped or the connection came    *)
(* and went, never leave it deaf.                                          *)
AlwaysSearching ==
  link = "standby" =>
    \/ scanning
    \/ \E e \in {"system_boot", "connection_closed", "server_report"} : Pending(e)

(* The display calls a connection open exactly while connection_open does, *)
(* which follows the link up to the events not yet handled, and shows no   *)
(* temperature of a connection that ended.                                 *)
DisplayMatchesLink ==
  /\ connection_open <=> display.connection \in {"Connected", "Handling Indications"}
  /\ display.temperature => connection_open
  /\ \/ Pending("connection_opened") \/ Pending("connection_closed")
     \/ connection_open = (link = "connected")

(* A GATT command is only issued when no procedure is under way and the    *)
(* end of the last one has been delivered.                                 *)
OneProcedureAtATime ==
  [][next_state' # next_state /\ Discovering'
       => procedure = "none" /\ ~Pending("gatt_procedure_completed")']_vars

(* A connection whose discovery is over is subscribed, or a procedure of   *)
(* it failed: the machine does not see the difference.                     *)
WaitMeansSubscribed ==
  next_state = "STATE_WAIT" /\ link = "connected" /\ ~Pending("connection_closed")
    => subscribed \/ failed

(* The only ways to lose the end of a procedure: the link goes down during *)
(* the discovery, or a command is refused.                                 *)
StallHasCause ==
  [][~Stalled /\ Stalled' =>
       \/ link = "connected" /\ link' = "standby"
       \/ next_state' # next_state /\ procedure' = "none"]_vars

(* A client that stalled never subscribes again: its machine ignores every *)
(* later connection.                                                       *)
StallIsForever == [][Stalled => Stalled' /\ (subscribed' => subscribed)]_vars

(* A connection that lasts, with a machine that does not stall, is brought *)
(* to the end of its discovery.                                            *)
DiscoveryCompletes ==
  <>[](link = "connected" /\ ~Stalled) => <>[](next_state = "STATE_WAIT")

(* Every indication is confirmed while the connection lasts: the server,   *)
(* which sends nothing else before that, is never left waiting.            *)
IndicationsAreConfirmed == indicated ~> ~indicated
=============================================================================
