----------------------------- MODULE BleServer ------------------------------
(***************************************************************************)
(* The server: handle_ble_event and temperature_state_machine, called one  *)
(* after the other by sl_bt_on_event for every event of the Bluetooth      *)
(* stack, with the queue of indications they share and the interrupt       *)
(* handlers of TemperatureMachine.                                         *)
(*                                                                         *)
(* The stack and the client at its other end are external: they are        *)
(* modelled from what the handlers rely on, as a link, the client's two    *)
(* subscriptions, one outstanding indication, a pairing, and the events    *)
(* not yet delivered (inbox).  External signals reach the thread past the  *)
(* inbox, in a bitmask.                                                    *)
(***************************************************************************)
EXTENDS Integers, Sequences

CONSTANTS
  QUEUE_DEPTH,   \* entries in the indication queue
  Temperatures,  \* the temperatures the sensor may measure
  MaxInbox,      \* bound on the events the stack has not delivered yet
  Interrupts,    \* bound on the environment: the signals interrupts may raise,
  ClientPairs,   \* and whether the client ever asks to pair
  Blank, None

ASSUME ServerAssumption ==
  /\ QUEUE_DEPTH \in Nat \ {0}
  /\ MaxInbox \in Nat \ {0}
  /\ ClientPairs \in BOOLEAN

VARIABLES
  \* temperature_state_machine, its gate and the interrupts, as TemperatureMachine has them
  next_state, connection_open, ok_to_send_htm_indications, signals, comp1,
  i2c, i2c_irq, si7021, em1, read_data,
  \* the other fields of ble_data
  ok_to_send_button_indications, indication_in_flight, bonded, queue,
  \* LEDs, and the rows of the display the properties are about
  led0, led1, display,
  \* processor stopped in the fault handler
  halted,
  \* the Bluetooth stack and the client
  link, cccd, outstanding, att_dead, pairing, inbox

TM == INSTANCE TemperatureMachine

machine == <<next_state, signals, comp1, i2c, i2c_irq, si7021, em1, read_data>>
gate == <<connection_open, ok_to_send_htm_indications>>
ble_flags == <<ok_to_send_button_indications, indication_in_flight, bonded, queue>>
outputs == <<led0, led1, display>>
stack == <<link, cccd, outstanding, att_dead, pairing>>
vars == <<machine, gate, ble_flags, outputs, halted, stack, inbox>>

-----------------------------------------------------------------------------
(* Indications and their queue.                                            *)

htm == "temperature_measurement"
button == "button_state"
Characteristics == {htm, button}

TemperatureIndication(t) == [charHandle |-> htm, bufferLength |-> 5, buffer |-> t]
ButtonIndication(state) == [charHandle |-> button, bufferLength |-> 2, buffer |-> state]
Indications == {TemperatureIndication(t) : t \in Temperatures}
                 \cup {ButtonIndication(s) : s \in {0, 1}}

ASSUME IndicationAssumption == {Blank, None} \cap Indications = {}

Q == INSTANCE IndicationRing
       WITH MAX_BUFFER_LENGTH <- 5, MIN_BUFFER_LENGTH <- 1, Data <- Indications

-----------------------------------------------------------------------------
(* Events of the stack.                                                    *)

Event(id) == [id |-> id]
ClientConfig(c, enabled) ==
  [id |-> "characteristic_status", characteristic |-> c, enabled |-> enabled]
Confirmation(c) == [id |-> "confirmation", characteristic |-> c]

SimpleEvents == {Event(id) : id \in {"system_boot", "connection_opened", "connection_closed",
                   "sm_confirm_bonding", "sm_confirm_passkey", "sm_bonding_failed", "sm_bonded",
                   "indication_timeout"}}
Events == SimpleEvents
            \cup {ClientConfig(c, e) : c \in Characteristics, e \in BOOLEAN}
            \cup {Confirmation(c) : c \in Characteristics}

Pending(e) == \E i \in DOMAIN inbox : inbox[i] = e

(* The handlers run for the first event of the inbox. *)
Handling(e) == ~halted /\ inbox # << >> /\ Head(inbox) = e /\ inbox' = Tail(inbox)

-----------------------------------------------------------------------------
(* The stack functions the handlers call.                                  *)

(* sl_bt_gatt_server_send_indication fails without a link that still       *)
(* carries GATT transactions, a subscription, the bond the characteristic  *)
(* asks for, or while an earlier indication is not confirmed.              *)
Refused(indication) ==
  \/ link # "connected" \/ att_dead
  \/ ~cccd[indication.charHandle]
  \/ indication.charHandle = button /\ pairing # "bonded"
  \/ outstanding # None

send_indication(indication) ==
  outstanding' = IF Refused(indication) THEN outstanding ELSE indication

(* Mutant: the flag is set although the stack refused the indication. *)
SendOrQueue_FlagWithoutSend(indication) ==
  \/ /\ indication_in_flight
     /\ queue' = Q!write_queue(queue, indication)
     /\ UNCHANGED <<indication_in_flight, outstanding>>
  \/ /\ ~indication_in_flight
     /\ send_indication(indication)
     /\ indication_in_flight' = TRUE
     /\ UNCHANGED queue

SendOrQueue(indication) ==
  \/ /\ indication_in_flight
     /\ queue' = Q!write_queue(queue, indication)
     /\ UNCHANGED <<indication_in_flight, outstanding>>
  \/ /\ ~indication_in_flight
     /\ send_indication(indication)
     /\ indication_in_flight' = ~Refused(indication)
     /\ UNCHANGED queue

ble_send_temp_value(t) ==
  /\ SendOrQueue(TemperatureIndication(t))
  /\ display' = IF indication_in_flight THEN display
                ELSE [display EXCEPT !.temperature = TRUE]

(* Called with bonded true. *)
ble_send_button_state(state) ==
  IF connection_open /\ ok_to_send_button_indications
  THEN SendOrQueue(ButtonIndication(state))
  ELSE UNCHANGED <<indication_in_flight, queue, outstanding>>

(* sl_bt_legacy_advertiser_start, and the mutant that leaves it out. *)
legacy_advertiser_start_Missing == UNCHANGED link
legacy_advertiser_start == link' = "advertising"

-----------------------------------------------------------------------------
Init ==
  /\ TM!Init
  /\ ok_to_send_button_indications = FALSE
  /\ indication_in_flight = FALSE
  /\ bonded = FALSE
  /\ queue = Q!InitRing
  /\ led0 = FALSE /\ led1 = FALSE
  /\ display = [connection |-> "", prompt |-> FALSE, temperature |-> FALSE]
  /\ halted = FALSE
  /\ link = "standby"
  /\ cccd = [c \in Characteristics |-> FALSE]
  /\ outstanding = None
  /\ att_dead = FALSE
  /\ pairing = "none"
  /\ inbox = <<Event("system_boot")>>

-----------------------------------------------------------------------------
(* handle_ble_event.  temperature_state_machine ignores these events.      *)

Boot ==
  /\ Handling(Event("system_boot"))
  /\ connection_open' = FALSE
  /\ indication_in_flight' = FALSE
  /\ ok_to_send_htm_indications' = FALSE
  /\ bonded' = FALSE
  /\ ok_to_send_button_indications' = FALSE
  /\ queue' = Q!BootRing(queue)
  /\ display' = [display EXCEPT !.connection = "Advertising"]
  /\ legacy_advertiser_start
  /\ UNCHANGED <<machine, led0, led1, halted, cccd, outstanding, att_dead, pairing>>

ConnectionOpened ==
  /\ Handling(Event("connection_opened"))
  /\ connection_open' = TRUE
  /\ display' = [display EXCEPT !.connection = "Connected"]
  /\ UNCHANGED <<machine, ok_to_send_htm_indications, ble_flags, led0, led1, halted, stack>>

(* Mutant: the subscription to the temperature survives the connection. *)
ConnectionClosed_KeepsSubscription ==
  /\ Handling(Event("connection_closed"))
  /\ led0' = FALSE /\ led1' = FALSE
  /\ connection_open' = FALSE
  /\ indication_in_flight' = FALSE
  /\ bonded' = FALSE
  /\ ok_to_send_button_indications' = FALSE
  /\ display' = [connection |-> "Advertising", prompt |-> FALSE, temperature |-> FALSE]
  /\ legacy_advertiser_start
  /\ UNCHANGED <<machine, ok_to_send_htm_indications, queue, halted, cccd, outstanding,
                 att_dead, pairing>>

(* The queue is left as it is: what the last client did not confirm stays. *)
ConnectionClosed ==
  /\ Handling(Event("connection_closed"))
  /\ led0' = FALSE /\ led1' = FALSE
  /\ connection_open' = FALSE
  /\ indication_in_flight' = FALSE
  /\ ok_to_send_htm_indications' = FALSE
  /\ bonded' = FALSE
  /\ ok_to_send_button_indications' = FALSE
  /\ display' = [connection |-> "Advertising", prompt |-> FALSE, temperature |-> FALSE]
  /\ legacy_advertiser_start
  /\ UNCHANGED <<machine, queue, halted, cccd, outstanding, att_dead, pairing>>

ConfirmBonding ==
  /\ Handling(Event("sm_confirm_bonding"))
  /\ pairing' = IF pairing = "requested" THEN "confirmed" ELSE pairing
  /\ UNCHANGED <<machine, gate, ble_flags, outputs, halted, link, cccd, outstanding, att_dead>>

ConfirmPasskey ==
  /\ Handling(Event("sm_confirm_passkey"))
  /\ display' = [display EXCEPT !.prompt = TRUE]
  /\ UNCHANGED <<machine, gate, ble_flags, led0, led1, halted, stack>>

(* Mutant: the connection is not closed. *)
BondingFailed_StaysConnected ==
  /\ Handling(Event("sm_bonding_failed"))
  /\ UNCHANGED <<machine, gate, ble_flags, outputs, halted, stack>>

BondingFailed ==
  /\ Handling(Event("sm_bonding_failed"))
  /\ link' = IF link = "connected" THEN "closing" ELSE link
  /\ UNCHANGED <<machine, gate, ble_flags, outputs, halted, cccd, outstanding, att_dead, pairing>>

(* Mutant: the request to confirm is not removed. *)
Bonded_KeepsPrompt ==
  /\ Handling(Event("sm_bonded"))
  /\ bonded' = TRUE
  /\ display' = [display EXCEPT !.connection = "Bonded"]
  /\ UNCHANGED <<machine, gate, ok_to_send_button_indications, indication_in_flight, queue,
                 led0, led1, halted, stack>>

Bonded ==
  /\ Handling(Event("sm_bonded"))
  /\ bonded' = TRUE
  /\ display' = [display EXCEPT !.connection = "Bonded", !.prompt = FALSE]
  /\ UNCHANGED <<machine, gate, ok_to_send_button_indications, indication_in_flight, queue,
                 led0, led1, halted, stack>>

TemperatureConfig(enabled) ==
  /\ Handling(ClientConfig(htm, enabled))
  /\ ok_to_send_htm_indications' = enabled
  /\ led0' = enabled
  /\ display' = [display EXCEPT !.temperature = @ /\ enabled]
  /\ UNCHANGED <<machine, connection_open, ble_flags, led1, halted, stack>>

(* Mutant: the LED is only ever switched on. *)
ButtonConfig_LedStaysOn(enabled) ==
  /\ Handling(ClientConfig(button, enabled))
  /\ ok_to_send_button_indications' = enabled
  /\ led1' = (led1 \/ enabled)
  /\ UNCHANGED <<machine, gate, indication_in_flight, bonded, queue, led0, display, halted, stack>>

ButtonConfig(enabled) ==
  /\ Handling(ClientConfig(button, enabled))
  /\ ok_to_send_button_indications' = enabled
  /\ led1' = enabled
  /\ UNCHANGED <<machine, gate, indication_in_flight, bonded, queue, led0, display, halted, stack>>

(* The next indication is taken from the queue, if the client subscribed   *)
(* to the button, and sent.  With an empty queue read_queue returns NULL   *)
(* and the handler reads charHandle through it: either what the build      *)
(* finds at address 0 matches no characteristic, or the access faults.     *)
Confirmed(c) ==
  /\ Handling(Confirmation(c))
  /\ indication_in_flight' = FALSE
  /\ UNCHANGED <<machine, gate, ok_to_send_button_indications, bonded, outputs,
                 link, cccd, att_dead, pairing>>
  /\ \/ /\ ~ok_to_send_button_indications
        /\ UNCHANGED <<queue, outstanding, halted>>
     \/ /\ ok_to_send_button_indications /\ ~Q!IsEmpty(queue)
        /\ queue' = Q!read_queue(queue)
        /\ send_indication(queue.indication_buffer[queue.rptr])
        /\ UNCHANGED halted
     \/ /\ ok_to_send_button_indications /\ Q!IsEmpty(queue)
        /\ halted' \in BOOLEAN
        /\ UNCHANGED <<queue, outstanding>>

(* Mutant: only the subscription to the button is cleared. *)
IndicationTimeout_KeepsTemperature ==
  /\ Handling(Event("indication_timeout"))
  /\ ok_to_send_button_indications' = FALSE
  /\ UNCHANGED <<machine, gate, indication_in_flight, bonded, queue, outputs, halted, stack>>

IndicationTimeout ==
  /\ Handling(Event("indication_timeout"))
  /\ ok_to_send_htm_indications' = FALSE
  /\ ok_to_send_button_indications' = FALSE
  /\ UNCHANGED <<machine, connection_open, indication_in_flight, bonded, queue,
                 outputs, halted, stack>>

-----------------------------------------------------------------------------
(* External signals: handle_ble_event looks at the button's, then the      *)
(* temperature machine runs.  Both compare the bitmask with ==.            *)

Delivering == ~halted /\ signals # {} /\ signals' = {}

ButtonPressed ==
  /\ Delivering /\ signals = {"evtPB0_pressed"}
  /\ IF bonded
     THEN ble_send_button_state(1) /\ UNCHANGED pairing
     ELSE /\ pairing' = IF link = "connected" /\ pairing = "passkey" THEN "accepted" ELSE pairing
          /\ UNCHANGED <<indication_in_flight, queue, outstanding>>
  /\ TM!temperature_state_machine(signals)
  /\ UNCHANGED <<gate, ok_to_send_button_indications, bonded, outputs, halted,
                 link, cccd, att_dead, inbox>>

ButtonReleased ==
  /\ Delivering /\ signals = {"evtPB0_released"}
  /\ IF bonded THEN ble_send_button_state(0)
     ELSE UNCHANGED <<indication_in_flight, queue, outstanding>>
  /\ TM!temperature_state_machine(signals)
  /\ UNCHANGED <<gate, ok_to_send_button_indications, bonded, outputs, halted,
                 link, cccd, att_dead, pairing, inbox>>

MachineSignal ==
  /\ Delivering
  /\ signals \notin {{"evtPB0_pressed"}, {"evtPB0_released"}}
  /\ \/ /\ \/ TM!StartMeasurement(signals)
           \/ TM!SendCommand(signals)
           \/ TM!CommandSent(signals)
           \/ TM!ReadResponse(signals)
           \/ TM!Ignored(signals)
        /\ UNCHANGED <<indication_in_flight, queue, outstanding, display>>
     \/ TM!ReportTemperature(signals) /\ \E t \in Temperatures : ble_send_temp_value(t)
  /\ UNCHANGED <<gate, ok_to_send_button_indications, bonded, led0, led1, halted,
                 link, cccd, att_dead, pairing, inbox>>

InboxEvent ==
  \/ Boot \/ ConnectionOpened \/ ConnectionClosed
  \/ ConfirmBonding \/ ConfirmPasskey \/ BondingFailed \/ Bonded
  \/ \E enabled \in BOOLEAN : TemperatureConfig(enabled) \/ ButtonConfig(enabled)
  \/ \E c \in Characteristics : Confirmed(c)
  \/ IndicationTimeout

ExternalSignal == ButtonPressed \/ ButtonReleased \/ MachineSignal

sl_bt_on_event == InboxEvent \/ ExternalSignal

(* The interrupt handlers only raise signals. *)
Interrupt ==
  /\ ~halted
  /\ \/ \E flags \in TM!LETIMER0_Flags : flags \subseteq Interrupts /\ TM!LETIMER0_IRQHandler(flags)
     \/ "evtI2C0_done" \in Interrupts /\ (TM!I2C0_IRQHandler_Done \/ TM!I2C0_IRQHandler_Error)
     \/ \E signal \in TM!ButtonSignals \cap Interrupts : TM!GPIO_EVEN_IRQHandler(signal)
  /\ UNCHANGED <<ble_flags, outputs, halted, stack, inbox>>

-----------------------------------------------------------------------------
(* The stack and the client.                                               *)

application == <<machine, gate, ble_flags, outputs, halted>>

Post(e) == Len(inbox) < MaxInbox /\ inbox' = Append(inbox, e)

Connect ==
  /\ link = "advertising"
  /\ link' = "connected"
  /\ Post(Event("connection_opened"))
  /\ UNCHANGED <<application, cccd, outstanding, att_dead, pairing>>

(* The client leaves, the link is lost or the application closed it.       *)
Disconnect ==
  /\ link \in {"connected", "closing"}
  /\ link' = "standby"
  /\ cccd' = [c \in Characteristics |-> FALSE]
  /\ outstanding' = None
  /\ att_dead' = FALSE
  /\ pairing' = "none"
  /\ Post(Event("connection_closed"))
  /\ UNCHANGED application

Subscribe(c, enabled) ==
  /\ link = "connected" /\ ~att_dead /\ cccd[c] # enabled
  /\ cccd' = [cccd EXCEPT ![c] = enabled]
  /\ Post(ClientConfig(c, enabled))
  /\ UNCHANGED <<application, link, outstanding, att_dead, pairing>>

Confirm ==
  /\ link = "connected" /\ outstanding # None
  /\ outstanding' = None
  /\ Post(Confirmation(outstanding.charHandle))
  /\ UNCHANGED <<application, link, cccd, att_dead, pairing>>

(* No confirmation within 30 s: the stack allows no further transactions.  *)
Timeout ==
  /\ link \in {"connected", "closing"} /\ outstanding # None
  /\ outstanding' = None
  /\ att_dead' = TRUE
  /\ Post(Event("indication_timeout"))
  /\ UNCHANGED <<application, link, cccd, pairing>>

PairingStep(from, to, e) ==
  /\ link = "connected" /\ pairing = from
  /\ pairing' = to
  /\ Post(Event(e))
  /\ UNCHANGED <<application, link, cccd, outstanding, att_dead>>

Pairing ==
  \/ ClientPairs /\ PairingStep("none", "requested", "sm_confirm_bonding")
  \/ PairingStep("confirmed", "passkey", "sm_confirm_passkey")
  \/ PairingStep("accepted", "bonded", "sm_bonded")
  \/ \E from \in {"requested", "confirmed", "passkey", "accepted"} :
       PairingStep(from, "failed", "sm_bonding_failed")

Stack ==
  \/ Connect \/ Disconnect
  \/ \E c \in Characteristics, enabled \in BOOLEAN : Subscribe(c, enabled)
  \/ Confirm \/ Timeout
  \/ Pairing

(* A processor stopped by a fault stays stopped. *)
Halted == halted /\ UNCHANGED vars

Next == sl_bt_on_event \/ Interrupt \/ Stack \/ Halted

Spec == Init /\ [][Next]_vars

(* The main loop always delivers what is pending, and a connection the     *)
(* application closed is closed.  The latter is strong because the bound   *)
(* on the inbox, which is none of the stack's, disables it again and again *)
(* while a client keeps writing its configuration.                         *)
FairSpec ==
  /\ Spec
  /\ WF_vars(InboxEvent)
  /\ WF_vars(ExternalSignal)
  /\ SF_vars(link = "closing" /\ Disconnect)

-----------------------------------------------------------------------------
(* Type invariant. *)
TypeOK ==
  /\ TM!TypeOK
  /\ ok_to_send_button_indications \in BOOLEAN /\ indication_in_flight \in BOOLEAN
  /\ bonded \in BOOLEAN /\ queue \in Q!Ring
  /\ led0 \in BOOLEAN /\ led1 \in BOOLEAN /\ halted \in BOOLEAN
  /\ display \in [connection : {"", "Advertising", "Connected", "Bonded"},
                  prompt : BOOLEAN, temperature : BOOLEAN]
  /\ link \in {"standby", "advertising", "connected", "closing"}
  /\ cccd \in [Characteristics -> BOOLEAN]
  /\ outstanding \in Indications \cup {None}
  /\ att_dead \in BOOLEAN
  /\ pairing \in {"none", "requested", "confirmed", "passkey", "accepted", "bonded", "failed"}
  /\ inbox \in Seq(Events) /\ Len(inbox) <= MaxInbox

Closing == Pending(Event("connection_closed"))

(* The flags of ble_data are copies of the stack's state: once the events  *)
(* that carry a change are handled, each says what the stack and the client*)
(* hold, through reconnections, resubscriptions and timeouts.              *)
Follows(flag, c) ==
  \/ Closing \/ Pending(Event("indication_timeout"))
  \/ \E enabled \in BOOLEAN : Pending(ClientConfig(c, enabled))
  \/ flag = (cccd[c] /\ ~att_dead)

FlagsFollowStack ==
  /\ \/ Closing \/ Pending(Event("connection_opened"))
     \/ connection_open = (link \in {"connected", "closing"})
  /\ Closing \/ Pending(Event("sm_bonded")) \/ bonded = (pairing = "bonded")
  /\ Follows(ok_to_send_htm_indications, htm)
  /\ Follows(ok_to_send_button_indications, button)

(* indication_in_flight is set only while something clears it: the         *)
(* outstanding indication, whose confirmation or timeout will come, a      *)
(* confirmation that waits, or the event that ends the connection.  The    *)
(* handler of the indication timeout is the exception: it leaves the flag  *)
(* set, with nothing on its way, until the client disconnects.  From then  *)
(* on neither value may be sent or queued, whatever configuration the      *)
(* client wrote before: a value would only be queued, behind a confirmation*)
(* that cannot come.                                                       *)
InFlightIsExplained ==
  indication_in_flight =>
    \/ outstanding # None
    \/ \E c \in Characteristics : Pending(Confirmation(c))
    \/ Closing
    \/ att_dead /\ Pending(Event("indication_timeout"))
    \/ att_dead /\ ~ok_to_send_htm_indications /\ ~ok_to_send_button_indications

(* What the user sees is what the flags say: an LED is lit exactly while   *)
(* the application may send, except that an indication timeout clears the  *)
(* flags and leaves the LEDs to the disconnection that must follow; the    *)
(* display calls the connection open or bonded as they do, and no          *)
(* temperature and no prompt of a connection outlives it.                  *)
LedsShowSubscriptions ==
  /\ led0 # ok_to_send_htm_indications => led0 /\ (att_dead \/ Closing)
  /\ led1 # ok_to_send_button_indications => led1 /\ (att_dead \/ Closing)

DisplayMatchesFlags ==
  /\ display.connection = "Connected" <=> connection_open /\ ~bonded
  /\ display.connection = "Bonded" <=> bonded
  /\ display.temperature \/ display.prompt \/ bonded => connection_open

OutputsFollowFlags == LedsShowSubscriptions /\ DisplayMatchesFlags

(* The request to confirm the passkey is on the display only while the     *)
(* pairing waits for it or an event that removes it is on its way, and a   *)
(* failed pairing always brings the connection down.                       *)
PromptEndsWithPairing ==
  /\ display.prompt =>
       \/ pairing \in {"passkey", "accepted", "failed"}
       \/ Pending(Event("sm_bonded")) \/ Closing
  /\ pairing = "failed" =>
       link = "closing" \/ Pending(Event("sm_bonding_failed"))

(* The machine in its environment, with the real events, is TemperatureMachine. *)
ImplementsMachine == TM!Spec

(* Under fairness a server that lost its connection advertises again.      *)
AdvertisesAgain == link = "standby" ~> link = "advertising" \/ halted

(* A failed pairing ends in a disconnection. *)
FailedPairingCloses == pairing = "failed" ~> link = "standby" \/ halted

-----------------------------------------------------------------------------
(* sl_bt_api.h: always wait for the confirmation of the previous indication*)
(* before sending a new one.                                               *)
Sends ==
  \/ \E c \in Characteristics : Confirmed(c) /\ queue' # queue
  \/ MachineSignal /\ display'.temperature /\ ~indication_in_flight
       /\ next_state = "STATE_I2C_READ_COMPLETE" /\ next_state' = "STATE_IDLE"
AwaitsConfirmation == [][Sends => outstanding = None]_vars

(* ble.c: read_queue returns NULL when the queue is empty; its caller      *)
(* never reads through that pointer.                                       *)
NullIsChecked == ~halted
=============================================================================
