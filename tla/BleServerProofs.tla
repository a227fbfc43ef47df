--------------------------- MODULE BleServerProofs --------------------------
(***************************************************************************)
(* The server, for every depth of the queue, every inbox and all its       *)
(* interrupts at once: its flags follow the stack, what it shows follows   *)
(* its flags, and its machine is TemperatureMachine.                       *)
(***************************************************************************)
EXTENDS BleServer, TLAPS

Connections == {"connected", "closing"}
Ends == {"system_boot", "connection_closed"}
Starts == {"system_boot", "connection_opened"}

Has(id) == \E i \in DOMAIN inbox : inbox[i].id = id
Later(i, id) == \E j \in DOMAIN inbox : j > i /\ inbox[j].id = id

Config(i, c) == inbox[i].id = "characteristic_status" /\ inbox[i].characteristic = c

-----------------------------------------------------------------------------
(* The inductive invariant. *)

FlagTypes ==
  /\ connection_open \in BOOLEAN /\ ok_to_send_htm_indications \in BOOLEAN
  /\ ok_to_send_button_indications \in BOOLEAN /\ indication_in_flight \in BOOLEAN
  /\ bonded \in BOOLEAN

OutputTypes ==
  /\ led0 \in BOOLEAN /\ led1 \in BOOLEAN /\ halted \in BOOLEAN
  /\ display \in [connection : {"", "Advertising", "Connected", "Bonded"},
                  prompt : BOOLEAN, temperature : BOOLEAN]

StackTypes ==
  /\ link \in {"standby", "advertising"} \cup Connections
  /\ cccd \in [Characteristics -> BOOLEAN]
  /\ outstanding \in Indications \cup {None}
  /\ att_dead \in BOOLEAN
  /\ pairing \in {"none", "requested", "confirmed", "passkey", "accepted", "bonded", "failed"}

InboxTypes == inbox \in Seq(Events) /\ Len(inbox) <= MaxInbox

Types == FlagTypes /\ OutputTypes /\ StackTypes /\ InboxTypes

QueueOK == queue \in Q!Ring /\ Q!Consistent(queue)

(* The inbox holds events of one connection, from the one that opens it to *)
(* the one that closes it; without a connection the stack holds nothing of *)
(* a client.                                                               *)
Order ==
  /\ \A i \in DOMAIN inbox : inbox[i].id \in Starts => i = 1
  /\ \A i \in DOMAIN inbox : inbox[i].id \in Ends => i = Len(inbox) /\ link = "standby"
  /\ link = "standby" => inbox # << >> /\ inbox[Len(inbox)].id \in Ends
  /\ link = "advertising" => inbox = << >>
  /\ link \notin Connections =>
       cccd = [c \in Characteristics |-> FALSE] /\ outstanding = None /\ ~att_dead
         /\ pairing = "none"

(* Nothing has happened before the boot event. *)
Fresh ==
  Has("system_boot") =>
    /\ ~connection_open /\ ~ok_to_send_htm_indications /\ ~ok_to_send_button_indications
    /\ ~bonded /\ ~led0 /\ ~led1 /\ ~queue.buffer_full /\ queue.wptr = queue.rptr

(* The handlers run between the events that open and close a connection    *)
(* with connection_open set.                                               *)
Opened ==
  /\ Has("connection_opened") => ~connection_open
  /\ inbox # << >> /\ inbox[1].id \notin Starts => connection_open

(* What an event on its way says of the stack, unless the connection ended *)
(* or a later event revises it.                                            *)
Explained ==
  link # "standby" =>
    \A i \in DOMAIN inbox :
      /\ inbox[i].id = "indication_timeout" => att_dead
      /\ inbox[i].id = "sm_bonded" => pairing = "bonded"
      /\ inbox[i].id = "sm_confirm_passkey" =>
           pairing \in {"passkey", "accepted", "failed"} \/ Later(i, "sm_bonded")
      /\ \A c \in Characteristics : Config(i, c) =>
           \/ Later(i, "indication_timeout")
           \/ \E j \in DOMAIN inbox : j > i /\ Config(j, c)
           \/ inbox[i].enabled = (cccd[c] /\ ~att_dead)

Copy(flag, c) ==
  \/ Has("indication_timeout")
  \/ \E i \in DOMAIN inbox : Config(i, c)
  \/ flag = (cccd[c] /\ ~att_dead)

Copies ==
  link # "standby" =>
    /\ Has("connection_opened") \/ connection_open = (link \in Connections)
    /\ Has("sm_bonded") \/ bonded = (pairing = "bonded")
    /\ Copy(ok_to_send_htm_indications, htm)
    /\ Copy(ok_to_send_button_indications, button)

Shown ==
  /\ led0 # ok_to_send_htm_indications => led0 /\ (att_dead \/ link = "standby")
  /\ led1 # ok_to_send_button_indications => led1 /\ (att_dead \/ link = "standby")
  /\ DisplayMatchesFlags

InFlight ==
  indication_in_flight =>
    outstanding # None \/ Has("confirmation") \/ att_dead \/ Has("connection_closed")

Prompt ==
  link # "standby" =>
    /\ display.prompt => pairing \in {"passkey", "accepted", "failed"} \/ Has("sm_bonded")
    /\ pairing = "failed" => link = "closing" \/ Has("sm_bonding_failed")

SInv ==
  /\ Types /\ QueueOK
  /\ Order /\ Fresh /\ Opened /\ Explained /\ Copies
  /\ Shown /\ InFlight /\ Prompt

-----------------------------------------------------------------------------
(* Events are told apart by their id. *)

LEMMA EventShape ==
  ASSUME NEW e \in Events
  PROVE  /\ e.id \in {"system_boot", "connection_opened", "connection_closed",
                      "sm_confirm_bonding", "sm_confirm_passkey", "sm_bonding_failed",
                      "sm_bonded", "indication_timeout", "characteristic_status",
                      "confirmation"}
         /\ e.id = "characteristic_status" =>
              /\ e.characteristic \in Characteristics /\ e.enabled \in BOOLEAN
              /\ e = ClientConfig(e.characteristic, e.enabled)
         /\ e.id = "confirmation" =>
              e.characteristic \in Characteristics /\ e = Confirmation(e.characteristic)
         /\ e.id \notin {"characteristic_status", "confirmation"} => e = Event(e.id)
  BY DEF Events, SimpleEvents, Event, ClientConfig, Confirmation

LEMMA EventsAreEvents ==
  /\ \A id \in {"system_boot", "connection_opened", "connection_closed",
                "sm_confirm_bonding", "sm_confirm_passkey", "sm_bonding_failed", "sm_bonded",
                "indication_timeout"} : Event(id) \in Events /\ Event(id).id = id
  /\ \A c \in Characteristics, enabled \in BOOLEAN :
       /\ ClientConfig(c, enabled) \in Events
       /\ ClientConfig(c, enabled).id = "characteristic_status"
       /\ ClientConfig(c, enabled).characteristic = c
       /\ ClientConfig(c, enabled).enabled = enabled
  /\ \A c \in Characteristics :
       /\ Confirmation(c) \in Events
       /\ Confirmation(c).id = "confirmation"
       /\ Confirmation(c).characteristic = c
<1>1. ASSUME NEW id \in {"system_boot", "connection_opened", "connection_closed",
                         "sm_confirm_bonding", "sm_confirm_passkey", "sm_bonding_failed",
                         "sm_bonded", "indication_timeout"}
      PROVE  Event(id) \in Events /\ Event(id).id = id
  BY <1>1 DEF Events, SimpleEvents, Event
<1>2. ASSUME NEW c \in Characteristics, NEW enabled \in BOOLEAN
      PROVE  /\ ClientConfig(c, enabled) \in Events
             /\ ClientConfig(c, enabled).id = "characteristic_status"
             /\ ClientConfig(c, enabled).characteristic = c
             /\ ClientConfig(c, enabled).enabled = enabled
  BY <1>2 DEF Events, ClientConfig
<1>3. ASSUME NEW c \in Characteristics
      PROVE  /\ Confirmation(c) \in Events
             /\ Confirmation(c).id = "confirmation"
             /\ Confirmation(c).characteristic = c
  BY <1>3 DEF Events, Confirmation
<1> QED BY <1>1, <1>2, <1>3

-----------------------------------------------------------------------------
(* The inbox after the thread took its first event, and after the stack    *)
(* added one.                                                              *)

LEMMA Taken ==
  ASSUME Types, NEW e, Handling(e)
  PROVE  /\ e \in Events /\ ~halted
         /\ inbox' \in Seq(Events) /\ Len(inbox) \in Nat /\ Len(inbox) <= MaxInbox
         /\ Len(inbox') = Len(inbox) - 1 /\ Len(inbox') <= MaxInbox
         /\ DOMAIN inbox = 1 .. Len(inbox) /\ DOMAIN inbox' = 1 .. Len(inbox')
         /\ 1 \in DOMAIN inbox /\ inbox[1] = e
         /\ \A i \in DOMAIN inbox' : i + 1 \in DOMAIN inbox /\ inbox'[i] = inbox[i + 1]
         /\ \A i \in DOMAIN inbox : i # 1 => i - 1 \in DOMAIN inbox' /\ inbox'[i - 1] = inbox[i]
<1>1. inbox \in Seq(Events) /\ inbox # << >> /\ inbox' = Tail(inbox) /\ Head(inbox) = e
      /\ ~halted /\ Len(inbox) <= MaxInbox /\ MaxInbox \in Nat
  BY ServerAssumption DEF Types, InboxTypes, OutputTypes, Handling
<1>2. /\ Len(inbox) \in Nat /\ Len(inbox) > 0 /\ DOMAIN inbox = 1 .. Len(inbox)
      /\ inbox' \in Seq(Events) /\ Len(inbox') = Len(inbox) - 1
      /\ DOMAIN inbox' = 1 .. Len(inbox')
      /\ Head(inbox) = inbox[1]
  BY <1>1
<1>3. \A i \in 1 .. Len(inbox) - 1 : inbox'[i] = inbox[i + 1]
  BY <1>1, <1>2
<1> QED BY <1>1, <1>2, <1>3

LEMMA Posted ==
  ASSUME Types, NEW e \in Events, Post(e)
  PROVE  /\ inbox' \in Seq(Events) /\ inbox' # << >> /\ Len(inbox) \in Nat
         /\ Len(inbox') = Len(inbox) + 1 /\ Len(inbox') <= MaxInbox
         /\ DOMAIN inbox = 1 .. Len(inbox) /\ DOMAIN inbox' = 1 .. Len(inbox')
         /\ Len(inbox') \in DOMAIN inbox' /\ inbox'[Len(inbox')] = e
         /\ \A i \in DOMAIN inbox : i \in DOMAIN inbox' /\ inbox'[i] = inbox[i]
         /\ \A i \in DOMAIN inbox' : i \in DOMAIN inbox \/ i = Len(inbox')
<1>1. inbox \in Seq(Events) /\ inbox' = Append(inbox, e) /\ Len(inbox) < MaxInbox
      /\ MaxInbox \in Nat
  BY ServerAssumption DEF Types, InboxTypes, Post
<1>2. /\ Len(inbox) \in Nat /\ DOMAIN inbox = 1 .. Len(inbox)
      /\ inbox' \in Seq(Events) /\ Len(inbox') = Len(inbox) + 1
      /\ DOMAIN inbox' = 1 .. Len(inbox') /\ inbox'[Len(inbox) + 1] = e
      /\ \A i \in 1 .. Len(inbox) : inbox'[i] = inbox[i]
  BY <1>1
<1> QED BY <1>1, <1>2

-----------------------------------------------------------------------------
(* Handling an event between the opening and the end of a connection keeps *)
(* the invariant's account of the inbox; what it leaves of each kind.      *)

Between == {"sm_confirm_bonding", "sm_confirm_passkey", "sm_bonding_failed", "sm_bonded",
            "indication_timeout", "characteristic_status", "confirmation"}

LEMMA HandledOrder ==
  ASSUME SInv, NEW e, Handling(e), e.id \in Between \cup {"connection_opened"},
         UNCHANGED <<cccd, att_dead>>,
         link' = link \/ (link = "connected" /\ link' = "closing"),
         pairing' = pairing \/ (pairing = "requested" /\ pairing' = "confirmed"),
         outstanding = None /\ link \notin Connections => outstanding' = None
  PROVE  /\ Order' /\ Explained'
         /\ ~Has("system_boot")' /\ ~Has("connection_opened")'
         /\ link # "standby" => link \in Connections /\ link' \in Connections
         /\ link = "standby" => link' = "standby"
<1>1. Types /\ Order /\ Opened /\ Explained
  BY DEF SInv
<1> DEFINE n == Len(inbox)
<1>2. /\ n \in Nat /\ Len(inbox') = n - 1
      /\ DOMAIN inbox = 1 .. n /\ DOMAIN inbox' = 1 .. n - 1
      /\ 1 \in DOMAIN inbox /\ inbox[1] = e
      /\ \A i \in DOMAIN inbox' : i + 1 \in DOMAIN inbox /\ inbox'[i] = inbox[i + 1]
      /\ \A i \in DOMAIN inbox : i # 1 => i - 1 \in DOMAIN inbox' /\ inbox'[i - 1] = inbox[i]
      /\ inbox' \in Seq(Events)
  BY <1>1, Taken
<1> HIDE DEF n
<1>3. inbox # << >>
  BY <1>1, Taken DEF Handling
<1>5. \A i \in DOMAIN inbox' : inbox'[i].id \notin Starts
  BY <1>1, <1>2 DEF Order
<1>6. link \in {"standby"} \cup Connections
  BY <1>1, <1>3 DEF Types, StackTypes, Order
<1>7. link = "standby" => n # 1
  BY <1>1, <1>2 DEF Order, Ends, Between, n
<1>8. Order'
  <2>1. \A i \in DOMAIN inbox' : inbox'[i].id \in Ends => i = n - 1 /\ link' = "standby"
    BY <1>1, <1>2, <1>6 DEF Order, Connections, n
  <2>2. link' = "standby" => inbox' # << >> /\ inbox'[n - 1].id \in Ends
    BY <1>1, <1>2, <1>7 DEF Order, Connections, n
  <2>3. link' \notin Connections =>
       cccd' = [c \in Characteristics |-> FALSE] /\ outstanding' = None /\ ~att_dead'
         /\ pairing' = "none"
    BY <1>1 DEF Order, Connections
  <2>4. link' # "advertising"
    BY <1>6 DEF Connections
  <2> QED BY <1>2, <1>5, <2>1, <2>2, <2>3, <2>4 DEF Order
<1>9. ~Has("system_boot")' /\ ~Has("connection_opened")'
  BY <1>5 DEF Has, Starts
<1>10. Explained'
  <2> SUFFICES ASSUME link' # "standby", NEW i \in DOMAIN inbox'
      PROVE
      /\ inbox'[i].id = "indication_timeout" => att_dead'
      /\ inbox'[i].id = "sm_bonded" => pairing' = "bonded"
      /\ inbox'[i].id = "sm_confirm_passkey" =>
           pairing' \in {"passkey", "accepted", "failed"} \/ Later(i, "sm_bonded")'
      /\ \A c \in Characteristics : Config(i, c)' =>
           \/ Later(i, "indication_timeout")'
           \/ \E j \in DOMAIN inbox' : j > i /\ Config(j, c)'
           \/ inbox'[i].enabled = (cccd'[c] /\ ~att_dead')
    BY DEF Explained
  <2>1. i + 1 \in DOMAIN inbox /\ inbox'[i] = inbox[i + 1] /\ i \in Nat
    BY <1>2
  <2>2. link # "standby"
    BY <1>6 DEF Connections
  <2>3. \A id : Later(i + 1, id) => Later(i, id)'
    BY <1>2, <2>1 DEF Later
  <2>4. ASSUME NEW c \in Characteristics, NEW j \in DOMAIN inbox, j > i + 1, Config(j, c)
        PROVE  \E k \in DOMAIN inbox' : k > i /\ Config(k, c)'
    <3>1. j - 1 \in DOMAIN inbox' /\ inbox'[j - 1] = inbox[j] /\ j - 1 > i
      BY <1>2, <2>1, <2>4
    <3> QED BY <2>4, <3>1 DEF Config
  <2>5. \A c \in Characteristics : Config(i, c)' => Config(i + 1, c)
    BY <2>1 DEF Config
  <2> QED BY <1>1, <2>1, <2>2, <2>3, <2>4, <2>5 DEF Explained
<1>12. /\ link # "standby" => link \in Connections /\ link' \in Connections
       /\ link = "standby" => link' = "standby"
  BY <1>6 DEF Connections
<1> QED BY <1>8, <1>9, <1>10, <1>12

LEMMA HandledBetween ==
  ASSUME SInv, NEW e, Handling(e), e.id \in Between,
         UNCHANGED <<cccd, att_dead, connection_open>>,
         link' = link \/ (link = "connected" /\ link' = "closing"),
         pairing' = pairing \/ (pairing = "requested" /\ pairing' = "confirmed"),
         outstanding = None /\ link \notin Connections => outstanding' = None
  PROVE  /\ connection_open
         /\ Order' /\ Fresh' /\ Opened' /\ Explained'
         /\ link # "standby" => link \in Connections /\ link' \in Connections
         /\ link = "standby" => link' = "standby"
<1>1. /\ Order' /\ Explained'
      /\ ~Has("system_boot")' /\ ~Has("connection_opened")'
      /\ link # "standby" => link \in Connections /\ link' \in Connections
      /\ link = "standby" => link' = "standby"
  BY HandledOrder
<1>2. inbox # << >> /\ inbox[1] = e
  BY Taken DEF SInv, Handling
<1>3. connection_open
  BY <1>2 DEF SInv, Opened, Starts, Between
<1> QED BY <1>1, <1>3 DEF Fresh, Opened

(* What is left of the other events, and what the event itself says.       *)
HasConfig(c) == \E i \in DOMAIN inbox : Config(i, c)

LEMMA HandledLeaves ==
  ASSUME SInv, NEW e, Handling(e)
  PROVE  /\ \A id : Has(id) /\ e.id # id => Has(id)'
         /\ \A c : HasConfig(c) /\ ~(e.id = "characteristic_status" /\ e.characteristic = c)
                     => HasConfig(c)'
         /\ \A id : Has(id)' => Has(id)
         /\ e \in Events /\ Has(e.id)
         /\ inbox' \in Seq(Events) /\ Len(inbox') <= MaxInbox /\ ~halted
<1>1. Types
  BY DEF SInv
<1>2. /\ 1 \in DOMAIN inbox /\ inbox[1] = e
      /\ \A i \in DOMAIN inbox : i # 1 => i - 1 \in DOMAIN inbox' /\ inbox'[i - 1] = inbox[i]
      /\ \A i \in DOMAIN inbox' : i + 1 \in DOMAIN inbox /\ inbox'[i] = inbox[i + 1]
      /\ e \in Events /\ inbox' \in Seq(Events) /\ Len(inbox') <= MaxInbox /\ ~halted
  BY <1>1, Taken
<1>3. \A id : Has(id) /\ e.id # id => Has(id)'
  BY <1>2 DEF Has
<1>4. \A c : HasConfig(c) /\ ~(e.id = "characteristic_status" /\ e.characteristic = c)
               => HasConfig(c)'
  BY <1>2 DEF HasConfig, Config
<1>5. \A id : Has(id)' => Has(id)
  BY <1>2 DEF Has
<1> QED BY <1>2, <1>3, <1>4, <1>5 DEF Has

LEMMA HandledSays ==
  ASSUME SInv, NEW e, Handling(e), link # "standby"
  PROVE  /\ e.id = "indication_timeout" => att_dead
         /\ e.id = "sm_bonded" => pairing = "bonded"
         /\ e.id = "sm_confirm_passkey" =>
              pairing \in {"passkey", "accepted", "failed"} \/ Has("sm_bonded")'
         /\ \A c \in Characteristics : e.id = "characteristic_status" /\ e.characteristic = c =>
              \/ Has("indication_timeout")' \/ HasConfig(c)'
              \/ e.enabled = (cccd[c] /\ ~att_dead)
<1>1. Types /\ Explained
  BY DEF SInv
<1>2. /\ 1 \in DOMAIN inbox /\ inbox[1] = e
      /\ \A i \in DOMAIN inbox : i # 1 => i - 1 \in DOMAIN inbox' /\ inbox'[i - 1] = inbox[i]
  BY <1>1, Taken
<1>3. \A id : Later(1, id) => Has(id)'
  BY <1>2 DEF Later, Has
<1>4. \A c : (\E j \in DOMAIN inbox : j > 1 /\ Config(j, c)) => HasConfig(c)'
  BY <1>2 DEF HasConfig, Config
<1>5. \A c : Config(1, c) <=> e.id = "characteristic_status" /\ e.characteristic = c
  BY <1>2 DEF Config
<1> QED BY <1>1, <1>2, <1>3, <1>4, <1>5 DEF Explained

-----------------------------------------------------------------------------
(* The handlers. *)

LEMMA ConfirmBondingKeeps ==
  ASSUME SInv, ConfirmBonding
  PROVE  SInv'
<1> DEFINE e == Event("sm_confirm_bonding")
<1>1. Handling(e) /\ e.id = "sm_confirm_bonding"
  BY EventsAreEvents DEF ConfirmBonding
<1> HIDE DEF e
<1>2. /\ UNCHANGED <<gate, ble_flags, outputs, halted, link, cccd, outstanding, att_dead>>
      /\ pairing' = pairing \/ (pairing = "requested" /\ pairing' = "confirmed")
  BY DEF ConfirmBonding
<1> USE DEF gate, ble_flags, outputs
<1>3. /\ Order' /\ Fresh' /\ Opened' /\ Explained'
  BY <1>1, <1>2, HandledBetween DEF Between
<1>4. /\ \A id : Has(id) /\ id # "sm_confirm_bonding" => Has(id)'
      /\ \A c : HasConfig(c) => HasConfig(c)'
      /\ inbox' \in Seq(Events) /\ Len(inbox') <= MaxInbox
  BY <1>1, HandledLeaves
<1>5. Types'
  <2>1. FlagTypes' /\ OutputTypes'
    BY <1>2 DEF SInv, Types, FlagTypes, OutputTypes
  <2>2. StackTypes'
    BY <1>2 DEF SInv, Types, StackTypes
  <2> QED BY <1>4, <2>1, <2>2 DEF Types, InboxTypes
<1>9. QueueOK'
  BY <1>2 DEF SInv, QueueOK
<1>6. Copies'
  BY <1>2, <1>4 DEF SInv, Copies, Copy, HasConfig
<1>7. Shown'
  BY <1>2 DEF SInv, Shown, DisplayMatchesFlags
<1>8. InFlight' /\ Prompt'
  BY <1>2, <1>4 DEF SInv, InFlight, Prompt
<1> QED BY <1>3, <1>5, <1>6, <1>7, <1>8, <1>9 DEF SInv

LEMMA ConfirmPasskeyKeeps ==
  ASSUME SInv, ConfirmPasskey
  PROVE  SInv'
<1> DEFINE e == Event("sm_confirm_passkey")
<1>1. Handling(e) /\ e.id = "sm_confirm_passkey"
  BY EventsAreEvents DEF ConfirmPasskey
<1> HIDE DEF e
<1>2. /\ UNCHANGED <<gate, ble_flags, led0, led1, halted, stack>>
      /\ display' = [display EXCEPT !.prompt = TRUE]
  BY DEF ConfirmPasskey
<1> USE DEF gate, ble_flags, stack
<1>3. /\ connection_open /\ Order' /\ Fresh' /\ Opened' /\ Explained'
  BY <1>1, <1>2, HandledBetween DEF Between
<1>4. /\ \A id : Has(id) /\ id # "sm_confirm_passkey" => Has(id)'
      /\ \A c : HasConfig(c) => HasConfig(c)'
      /\ inbox' \in Seq(Events) /\ Len(inbox') <= MaxInbox
  BY <1>1, HandledLeaves
<1>5. /\ display.connection \in {"", "Advertising", "Connected", "Bonded"}
      /\ display.temperature \in BOOLEAN
      /\ display'.connection = display.connection /\ display'.prompt = TRUE
      /\ display'.temperature = display.temperature
      /\ OutputTypes'
  BY <1>2 DEF SInv, Types, OutputTypes
<1>6. Types'
  <2>1. FlagTypes' /\ StackTypes'
    BY <1>2 DEF SInv, Types, FlagTypes, StackTypes
  <2> QED BY <1>4, <1>5, <2>1 DEF Types, InboxTypes
<1>7. QueueOK'
  BY <1>2 DEF SInv, QueueOK
<1>8. Copies'
  BY <1>2, <1>4 DEF SInv, Copies, Copy, HasConfig
<1>9. Shown'
  BY <1>2, <1>3, <1>5 DEF SInv, Shown, DisplayMatchesFlags
<1>10. InFlight'
  BY <1>2, <1>4 DEF SInv, InFlight
<1>11. Prompt'
  <2>1. link # "standby" => pairing \in {"passkey", "accepted", "failed"} \/ Has("sm_bonded")'
    BY <1>1, HandledSays
  <2> QED BY <1>2, <1>4, <2>1 DEF SInv, Prompt
<1> QED BY <1>3, <1>6, <1>7, <1>8, <1>9, <1>10, <1>11 DEF SInv

LEMMA BondingFailedKeeps ==
  ASSUME SInv, BondingFailed
  PROVE  SInv'
<1> DEFINE e == Event("sm_bonding_failed")
<1>1. Handling(e) /\ e.id = "sm_bonding_failed"
  BY EventsAreEvents DEF BondingFailed
<1> HIDE DEF e
<1>2. /\ UNCHANGED <<gate, ble_flags, outputs, halted, cccd, outstanding, att_dead, pairing>>
      /\ link' = IF link = "connected" THEN "closing" ELSE link
  BY DEF BondingFailed
<1> USE DEF gate, ble_flags, outputs
<1>3. /\ connection_open /\ Order' /\ Fresh' /\ Opened' /\ Explained'
      /\ link # "standby" => link \in Connections /\ link' \in Connections
      /\ link = "standby" => link' = "standby"
  BY <1>1, <1>2, HandledBetween DEF Between
<1>4. /\ \A id : Has(id) /\ id # "sm_bonding_failed" => Has(id)'
      /\ \A c : HasConfig(c) => HasConfig(c)'
      /\ inbox' \in Seq(Events) /\ Len(inbox') <= MaxInbox
  BY <1>1, HandledLeaves
<1>5. link' = "standby" <=> link = "standby"
  BY <1>3 DEF Connections
<1>6. Types'
  <2>1. FlagTypes' /\ OutputTypes'
    BY <1>2 DEF SInv, Types, FlagTypes, OutputTypes
  <2>2. StackTypes'
    BY <1>2 DEF SInv, Types, StackTypes, Connections
  <2> QED BY <1>4, <2>1, <2>2 DEF Types, InboxTypes
<1>7. QueueOK'
  BY <1>2 DEF SInv, QueueOK
<1>8. Copies'
  <2>1. link # "standby" => connection_open' = (link' \in Connections)
    BY <1>2, <1>3
  <2> QED BY <1>2, <1>4, <1>5, <2>1 DEF SInv, Copies, Copy, HasConfig
<1>9. Shown'
  BY <1>2, <1>5 DEF SInv, Shown, DisplayMatchesFlags
<1>10. InFlight'
  BY <1>2, <1>4 DEF SInv, InFlight
<1>11. Prompt'
  BY <1>2, <1>3, <1>4 DEF SInv, Prompt, Connections
<1> QED BY <1>3, <1>6, <1>7, <1>8, <1>9, <1>10, <1>11 DEF SInv

LEMMA BondedKeeps ==
  ASSUME SInv, Bonded
  PROVE  SInv'
<1> DEFINE e == Event("sm_bonded")
<1>1. Handling(e) /\ e.id = "sm_bonded"
  BY EventsAreEvents DEF Bonded
<1> HIDE DEF e
<1>2. /\ UNCHANGED <<gate, ok_to_send_button_indications, indication_in_flight, queue,
                     led0, led1, halted, stack>>
      /\ display' = [display EXCEPT !.connection = "Bonded", !.prompt = FALSE]
      /\ bonded' = TRUE
  BY DEF Bonded
<1> USE DEF gate, stack
<1>3. /\ connection_open /\ Order' /\ Fresh' /\ Opened' /\ Explained'
  BY <1>1, <1>2, HandledBetween DEF Between
<1>4. /\ \A id : Has(id) /\ id # "sm_bonded" => Has(id)'
      /\ \A c : HasConfig(c) => HasConfig(c)'
      /\ inbox' \in Seq(Events) /\ Len(inbox') <= MaxInbox
  BY <1>1, HandledLeaves
<1>5. /\ display'.connection = "Bonded" /\ display'.prompt = FALSE
      /\ OutputTypes'
  BY <1>2 DEF SInv, Types, OutputTypes
<1>6. Types'
  <2>1. FlagTypes' /\ StackTypes'
    BY <1>2 DEF SInv, Types, FlagTypes, StackTypes
  <2> QED BY <1>4, <1>5, <2>1 DEF Types, InboxTypes
<1>7. QueueOK'
  BY <1>2 DEF SInv, QueueOK
<1>8. Copies'
  <2>1. link # "standby" => pairing = "bonded"
    BY <1>1, HandledSays
  <2> QED BY <1>2, <1>4, <2>1 DEF SInv, Copies, Copy, HasConfig
<1>9. Shown'
  BY <1>2, <1>3, <1>5 DEF SInv, Shown, DisplayMatchesFlags
<1>10. InFlight'
  BY <1>2, <1>4 DEF SInv, InFlight
<1>11. Prompt'
  BY <1>2, <1>4, <1>5 DEF SInv, Prompt
<1> QED BY <1>3, <1>6, <1>7, <1>8, <1>9, <1>10, <1>11 DEF SInv

-----------------------------------------------------------------------------
(* The queue, by the lemmas of IndicationQueueProofs. *)

QP == INSTANCE IndicationQueueProofs WITH
  MAX_BUFFER_LENGTH <- 5, MIN_BUFFER_LENGTH <- 1, Data <- Indications, result <- None

LEMMA RingParameters ==
  /\ QUEUE_DEPTH \in Nat \ {0} /\ 1 \in Nat /\ 5 \in Nat
  /\ \A d \in Indications : d.bufferLength \in 1 .. 5
  /\ Blank \notin Indications
  /\ None \notin Indications
  /\ \A d \in Indications : d.charHandle \in Characteristics
  BY ServerAssumption, IndicationAssumption
     DEF Indications, TemperatureIndication, ButtonIndication, Characteristics

LEMMA SameRing ==
  /\ QP!Ring = Q!Ring /\ QP!ValidData = Indications
  /\ \A q : QP!Consistent(q) <=> Q!Consistent(q)
  /\ \A q : QP!IsEmpty(q) <=> Q!IsEmpty(q)
  /\ \A q : QP!read_queue(q) = Q!read_queue(q)
  /\ \A q, d : QP!write_queue(q, d) = Q!write_queue(q, d)
<1>1. QP!ValidData = Indications /\ Q!ValidData = Indications
  BY RingParameters DEF QP!ValidData, Q!ValidData
<1>2. QP!Slots = Q!Slots
  BY DEF QP!Slots, Q!Slots
<1>3. \A p : QP!nextPtr(p) = Q!nextPtr(p)
  BY DEF QP!nextPtr, Q!nextPtr
<1>4. \A q : QP!IsEmpty(q) <=> Q!IsEmpty(q)
  BY DEF QP!IsEmpty, Q!IsEmpty
<1>5. \A q, d : QP!Accepts(q, d) <=> Q!Accepts(q, d)
  BY <1>1 DEF QP!Accepts, Q!Accepts
<1>6. QP!Ring = Q!Ring
  BY <1>1, <1>2 DEF QP!Ring, Q!Ring
<1>7. \A q : QP!Consistent(q) <=> Q!Consistent(q)
  BY DEF QP!Consistent, Q!Consistent, QP!Count, Q!Count, QP!SlotAt, Q!SlotAt
<1>8. \A q : QP!read_queue(q) = Q!read_queue(q)
  BY <1>3, <1>4 DEF QP!read_queue, Q!read_queue
<1>9. \A q, d : QP!write_queue(q, d) = Q!write_queue(q, d)
  BY <1>3, <1>5 DEF QP!write_queue, Q!write_queue
<1> QED BY <1>1, <1>4, <1>6, <1>7, <1>8, <1>9

LEMMA QueueWritten ==
  ASSUME QueueOK, NEW d \in Indications, queue' = Q!write_queue(queue, d)
  PROVE  QueueOK'
<1>1. queue \in QP!Ring /\ QP!Consistent(queue) /\ d \in QP!ValidData
  BY SameRing DEF QueueOK
<1>2. CASE queue.buffer_full
  <2>1. queue' = queue
    BY <1>2 DEF Q!write_queue, Q!Accepts
  <2> QED BY <2>1 DEF QueueOK
<1>3. CASE ~queue.buffer_full
  <2>1. /\ QP!write_queue(queue, d) \in QP!Ring
        /\ QP!Consistent(QP!write_queue(queue, d))
    BY <1>1, <1>3, RingParameters, QP!WriteAppends DEF QP!WriteAppends
  <2> QED BY <2>1, SameRing DEF QueueOK
<1> QED BY <1>2, <1>3

LEMMA QueueTaken ==
  ASSUME QueueOK, ~Q!IsEmpty(queue), queue' = Q!read_queue(queue)
  PROVE  QueueOK' /\ queue.indication_buffer[queue.rptr] \in Indications
<1>1. queue \in QP!Ring /\ QP!Consistent(queue) /\ ~QP!IsEmpty(queue)
  BY SameRing DEF QueueOK
<1>2. /\ QP!read_queue(queue) \in QP!Ring
      /\ QP!Consistent(QP!read_queue(queue))
      /\ QP!Contents(queue) # << >>
      /\ Head(QP!Contents(queue)) = queue.indication_buffer[queue.rptr]
  BY <1>1, RingParameters, QP!ReadTakesHead DEF QP!ReadTakesHead
<1>3. QP!Contents(queue) \in Seq(Indications)
  BY <1>1, RingParameters, QP!ContentsSeq, SameRing DEF QP!ContentsSeq
<1>4. queue.indication_buffer[queue.rptr] \in Indications
  BY <1>2, <1>3
<1>5. QueueOK'
  BY <1>2, SameRing DEF QueueOK
<1> QED BY <1>4, <1>5

LEMMA QueueReset ==
  ASSUME QueueOK, ~queue.buffer_full, queue' = Q!BootRing(queue)
  PROVE  QueueOK'
<1>1. 0 \in Q!Slots /\ QUEUE_DEPTH \in Nat
  BY RingParameters DEF Q!Slots
<1>2. queue' \in Q!Ring /\ ~queue'.buffer_full /\ queue'.wptr = 0 /\ queue'.rptr = 0
  BY <1>1 DEF QueueOK, Q!BootRing, Q!Ring
<1>3. Q!Count(queue') = 0
  BY <1>2 DEF Q!Count
<1>4. Q!Consistent(queue')
  BY <1>2, <1>3 DEF Q!Consistent
<1> QED BY <1>2, <1>4 DEF QueueOK

-----------------------------------------------------------------------------
(* Sending, and the steps that leave the inbox alone. *)

LEMMA Sent ==
  ASSUME SInv, NEW d \in Indications, SendOrQueue(d)
  PROVE  /\ QueueOK' /\ outstanding' \in Indications \cup {None}
         /\ indication_in_flight' \in BOOLEAN
         /\ outstanding # None => outstanding' = outstanding
         /\ link # "connected" => outstanding' = outstanding
         /\ indication_in_flight' /\ ~indication_in_flight => outstanding' # None
<1>1. QueueOK /\ outstanding \in Indications \cup {None} /\ indication_in_flight \in BOOLEAN
  BY DEF SInv, Types, StackTypes, FlagTypes
<1>2. CASE indication_in_flight
  <2>1. queue' = Q!write_queue(queue, d) /\ UNCHANGED <<indication_in_flight, outstanding>>
    BY <1>2 DEF SendOrQueue
  <2> QED BY <1>1, <1>2, <2>1, QueueWritten
<1>3. CASE ~indication_in_flight
  <2>1. /\ outstanding' = IF Refused(d) THEN outstanding ELSE d
        /\ indication_in_flight' = ~Refused(d)
        /\ queue' = queue
    BY <1>3 DEF SendOrQueue, send_indication
  <2>2. outstanding # None \/ link # "connected" => Refused(d)
    BY DEF Refused
  <2>3. Refused(d) \in BOOLEAN /\ QueueOK'
    BY <1>1, <2>1 DEF QueueOK, Refused
  <2> QED BY <1>1, <2>1, <2>2, <2>3, RingParameters
<1> QED BY <1>2, <1>3

LEMMA SignalKeeps ==
  ASSUME SInv,
         UNCHANGED <<connection_open, ok_to_send_htm_indications,
                     ok_to_send_button_indications, bonded, led0, led1, halted,
                     link, cccd, att_dead, inbox>>,
         \/ pairing' = pairing
         \/ link = "connected" /\ pairing = "passkey" /\ pairing' = "accepted",
         \/ display' = display
         \/ connection_open /\ display' = [display EXCEPT !.temperature = TRUE],
         \/ UNCHANGED <<indication_in_flight, queue, outstanding>>
         \/ connection_open /\ \E d \in Indications : SendOrQueue(d)
  PROVE  SInv'
<1>1. /\ QueueOK' /\ outstanding' \in Indications \cup {None}
      /\ indication_in_flight' \in BOOLEAN
      /\ outstanding # None => outstanding' = outstanding
      /\ link # "connected" => outstanding' = outstanding
      /\ indication_in_flight' /\ ~indication_in_flight => outstanding' # None
      /\ ~connection_open => queue' = queue
  <2>1. CASE UNCHANGED <<indication_in_flight, queue, outstanding>>
    BY <2>1 DEF SInv, QueueOK, Types, StackTypes, FlagTypes
  <2>2. CASE connection_open /\ \E d \in Indications : SendOrQueue(d)
    BY <2>2, Sent
  <2> QED BY <2>1, <2>2
<1>2. /\ display'.connection = display.connection /\ display'.prompt = display.prompt
      /\ display'.temperature # display.temperature => connection_open
      /\ OutputTypes'
  BY DEF SInv, Types, OutputTypes
<1>3. Types'
  <2>1. FlagTypes' /\ StackTypes'
    BY <1>1 DEF SInv, Types, FlagTypes, StackTypes
  <2> QED BY <1>2, <2>1 DEF SInv, Types, InboxTypes
<1>4. Order'
  BY <1>1 DEF SInv, Order, Connections
<1>5. Fresh' /\ Opened'
  BY <1>1 DEF SInv, Fresh, Opened, Has
<1>6. Explained'
  BY DEF SInv, Explained, Config, Later
<1>7. Copies'
  BY DEF SInv, Copies, Copy, Has, Config
<1>8. Shown'
  BY <1>2 DEF SInv, Shown, DisplayMatchesFlags
<1>9. InFlight'
  BY <1>1 DEF SInv, InFlight, Has
<1>10. Prompt'
  BY <1>2 DEF SInv, Prompt, Has
<1> QED BY <1>1, <1>3, <1>4, <1>5, <1>6, <1>7, <1>8, <1>9, <1>10 DEF SInv

LEMMA ExternalSignalKeeps ==
  ASSUME SInv, ExternalSignal
  PROVE  SInv'
<1>1. {ButtonIndication(0), ButtonIndication(1)} \subseteq Indications
      /\ \A t \in Temperatures : TemperatureIndication(t) \in Indications
  BY DEF Indications
<1> USE DEF gate, outputs
<1>2. ASSUME NEW s \in {0, 1}, ble_send_button_state(s)
      PROVE  \/ UNCHANGED <<indication_in_flight, queue, outstanding>>
             \/ connection_open /\ \E d \in Indications : SendOrQueue(d)
  BY <1>1, <1>2 DEF ble_send_button_state
<1>3. CASE ButtonPressed
  <2>1. \/ UNCHANGED <<indication_in_flight, queue, outstanding>>
        \/ connection_open /\ \E d \in Indications : SendOrQueue(d)
    BY <1>2, <1>3 DEF ButtonPressed
  <2>2. \/ pairing' = pairing
        \/ link = "connected" /\ pairing = "passkey" /\ pairing' = "accepted"
    BY <1>3 DEF ButtonPressed
  <2>3. UNCHANGED <<connection_open, ok_to_send_htm_indications,
                    ok_to_send_button_indications, bonded, led0, led1, display, halted,
                    link, cccd, att_dead, inbox>>
    BY <1>3 DEF ButtonPressed
  <2> QED BY <2>1, <2>2, <2>3, SignalKeeps
<1>4. CASE ButtonReleased
  <2>1. \/ UNCHANGED <<indication_in_flight, queue, outstanding>>
        \/ connection_open /\ \E d \in Indications : SendOrQueue(d)
    BY <1>2, <1>4 DEF ButtonReleased
  <2>3. UNCHANGED <<connection_open, ok_to_send_htm_indications,
                    ok_to_send_button_indications, bonded, led0, led1, display, halted,
                    link, cccd, att_dead, pairing, inbox>>
    BY <1>4 DEF ButtonReleased
  <2> QED BY <2>1, <2>3, SignalKeeps
<1>5. CASE MachineSignal
  <2>1. UNCHANGED <<connection_open, ok_to_send_htm_indications,
                    ok_to_send_button_indications, bonded, led0, led1, halted,
                    link, cccd, att_dead, pairing, inbox>>
    BY <1>5 DEF MachineSignal
  <2>2. CASE UNCHANGED <<indication_in_flight, queue, outstanding, display>>
    BY <2>1, <2>2, SignalKeeps
  <2>3. CASE TM!ReportTemperature(signals) /\ \E t \in Temperatures : ble_send_temp_value(t)
    <3>1. connection_open
      BY <2>3 DEF TM!ReportTemperature, TM!Gate
    <3>2. \E d \in Indications : SendOrQueue(d)
      BY <1>1, <2>3 DEF ble_send_temp_value
    <3>3. display' = display \/ display' = [display EXCEPT !.temperature = TRUE]
      BY <2>3 DEF ble_send_temp_value
    <3> QED BY <2>1, <3>1, <3>2, <3>3, SignalKeeps
  <2> QED BY <1>5, <2>2, <2>3 DEF MachineSignal
<1> QED BY <1>3, <1>4, <1>5 DEF ExternalSignal

LEMMA IdleKeeps ==
  ASSUME SInv, UNCHANGED <<gate, ble_flags, outputs, halted, stack, inbox>>
  PROVE  SInv'
  BY SignalKeeps DEF gate, ble_flags, outputs, stack

LEMMA InterruptKeeps ==
  ASSUME SInv, Interrupt
  PROVE  SInv'
<1>1. UNCHANGED gate
  BY DEF Interrupt, gate, TM!gate, TM!LETIMER0_IRQHandler, TM!I2C0_IRQHandler_Done,
         TM!I2C0_IRQHandler_Error, TM!GPIO_EVEN_IRQHandler
<1> QED BY <1>1, IdleKeeps DEF Interrupt

-----------------------------------------------------------------------------
(* The handlers of the client's configuration and confirmations. *)

LEMMA TemperatureConfigKeeps ==
  ASSUME SInv, NEW enabled \in BOOLEAN, TemperatureConfig(enabled)
  PROVE  SInv'
<1> DEFINE e == ClientConfig(htm, enabled)
<1>1. /\ Handling(e) /\ e.id = "characteristic_status"
      /\ e.characteristic = htm /\ e.enabled = enabled
  BY EventsAreEvents DEF TemperatureConfig, Characteristics
<1> HIDE DEF e
<1>2. /\ UNCHANGED <<connection_open, ble_flags, led1, halted, stack>>
      /\ ok_to_send_htm_indications' = enabled /\ led0' = enabled
      /\ display' = [display EXCEPT !.temperature = @ /\ enabled]
  BY DEF TemperatureConfig
<1> USE DEF ble_flags, stack
<1>3. /\ connection_open /\ Order' /\ Fresh' /\ Opened' /\ Explained'
  BY <1>1, <1>2, HandledBetween DEF Between
<1>4. /\ \A id : Has(id) /\ id # "characteristic_status" => Has(id)'
      /\ HasConfig(button) => HasConfig(button)'
      /\ inbox' \in Seq(Events) /\ Len(inbox') <= MaxInbox
  BY <1>1, HandledLeaves DEF htm, button
<1>5. /\ display'.connection = display.connection /\ display'.prompt = display.prompt
      /\ OutputTypes'
  BY <1>2 DEF SInv, Types, OutputTypes
<1>6. Types'
  <2>1. FlagTypes' /\ StackTypes'
    BY <1>2 DEF SInv, Types, FlagTypes, StackTypes
  <2> QED BY <1>4, <1>5, <2>1 DEF Types, InboxTypes
<1>7. QueueOK'
  BY <1>2 DEF SInv, QueueOK
<1>8. Copies'
  <2>1. link # "standby" =>
          \/ Has("indication_timeout")' \/ HasConfig(htm)'
          \/ enabled = (cccd[htm] /\ ~att_dead)
    BY <1>1, HandledSays DEF Characteristics
  <2>2. link # "standby" => Copy(ok_to_send_htm_indications, htm)'
    BY <1>2, <2>1 DEF Copy, HasConfig
  <2>3. link # "standby" => Copy(ok_to_send_button_indications, button)'
    BY <1>2, <1>4 DEF SInv, Copies, Copy, HasConfig
  <2> QED BY <1>2, <1>4, <2>2, <2>3 DEF SInv, Copies
<1>9. Shown'
  BY <1>2, <1>3, <1>5 DEF SInv, Shown, DisplayMatchesFlags
<1>10. InFlight'
  BY <1>2, <1>4 DEF SInv, InFlight
<1>11. Prompt'
  BY <1>2, <1>4, <1>5 DEF SInv, Prompt
<1> QED BY <1>3, <1>6, <1>7, <1>8, <1>9, <1>10, <1>11 DEF SInv

LEMMA ButtonConfigKeeps ==
  ASSUME SInv, NEW enabled \in BOOLEAN, ButtonConfig(enabled)
  PROVE  SInv'
<1> DEFINE e == ClientConfig(button, enabled)
<1>1. /\ Handling(e) /\ e.id = "characteristic_status"
      /\ e.characteristic = button /\ e.enabled = enabled
  BY EventsAreEvents DEF ButtonConfig, Characteristics
<1> HIDE DEF e
<1>2. /\ UNCHANGED <<gate, indication_in_flight, bonded, queue, led0, display, halted, stack>>
      /\ ok_to_send_button_indications' = enabled /\ led1' = enabled
  BY DEF ButtonConfig
<1> USE DEF gate, stack
<1>3. /\ connection_open /\ Order' /\ Fresh' /\ Opened' /\ Explained'
  BY <1>1, <1>2, HandledBetween DEF Between
<1>4. /\ \A id : Has(id) /\ id # "characteristic_status" => Has(id)'
      /\ HasConfig(htm) => HasConfig(htm)'
      /\ inbox' \in Seq(Events) /\ Len(inbox') <= MaxInbox
  BY <1>1, HandledLeaves DEF htm, button
<1>6. Types'
  <2>1. FlagTypes' /\ OutputTypes'
    BY <1>2 DEF SInv, Types, FlagTypes, OutputTypes
  <2>2. StackTypes'
    BY <1>2 DEF SInv, Types, StackTypes
  <2> QED BY <1>4, <2>1, <2>2 DEF Types, InboxTypes
<1>7. QueueOK'
  BY <1>2 DEF SInv, QueueOK
<1>8. Copies'
  <2>1. link # "standby" =>
          \/ Has("indication_timeout")' \/ HasConfig(button)'
          \/ enabled = (cccd[button] /\ ~att_dead)
    BY <1>1, HandledSays DEF Characteristics
  <2>2. link # "standby" => Copy(ok_to_send_button_indications, button)'
    BY <1>2, <2>1 DEF Copy, HasConfig
  <2>3. link # "standby" => Copy(ok_to_send_htm_indications, htm)'
    BY <1>2, <1>4 DEF SInv, Copies, Copy, HasConfig
  <2> QED BY <1>2, <1>4, <2>2, <2>3 DEF SInv, Copies
<1>9. Shown'
  BY <1>2 DEF SInv, Shown, DisplayMatchesFlags
<1>10. InFlight'
  BY <1>2, <1>4 DEF SInv, InFlight
<1>11. Prompt'
  BY <1>2, <1>4 DEF SInv, Prompt
<1> QED BY <1>3, <1>6, <1>7, <1>8, <1>9, <1>10, <1>11 DEF SInv

LEMMA ConfirmedKeeps ==
  ASSUME SInv, NEW c \in Characteristics, Confirmed(c)
  PROVE  SInv'
<1> DEFINE e == Confirmation(c)
<1>1. Handling(e) /\ e.id = "confirmation"
  BY EventsAreEvents DEF Confirmed
<1> HIDE DEF e
<1>2. /\ UNCHANGED <<gate, ok_to_send_button_indications, bonded, outputs,
                     link, cccd, att_dead, pairing>>
      /\ indication_in_flight' = FALSE
  BY DEF Confirmed
<1> USE DEF gate, outputs
<1>3. /\ QueueOK' /\ halted' \in BOOLEAN
      /\ outstanding' \in Indications \cup {None}
      /\ link # "connected" => outstanding' = outstanding
  <2>1. QueueOK /\ outstanding \in Indications \cup {None} /\ halted \in BOOLEAN
    BY DEF SInv, Types, StackTypes, OutputTypes
  <2>2. CASE UNCHANGED <<queue, outstanding>> /\ halted' \in BOOLEAN
    BY <2>1, <2>2 DEF QueueOK
  <2>3. CASE /\ ~Q!IsEmpty(queue) /\ queue' = Q!read_queue(queue)
             /\ send_indication(queue.indication_buffer[queue.rptr])
             /\ UNCHANGED halted
    BY <2>1, <2>3, QueueTaken DEF send_indication, Refused
  <2> QED BY <2>1, <2>2, <2>3 DEF Confirmed
<1>4. /\ connection_open /\ Order' /\ Fresh' /\ Opened' /\ Explained'
  <2>1. outstanding = None /\ link \notin Connections => outstanding' = None
    BY <1>3 DEF Connections
  <2> QED BY <1>1, <1>2, <2>1, HandledBetween DEF Between
<1>5. /\ \A id : Has(id) /\ id # "confirmation" => Has(id)'
      /\ \A d : HasConfig(d) => HasConfig(d)'
      /\ inbox' \in Seq(Events) /\ Len(inbox') <= MaxInbox
  BY <1>1, HandledLeaves
<1>6. Types'
  <2>1. FlagTypes' /\ OutputTypes'
    BY <1>2, <1>3 DEF SInv, Types, FlagTypes, OutputTypes
  <2>2. StackTypes'
    BY <1>2, <1>3 DEF SInv, Types, StackTypes
  <2> QED BY <1>5, <2>1, <2>2 DEF Types, InboxTypes
<1>7. Copies'
  BY <1>2, <1>5 DEF SInv, Copies, Copy, HasConfig
<1>8. Shown'
  BY <1>2 DEF SInv, Shown, DisplayMatchesFlags
<1>9. InFlight' /\ Prompt'
  BY <1>2, <1>5 DEF SInv, InFlight, Prompt
<1> QED BY <1>3, <1>4, <1>6, <1>7, <1>8, <1>9 DEF SInv

LEMMA IndicationTimeoutKeeps ==
  ASSUME SInv, IndicationTimeout
  PROVE  SInv'
<1> DEFINE e == Event("indication_timeout")
<1>1. Handling(e) /\ e.id = "indication_timeout"
  BY EventsAreEvents DEF IndicationTimeout
<1> HIDE DEF e
<1>2. /\ UNCHANGED <<connection_open, indication_in_flight, bonded, queue,
                     outputs, halted, stack>>
      /\ ok_to_send_htm_indications' = FALSE /\ ok_to_send_button_indications' = FALSE
  BY DEF IndicationTimeout
<1> USE DEF outputs, stack
<1>3. /\ connection_open /\ Order' /\ Fresh' /\ Opened' /\ Explained'
  BY <1>1, <1>2, HandledBetween DEF Between
<1>4. /\ \A id : Has(id) /\ id # "indication_timeout" => Has(id)'
      /\ \A c : HasConfig(c) => HasConfig(c)'
      /\ inbox' \in Seq(Events) /\ Len(inbox') <= MaxInbox
  BY <1>1, HandledLeaves
<1>5. link # "standby" => att_dead
  BY <1>1, HandledSays
<1>6. Types'
  <2>1. FlagTypes' /\ OutputTypes'
    BY <1>2 DEF SInv, Types, FlagTypes, OutputTypes
  <2>2. StackTypes'
    BY <1>2 DEF SInv, Types, StackTypes
  <2> QED BY <1>4, <2>1, <2>2 DEF Types, InboxTypes
<1>7. QueueOK'
  BY <1>2 DEF SInv, QueueOK
<1>8. Copies'
  BY <1>2, <1>4, <1>5 DEF SInv, Copies, Copy
<1>9. Shown'
  <2>1. led0 \in BOOLEAN /\ led1 \in BOOLEAN
    BY DEF SInv, Types, OutputTypes
  <2> QED BY <1>2, <1>3, <1>5, <2>1 DEF SInv, Shown, DisplayMatchesFlags
<1>10. InFlight' /\ Prompt'
  BY <1>2, <1>4 DEF SInv, InFlight, Prompt
<1> QED BY <1>3, <1>6, <1>7, <1>8, <1>9, <1>10 DEF SInv

-----------------------------------------------------------------------------
(* The handlers of the events that begin and end what the others need. *)

LEMMA HandledEnd ==
  ASSUME SInv, NEW e, Handling(e), e.id \in Ends
  PROVE  /\ inbox' = << >> /\ DOMAIN inbox' = {} /\ inbox' \in Seq(Events)
         /\ Len(inbox') = 0 /\ ~halted /\ link = "standby"
         /\ cccd = [c \in Characteristics |-> FALSE] /\ outstanding = None /\ ~att_dead
         /\ pairing = "none"
<1>1. Types /\ Order
  BY DEF SInv
<1>2. /\ Len(inbox) \in Nat /\ Len(inbox') = Len(inbox) - 1 /\ inbox' \in Seq(Events)
      /\ 1 \in DOMAIN inbox /\ inbox[1] = e /\ ~halted
  BY <1>1, Taken
<1>3. Len(inbox) = 1 /\ link = "standby"
  BY <1>1, <1>2 DEF Order
<1>4. Len(inbox') = 0 /\ inbox' = << >>
  BY <1>2, <1>3
<1> QED BY <1>1, <1>2, <1>3, <1>4 DEF Order, Connections

(* The invariant of a server that advertises, whatever it did before.      *)
LEMMA AdvertisingKeeps ==
  ASSUME SInv, NEW e, Handling(e), e.id \in Ends, QueueOK',
         ~connection_open', ~indication_in_flight', ~ok_to_send_htm_indications', ~bonded',
         ~ok_to_send_button_indications', connection_open' \in BOOLEAN,
         indication_in_flight' \in BOOLEAN, ok_to_send_htm_indications' \in BOOLEAN,
         bonded' \in BOOLEAN, ok_to_send_button_indications' \in BOOLEAN,
         led0' = FALSE, led1' = FALSE,
         display' = [connection |-> "Advertising", prompt |-> FALSE, temperature |-> FALSE],
         link' = "advertising", UNCHANGED <<halted, cccd, outstanding, att_dead, pairing>>
  PROVE  SInv'
<1>1. /\ inbox' = << >> /\ DOMAIN inbox' = {} /\ inbox' \in Seq(Events)
      /\ Len(inbox') = 0
      /\ cccd = [c \in Characteristics |-> FALSE] /\ outstanding = None /\ ~att_dead
      /\ pairing = "none"
  BY HandledEnd
<1>2. Types'
  <2>1. FlagTypes'
    BY DEF FlagTypes
  <2>2. OutputTypes'
    BY DEF SInv, Types, OutputTypes
  <2>3. StackTypes'
    BY DEF SInv, Types, StackTypes
  <2>4. MaxInbox \in Nat
    BY ServerAssumption
  <2> QED BY <1>1, <2>1, <2>2, <2>3, <2>4 DEF Types, InboxTypes
<1>3. Order' /\ Fresh' /\ Opened' /\ Explained'
  BY <1>1 DEF Order, Fresh, Opened, Explained, Has, Connections
<1>4. Copies'
  <2>1. htm \in Characteristics /\ button \in Characteristics
    BY DEF Characteristics
  <2> QED BY <1>1, <2>1 DEF Copies, Copy, Connections
<1>5. Shown' /\ InFlight' /\ Prompt'
  BY <1>1 DEF Shown, DisplayMatchesFlags, InFlight, Prompt
<1> QED BY <1>2, <1>3, <1>4, <1>5 DEF SInv

LEMMA BootKeeps ==
  ASSUME SInv, Boot
  PROVE  SInv'
<1> DEFINE e == Event("system_boot")
<1>1. Handling(e) /\ e.id = "system_boot"
  BY EventsAreEvents DEF Boot
<1> HIDE DEF e
<1>2. Has("system_boot")
  BY <1>1, HandledLeaves
<1>3. ~connection_open /\ ~led0 /\ ~led1 /\ ~queue.buffer_full
  BY <1>2 DEF SInv, Fresh
<1>4. /\ display' = [display EXCEPT !.connection = "Advertising"]
      /\ UNCHANGED <<led0, led1>>
      /\ queue' = Q!BootRing(queue)
  BY DEF Boot
<1>5. led0' = FALSE /\ led1' = FALSE
  BY <1>3, <1>4 DEF SInv, Types, OutputTypes
<1>6. display' = [connection |-> "Advertising", prompt |-> FALSE, temperature |-> FALSE]
  BY <1>3, <1>4 DEF SInv, Types, OutputTypes, Shown, DisplayMatchesFlags
<1>7. QueueOK'
  BY <1>3, <1>4, QueueReset DEF SInv
<1> QED BY <1>1, <1>5, <1>6, <1>7, AdvertisingKeeps DEF Boot, legacy_advertiser_start, Ends

LEMMA ConnectionClosedKeeps ==
  ASSUME SInv, ConnectionClosed
  PROVE  SInv'
<1> DEFINE e == Event("connection_closed")
<1>1. Handling(e) /\ e.id = "connection_closed"
  BY EventsAreEvents DEF ConnectionClosed
<1> HIDE DEF e
<1>2. QueueOK'
  BY DEF SInv, QueueOK, ConnectionClosed
<1> QED BY <1>1, <1>2, AdvertisingKeeps DEF ConnectionClosed, legacy_advertiser_start, Ends

LEMMA ConnectionOpenedKeeps ==
  ASSUME SInv, ConnectionOpened
  PROVE  SInv'
<1> DEFINE e == Event("connection_opened")
<1>1. Handling(e) /\ e.id = "connection_opened"
  BY EventsAreEvents DEF ConnectionOpened
<1> HIDE DEF e
<1>2. /\ UNCHANGED <<ok_to_send_htm_indications, ble_flags, led0, led1, halted, stack>>
      /\ connection_open' = TRUE
      /\ display' = [display EXCEPT !.connection = "Connected"]
  BY DEF ConnectionOpened
<1> USE DEF ble_flags, stack
<1>3. /\ Order' /\ Explained'
      /\ ~Has("system_boot")' /\ ~Has("connection_opened")'
      /\ link # "standby" => link \in Connections
  BY <1>1, <1>2, HandledOrder
<1>4. /\ \A id : Has(id) /\ id # "connection_opened" => Has(id)'
      /\ \A c : HasConfig(c) => HasConfig(c)'
      /\ inbox' \in Seq(Events) /\ Len(inbox') <= MaxInbox
      /\ Has("connection_opened")
  BY <1>1, HandledLeaves
<1>5. ~connection_open /\ ~bonded
  BY <1>4 DEF SInv, Opened, Shown, DisplayMatchesFlags
<1>6. /\ display'.connection = "Connected" /\ display'.prompt = display.prompt
      /\ display'.temperature = display.temperature
      /\ OutputTypes'
  BY <1>2 DEF SInv, Types, OutputTypes
<1>7. Types'
  <2>1. FlagTypes' /\ StackTypes'
    BY <1>2 DEF SInv, Types, FlagTypes, StackTypes
  <2> QED BY <1>4, <1>6, <2>1 DEF Types, InboxTypes
<1>8. QueueOK'
  BY <1>2 DEF SInv, QueueOK
<1>9. Fresh' /\ Opened'
  BY <1>2, <1>3 DEF Fresh, Opened
<1>10. Copies'
  BY <1>2, <1>3, <1>4 DEF SInv, Copies, Copy, HasConfig
<1>11. Shown'
  BY <1>2, <1>5, <1>6 DEF SInv, Shown, DisplayMatchesFlags
<1>12. InFlight' /\ Prompt'
  BY <1>2, <1>4, <1>6 DEF SInv, InFlight, Prompt
<1> QED BY <1>3, <1>7, <1>8, <1>9, <1>10, <1>11, <1>12 DEF SInv

-----------------------------------------------------------------------------
(* The steps of the stack. *)

LEMMA PostedSays ==
  ASSUME SInv, NEW e \in Events, Post(e)
  PROVE  /\ \A id : Has(id) => Has(id)'
         /\ \A c : HasConfig(c) => HasConfig(c)'
         /\ \A id : Has(id)' => Has(id) \/ id = e.id
         /\ Has(e.id)'
         /\ \A c : e.id = "characteristic_status" /\ e.characteristic = c => HasConfig(c)'
         /\ inbox' # << >> /\ inbox' \in Seq(Events) /\ Len(inbox') <= MaxInbox
<1>1. /\ \A i \in DOMAIN inbox : i \in DOMAIN inbox' /\ inbox'[i] = inbox[i]
      /\ \A i \in DOMAIN inbox' : i \in DOMAIN inbox \/ i = Len(inbox')
      /\ Len(inbox') \in DOMAIN inbox' /\ inbox'[Len(inbox')] = e
      /\ inbox' # << >> /\ inbox' \in Seq(Events) /\ Len(inbox') <= MaxInbox
  BY Posted DEF SInv
<1>2. /\ \A id : Has(id) => Has(id)'
      /\ \A id : Has(id)' => Has(id) \/ id = e.id
      /\ Has(e.id)'
  BY <1>1 DEF Has
<1>3. /\ \A c : HasConfig(c) => HasConfig(c)'
      /\ \A c : e.id = "characteristic_status" /\ e.characteristic = c => HasConfig(c)'
  BY <1>1 DEF HasConfig, Config
<1> QED BY <1>1, <1>2, <1>3

(* An event of a connection that lasts: what the inbox says stays true if  *)
(* whatever the event reports is what changed.                             *)
LEMMA PostedBetween ==
  ASSUME SInv, NEW e \in Events, Post(e), e.id \in Between, link \in Connections,
         UNCHANGED <<application, link>>,
         att_dead' = att_dead \/ (att_dead' /\ e.id = "indication_timeout"),
         e.id = "indication_timeout" => att_dead',
         pairing = "bonded" => pairing' = "bonded",
         pairing \in {"passkey", "accepted", "failed"} =>
           pairing' \in {"passkey", "accepted", "failed"} \/ e.id = "sm_bonded",
         e.id = "sm_bonded" => pairing' = "bonded",
         e.id = "sm_confirm_passkey" => pairing' = "passkey",
         \A c \in Characteristics :
           /\ cccd'[c] = cccd[c] \/ (e.id = "characteristic_status" /\ e.characteristic = c)
           /\ e.id = "characteristic_status" /\ e.characteristic = c =>
                e.enabled = (cccd'[c] /\ ~att_dead')
  PROVE  Order' /\ Fresh' /\ Opened' /\ Explained' /\ Shown' /\ QueueOK'
<1>1. Types /\ Order /\ Opened /\ Explained /\ Copies /\ att_dead \in BOOLEAN
  BY DEF SInv, Types, StackTypes
<1> DEFINE n == Len(inbox')
<1>2. /\ Len(inbox) \in Nat /\ n = Len(inbox) + 1
      /\ DOMAIN inbox = 1 .. Len(inbox) /\ DOMAIN inbox' = 1 .. n
      /\ n \in DOMAIN inbox' /\ inbox'[n] = e
      /\ \A i \in DOMAIN inbox : i \in DOMAIN inbox' /\ inbox'[i] = inbox[i]
      /\ \A i \in DOMAIN inbox' : i \in DOMAIN inbox \/ i = n
      /\ inbox' # << >>
  BY <1>1, Posted
<1> HIDE DEF n
<1>3. /\ \A id : Has(id) => Has(id)'
      /\ \A id : Has(id)' => Has(id) \/ id = e.id
  BY PostedSays
<1> USE DEF application, gate, ble_flags, outputs
<1>4. link # "standby" /\ link' # "standby" /\ link' # "advertising"
  BY DEF Connections
<1>5. \A i \in DOMAIN inbox : inbox[i].id \notin Ends
  BY <1>1, <1>4 DEF Order
<1>6. Order'
  <2>1. \A i \in DOMAIN inbox' : inbox'[i].id \in Starts => i = 1
    BY <1>1, <1>2 DEF Order, Starts, Between
  <2>2. \A i \in DOMAIN inbox' : inbox'[i].id \notin Ends
    BY <1>2, <1>5 DEF Ends, Between
  <2> QED BY <1>4, <2>1, <2>2 DEF Order, Connections
<1>7. ~Has("system_boot")'
  BY <1>3, <1>5 DEF Has, Ends, Between
<1>8. Opened'
  <2>1. Has("connection_opened")' => ~connection_open'
    BY <1>1, <1>3 DEF Opened, Between
  <2>2. CASE inbox = << >>
    <3>1. DOMAIN inbox = {}
      BY <2>2
    <3>2. connection_open
      BY <1>1, <1>4, <3>1 DEF Copies, Has
    <3> QED BY <2>1, <3>2 DEF Opened
  <2>3. CASE inbox # << >>
    <3>1. inbox'[1] = inbox[1]
      BY <1>1, <1>2, <2>3 DEF Types, InboxTypes
    <3> QED BY <1>1, <2>1, <2>3, <3>1 DEF Opened
  <2> QED BY <2>2, <2>3
<1>9. Explained'
  <2> SUFFICES ASSUME NEW i \in DOMAIN inbox'
      PROVE
      /\ inbox'[i].id = "indication_timeout" => att_dead'
      /\ inbox'[i].id = "sm_bonded" => pairing' = "bonded"
      /\ inbox'[i].id = "sm_confirm_passkey" =>
           pairing' \in {"passkey", "accepted", "failed"} \/ Later(i, "sm_bonded")'
      /\ \A c \in Characteristics : Config(i, c)' =>
           \/ Later(i, "indication_timeout")'
           \/ \E j \in DOMAIN inbox' : j > i /\ Config(j, c)'
           \/ inbox'[i].enabled = (cccd'[c] /\ ~att_dead')
    BY DEF Explained
  <2>1. CASE i = n
    BY <1>2, <2>1 DEF Config
  <2>2. CASE i \in DOMAIN inbox
    <3>1. inbox'[i] = inbox[i] /\ n > i /\ inbox'[n] = e
      BY <1>2, <2>2
    <3>2. \A id : Later(i, id) => Later(i, id)'
      BY <1>2 DEF Later
    <3>3. \A id : e.id = id => Later(i, id)'
      BY <1>2, <3>1 DEF Later
    <3>4. ASSUME NEW c \in Characteristics, Config(i, c)'
          PROVE  \/ Later(i, "indication_timeout")'
                 \/ \E j \in DOMAIN inbox' : j > i /\ Config(j, c)'
                 \/ inbox'[i].enabled = (cccd'[c] /\ ~att_dead')
      <4>1. Config(i, c)
        BY <3>1, <3>4 DEF Config
      <4>2. \/ Later(i, "indication_timeout")
            \/ \E j \in DOMAIN inbox : j > i /\ Config(j, c)
            \/ inbox[i].enabled = (cccd[c] /\ ~att_dead)
        BY <1>1, <1>4, <2>2, <4>1 DEF Explained
      <4>3. (\E j \in DOMAIN inbox : j > i /\ Config(j, c))
              => \E j \in DOMAIN inbox' : j > i /\ Config(j, c)'
        BY <1>2 DEF Config
      <4>4. CASE cccd'[c] = cccd[c] /\ att_dead' = att_dead
        BY <3>1, <3>2, <4>2, <4>3, <4>4
      <4>5. CASE e.id = "characteristic_status" /\ e.characteristic = c
        BY <1>2, <3>1, <4>5 DEF Config
      <4>6. CASE e.id = "indication_timeout"
        BY <3>3, <4>6
      <4> QED BY <4>4, <4>5, <4>6
    <3>5. inbox[i].id = "indication_timeout" => att_dead
      BY <1>1, <1>4, <2>2 DEF Explained
    <3>6. inbox[i].id = "sm_bonded" => pairing = "bonded"
      BY <1>1, <1>4, <2>2 DEF Explained
    <3>7. inbox[i].id = "sm_confirm_passkey" =>
            pairing \in {"passkey", "accepted", "failed"} \/ Later(i, "sm_bonded")
      BY <1>1, <1>4, <2>2 DEF Explained
    <3> QED BY <3>1, <3>2, <3>3, <3>4, <3>5, <3>6, <3>7
  <2> QED BY <1>2, <2>1, <2>2
<1>10. Shown'
  <2>1. att_dead => att_dead'
    OBVIOUS
  <2> QED BY <2>1 DEF SInv, Shown, DisplayMatchesFlags
<1>11. QueueOK'
  BY DEF SInv, QueueOK
<1> QED BY <1>6, <1>7, <1>8, <1>9, <1>10, <1>11 DEF Fresh

LEMMA ConnectKeeps ==
  ASSUME SInv, Connect
  PROVE  SInv'
<1> DEFINE e == Event("connection_opened")
<1>1. Post(e) /\ e \in Events /\ e.id = "connection_opened"
  BY EventsAreEvents DEF Connect
<1> HIDE DEF e
<1>2. /\ UNCHANGED <<application, cccd, outstanding, att_dead, pairing>>
      /\ link = "advertising" /\ link' = "connected"
  BY DEF Connect
<1> USE DEF application, gate, ble_flags, outputs
<1>3. Types /\ Order /\ Copies /\ Shown /\ InFlight /\ Prompt /\ QueueOK
  BY DEF SInv
<1>4. inbox = << >> /\ DOMAIN inbox = {} /\ Len(inbox) = 0 /\ pairing = "none"
  BY <1>2, <1>3 DEF Order, Connections
<1>5. /\ DOMAIN inbox' = {1} /\ inbox'[1] = e /\ Len(inbox') = 1
      /\ inbox' \in Seq(Events) /\ Len(inbox') <= MaxInbox /\ inbox' # << >>
  BY <1>1, <1>3, <1>4, Posted
<1>6. ~connection_open
  BY <1>2, <1>3, <1>4 DEF Copies, Has, Connections
<1>7. Types'
  <2>1. FlagTypes' /\ OutputTypes'
    BY <1>2, <1>3 DEF Types, FlagTypes, OutputTypes
  <2>2. StackTypes'
    BY <1>2, <1>3 DEF Types, StackTypes, Connections
  <2> QED BY <1>5, <2>1, <2>2 DEF Types, InboxTypes
<1>8. Order'
  BY <1>1, <1>2, <1>5 DEF Order, Ends, Connections
<1>9. Fresh' /\ Opened'
  BY <1>1, <1>2, <1>5, <1>6 DEF Fresh, Opened, Has, Starts
<1>10. Explained'
  BY <1>1, <1>5 DEF Explained, Config
<1>11. Copies'
  BY <1>1, <1>2, <1>3, <1>4, <1>5 DEF Copies, Copy, Has, Config
<1>12. Shown' /\ QueueOK'
  BY <1>2, <1>3 DEF Shown, DisplayMatchesFlags, QueueOK
<1>13. InFlight' /\ Prompt'
  BY <1>2, <1>3, <1>4 DEF InFlight, Prompt, Has
<1> QED BY <1>7, <1>8, <1>9, <1>10, <1>11, <1>12, <1>13 DEF SInv

LEMMA DisconnectKeeps ==
  ASSUME SInv, Disconnect
  PROVE  SInv'
<1> DEFINE e == Event("connection_closed")
<1>1. Post(e) /\ e \in Events /\ e.id = "connection_closed"
  BY EventsAreEvents DEF Disconnect
<1> HIDE DEF e
<1>2. /\ UNCHANGED application
      /\ link \in Connections /\ link' = "standby"
      /\ cccd' = [c \in Characteristics |-> FALSE] /\ outstanding' = None
      /\ att_dead' = FALSE /\ pairing' = "none"
  BY DEF Disconnect, Connections
<1> USE DEF application, gate, ble_flags, outputs
<1>3. Types /\ Order /\ Opened /\ Copies /\ Shown /\ QueueOK
  BY DEF SInv
<1>4. /\ Len(inbox') = Len(inbox) + 1 /\ Len(inbox) \in Nat
      /\ DOMAIN inbox = 1 .. Len(inbox)
      /\ Len(inbox') \in DOMAIN inbox' /\ inbox'[Len(inbox')] = e
      /\ \A i \in DOMAIN inbox : i \in DOMAIN inbox' /\ inbox'[i] = inbox[i]
      /\ \A i \in DOMAIN inbox' : i \in DOMAIN inbox \/ i = Len(inbox')
  BY <1>1, <1>3, Posted
<1>5. /\ \A id : Has(id)' => Has(id) \/ id = e.id
      /\ Has("connection_closed")'
      /\ inbox' # << >> /\ inbox' \in Seq(Events) /\ Len(inbox') <= MaxInbox
  BY <1>1, PostedSays
<1>6. \A i \in DOMAIN inbox : inbox[i].id \notin Ends
  BY <1>2, <1>3 DEF Order, Connections
<1>7. Types'
  <2>1. FlagTypes' /\ OutputTypes'
    BY <1>2, <1>3 DEF Types, FlagTypes, OutputTypes
  <2>2. StackTypes'
    BY <1>2, <1>3 DEF Types, StackTypes
  <2> QED BY <1>5, <2>1, <2>2 DEF Types, InboxTypes
<1>8. Order'
  <2>1. \A i \in DOMAIN inbox' : inbox'[i].id \in Starts => i = 1
    BY <1>1, <1>3, <1>4 DEF Order, Starts
  <2>2. \A i \in DOMAIN inbox' : inbox'[i].id \in Ends => i = Len(inbox')
    BY <1>4, <1>6
  <2> QED BY <1>1, <1>2, <1>4, <1>5, <2>1, <2>2 DEF Order, Ends, Connections
<1>9. ~Has("system_boot")'
  BY <1>1, <1>5, <1>6 DEF Has, Ends
<1>10. Opened'
  <2>1. Has("connection_opened")' => ~connection_open'
    BY <1>1, <1>2, <1>3, <1>5 DEF Opened
  <2>2. CASE inbox = << >>
    <3>1. DOMAIN inbox = {}
      BY <2>2
    <3>2. connection_open
      BY <1>2, <1>3, <3>1 DEF Copies, Has, Connections
    <3> QED BY <1>2, <2>1, <3>2 DEF Opened
  <2>3. CASE inbox # << >>
    <3>1. inbox'[1] = inbox[1]
      BY <1>3, <1>4, <2>3 DEF Types, InboxTypes
    <3> QED BY <1>2, <1>3, <2>1, <2>3, <3>1 DEF Opened
  <2> QED BY <2>2, <2>3
<1>11. Explained' /\ Copies' /\ Prompt'
  BY <1>2 DEF Explained, Copies, Prompt
<1>12. Shown' /\ QueueOK' /\ InFlight'
  BY <1>2, <1>3, <1>5 DEF Shown, DisplayMatchesFlags, QueueOK, InFlight
<1> QED BY <1>7, <1>8, <1>9, <1>10, <1>11, <1>12 DEF SInv, Fresh

LEMMA SubscribeKeeps ==
  ASSUME SInv, NEW c \in Characteristics, NEW enabled \in BOOLEAN, Subscribe(c, enabled)
  PROVE  SInv'
<1> DEFINE e == ClientConfig(c, enabled)
<1>1. /\ Post(e) /\ e \in Events /\ e.id = "characteristic_status"
      /\ e.characteristic = c /\ e.enabled = enabled
  BY EventsAreEvents DEF Subscribe
<1> HIDE DEF e
<1>2. /\ UNCHANGED <<application, link, outstanding, att_dead, pairing>>
      /\ link = "connected" /\ ~att_dead
      /\ cccd' = [cccd EXCEPT ![c] = enabled]
  BY DEF Subscribe
<1>3. /\ cccd' \in [Characteristics -> BOOLEAN] /\ cccd'[c] = enabled
      /\ \A d \in Characteristics : d # c => cccd'[d] = cccd[d]
  BY <1>2 DEF SInv, Types, StackTypes
<1> USE DEF application, gate, ble_flags, outputs
<1>4. Order' /\ Fresh' /\ Opened' /\ Explained' /\ Shown' /\ QueueOK'
  BY <1>1, <1>2, <1>3, PostedBetween DEF Between, Connections
<1>5. /\ \A id : Has(id) => Has(id)'
      /\ \A d : HasConfig(d) => HasConfig(d)'
      /\ HasConfig(c)'
      /\ inbox' \in Seq(Events) /\ Len(inbox') <= MaxInbox
  BY <1>1, PostedSays
<1>6. Types'
  <2>1. FlagTypes' /\ OutputTypes'
    BY <1>2 DEF SInv, Types, FlagTypes, OutputTypes
  <2>2. StackTypes'
    BY <1>2, <1>3 DEF SInv, Types, StackTypes
  <2> QED BY <1>5, <2>1, <2>2 DEF Types, InboxTypes
<1>7. Copies'
  <2>1. htm \in Characteristics /\ button \in Characteristics
    BY DEF Characteristics
  <2>2. Copy(ok_to_send_htm_indications, htm)'
    BY <1>2, <1>3, <1>5, <2>1 DEF SInv, Copies, Copy, HasConfig
  <2>3. Copy(ok_to_send_button_indications, button)'
    BY <1>2, <1>3, <1>5, <2>1 DEF SInv, Copies, Copy, HasConfig
  <2> QED BY <1>2, <1>5, <2>2, <2>3 DEF SInv, Copies
<1>8. InFlight' /\ Prompt'
  BY <1>2, <1>5 DEF SInv, InFlight, Prompt
<1> QED BY <1>4, <1>6, <1>7, <1>8 DEF SInv

LEMMA ConfirmKeeps ==
  ASSUME SInv, Confirm
  PROVE  SInv'
<1> DEFINE e == Confirmation(outstanding.charHandle)
<1>1. Post(e) /\ e \in Events /\ e.id = "confirmation"
  BY EventsAreEvents, RingParameters DEF Confirm, SInv, Types, StackTypes
<1> HIDE DEF e
<1>2. /\ UNCHANGED <<application, link, cccd, att_dead, pairing>>
      /\ link = "connected" /\ outstanding' = None
  BY DEF Confirm
<1> USE DEF application, gate, ble_flags, outputs
<1>3. Order' /\ Fresh' /\ Opened' /\ Explained' /\ Shown' /\ QueueOK'
  BY <1>1, <1>2, PostedBetween DEF Between, Connections
<1>4. /\ \A id : Has(id) => Has(id)'
      /\ \A d : HasConfig(d) => HasConfig(d)'
      /\ Has("confirmation")'
      /\ inbox' \in Seq(Events) /\ Len(inbox') <= MaxInbox
  BY <1>1, PostedSays
<1>5. Types'
  <2>1. FlagTypes' /\ OutputTypes'
    BY <1>2 DEF SInv, Types, FlagTypes, OutputTypes
  <2>2. StackTypes'
    BY <1>2 DEF SInv, Types, StackTypes
  <2> QED BY <1>4, <2>1, <2>2 DEF Types, InboxTypes
<1>6. Copies'
  BY <1>2, <1>4 DEF SInv, Copies, Copy, HasConfig
<1>7. InFlight' /\ Prompt'
  BY <1>2, <1>4 DEF SInv, InFlight, Prompt
<1> QED BY <1>3, <1>5, <1>6, <1>7 DEF SInv

LEMMA TimeoutKeeps ==
  ASSUME SInv, Timeout
  PROVE  SInv'
<1> DEFINE e == Event("indication_timeout")
<1>1. Post(e) /\ e \in Events /\ e.id = "indication_timeout"
  BY EventsAreEvents DEF Timeout
<1> HIDE DEF e
<1>2. /\ UNCHANGED <<application, link, cccd, pairing>>
      /\ link \in Connections /\ outstanding' = None /\ att_dead' = TRUE
  BY DEF Timeout, Connections
<1> USE DEF application, gate, ble_flags, outputs
<1>3. Order' /\ Fresh' /\ Opened' /\ Explained' /\ Shown' /\ QueueOK'
  BY <1>1, <1>2, PostedBetween DEF Between
<1>4. /\ \A id : Has(id) => Has(id)'
      /\ Has("indication_timeout")'
      /\ inbox' \in Seq(Events) /\ Len(inbox') <= MaxInbox
  BY <1>1, PostedSays
<1>5. Types'
  <2>1. FlagTypes' /\ OutputTypes'
    BY <1>2 DEF SInv, Types, FlagTypes, OutputTypes
  <2>2. StackTypes'
    BY <1>2 DEF SInv, Types, StackTypes
  <2> QED BY <1>4, <2>1, <2>2 DEF Types, InboxTypes
<1>6. Copies'
  BY <1>2, <1>4 DEF SInv, Copies, Copy
<1>7. InFlight' /\ Prompt'
  BY <1>2, <1>4 DEF SInv, InFlight, Prompt
<1> QED BY <1>3, <1>5, <1>6, <1>7 DEF SInv

LEMMA PairingKeeps ==
  ASSUME SInv, Pairing
  PROVE  SInv'
<1>1. PICK from, to, id :
        /\ PairingStep(from, to, id)
        /\ \/ from = "none" /\ to = "requested" /\ id = "sm_confirm_bonding"
           \/ from = "confirmed" /\ to = "passkey" /\ id = "sm_confirm_passkey"
           \/ from = "accepted" /\ to = "bonded" /\ id = "sm_bonded"
           \/ /\ from \in {"requested", "confirmed", "passkey", "accepted"}
              /\ to = "failed" /\ id = "sm_bonding_failed"
  BY DEF Pairing
<1> DEFINE e == Event(id)
<1>2. Post(e) /\ e \in Events /\ e.id = id
  BY <1>1, EventsAreEvents DEF PairingStep
<1> HIDE DEF e
<1>3. /\ UNCHANGED <<application, link, cccd, outstanding, att_dead>>
      /\ link = "connected" /\ pairing = from /\ pairing' = to
  BY <1>1 DEF PairingStep
<1> USE DEF application, gate, ble_flags, outputs
<1>4. Order' /\ Fresh' /\ Opened' /\ Explained' /\ Shown' /\ QueueOK'
  <2>1. /\ e.id \in Between /\ e.id # "indication_timeout" /\ e.id # "characteristic_status"
        /\ pairing = "bonded" => pairing' = "bonded"
        /\ pairing \in {"passkey", "accepted", "failed"} =>
             pairing' \in {"passkey", "accepted", "failed"} \/ e.id = "sm_bonded"
        /\ e.id = "sm_bonded" => pairing' = "bonded"
        /\ e.id = "sm_confirm_passkey" => pairing' = "passkey"
    BY <1>1, <1>2, <1>3 DEF Between
  <2> QED BY <1>2, <1>3, <2>1, PostedBetween DEF Connections
<1>5. /\ \A i : Has(i) => Has(i)'
      /\ \A c : HasConfig(c) => HasConfig(c)'
      /\ Has(id)'
      /\ inbox' \in Seq(Events) /\ Len(inbox') <= MaxInbox
  BY <1>2, PostedSays
<1>6. Types'
  <2>1. FlagTypes' /\ OutputTypes'
    BY <1>3 DEF SInv, Types, FlagTypes, OutputTypes
  <2>2. StackTypes'
    BY <1>1, <1>3 DEF SInv, Types, StackTypes
  <2> QED BY <1>5, <2>1, <2>2 DEF Types, InboxTypes
<1>7. Copies'
  <2>1. Has("sm_bonded")' \/ bonded' = (pairing' = "bonded")
    BY <1>1, <1>3, <1>5 DEF SInv, Copies, Connections
  <2> QED BY <1>3, <1>5, <2>1 DEF SInv, Copies, Copy, HasConfig
<1>8. InFlight'
  BY <1>3, <1>5 DEF SInv, InFlight
<1>9. Prompt'
  BY <1>1, <1>3, <1>5 DEF SInv, Prompt
<1> QED BY <1>4, <1>6, <1>7, <1>8, <1>9 DEF SInv

-----------------------------------------------------------------------------
LEMMA InitSInv == Init => SInv
<1> SUFFICES ASSUME Init PROVE SInv
  OBVIOUS
<1> DEFINE e == Event("system_boot")
<1>1. inbox = <<e>> /\ e \in Events /\ e.id = "system_boot"
  BY EventsAreEvents DEF Init
<1> HIDE DEF e
<1>2. /\ inbox \in Seq(Events) /\ Len(inbox) = 1 /\ DOMAIN inbox = {1} /\ inbox[1] = e
      /\ inbox # << >>
  BY <1>1
<1>3. /\ ~connection_open /\ ~ok_to_send_htm_indications
      /\ connection_open \in BOOLEAN /\ ok_to_send_htm_indications \in BOOLEAN
  BY DEF Init, TM!Init
<1>4. Has("system_boot") /\ \A id : Has(id) => id = "system_boot"
  BY <1>1, <1>2 DEF Has
<1>5. Types
  <2>1. FlagTypes
    BY <1>3 DEF Init, FlagTypes
  <2>2. OutputTypes
    BY DEF Init, OutputTypes
  <2>3. StackTypes
    BY DEF Init, StackTypes
  <2>4. Len(inbox) <= MaxInbox
    BY <1>2, ServerAssumption
  <2> QED BY <1>2, <2>1, <2>2, <2>3, <2>4 DEF Types, InboxTypes
<1>6. QueueOK
  <2>1. 0 \in Q!Slots /\ QUEUE_DEPTH \in Nat
    BY RingParameters DEF Q!Slots
  <2>2. queue \in Q!Ring /\ ~queue.buffer_full /\ queue.wptr = 0 /\ queue.rptr = 0
    BY <2>1 DEF Init, Q!InitRing, Q!Ring
  <2>3. Q!Count(queue) = 0
    BY <2>2 DEF Q!Count
  <2> QED BY <2>2, <2>3 DEF QueueOK, Q!Consistent
<1>7. Order
  BY <1>1, <1>2 DEF Init, Order, Starts, Ends
<1>8. Fresh
  BY <1>3 DEF Init, Fresh, Q!InitRing
<1>9. Opened
  BY <1>1, <1>2, <1>3 DEF Opened, Starts
<1>10. Explained /\ Copies /\ Prompt
  BY DEF Init, Explained, Copies, Prompt
<1>11. Shown /\ InFlight
  BY <1>3 DEF Init, Shown, DisplayMatchesFlags, InFlight
<1> QED BY <1>5, <1>6, <1>7, <1>8, <1>9, <1>10, <1>11 DEF SInv

LEMMA NextKeeps == SInv /\ [Next]_vars => SInv'
<1> SUFFICES ASSUME SInv, [Next]_vars PROVE SInv'
  OBVIOUS
<1>1. CASE InboxEvent
  BY <1>1, BootKeeps, ConnectionOpenedKeeps, ConnectionClosedKeeps, ConfirmBondingKeeps,
     ConfirmPasskeyKeeps, BondingFailedKeeps, BondedKeeps, TemperatureConfigKeeps,
     ButtonConfigKeeps, ConfirmedKeeps, IndicationTimeoutKeeps DEF InboxEvent
<1>2. CASE Stack
  BY <1>2, ConnectKeeps, DisconnectKeeps, SubscribeKeeps, ConfirmKeeps, TimeoutKeeps,
     PairingKeeps DEF Stack
<1>3. CASE UNCHANGED vars
  BY <1>3, IdleKeeps DEF vars
<1> QED BY <1>1, <1>2, <1>3, ExternalSignalKeeps, InterruptKeeps
        DEF Next, sl_bt_on_event, Halted

LEMMA InvariantHolds == Spec => []SInv
  BY InitSInv, NextKeeps, PTL DEF Spec

-----------------------------------------------------------------------------
(* What the properties say of the inbox, in terms of the invariant. *)

LEMMA PendingEvents ==
  ASSUME SInv
  PROVE  /\ \A id \in {"connection_opened", "connection_closed", "sm_bonded",
                       "sm_bonding_failed", "indication_timeout"} :
              Has(id) => Pending(Event(id))
         /\ \A c : HasConfig(c) => \E enabled \in BOOLEAN : Pending(ClientConfig(c, enabled))
         /\ Has("confirmation") => \E c \in Characteristics : Pending(Confirmation(c))
         /\ link = "standby" => Closing \/ Has("system_boot")
<1>1. inbox \in Seq(Events) /\ \A i \in DOMAIN inbox : inbox[i] \in Events
  BY DEF SInv, Types, InboxTypes
<1>2. ASSUME NEW id \in {"connection_opened", "connection_closed", "sm_bonded",
                         "sm_bonding_failed", "indication_timeout"}, Has(id)
      PROVE  Pending(Event(id))
  BY <1>1, <1>2, EventShape DEF Has, Pending
<1>3. ASSUME NEW c, HasConfig(c)
      PROVE  \E enabled \in BOOLEAN : Pending(ClientConfig(c, enabled))
  BY <1>1, <1>3, EventShape DEF HasConfig, Config, Pending
<1>4. ASSUME Has("confirmation")
      PROVE  \E c \in Characteristics : Pending(Confirmation(c))
  BY <1>1, <1>4, EventShape DEF Has, Pending
<1>5. ASSUME link = "standby"
      PROVE  Closing \/ Has("system_boot")
  <2>1. inbox # << >> /\ inbox[Len(inbox)].id \in Ends
    BY <1>5 DEF SInv, Order
  <2>2. Len(inbox) \in DOMAIN inbox
    BY <1>1, <2>1
  <2>3. Has("connection_closed") \/ Has("system_boot")
    BY <2>1, <2>2 DEF Has, Ends
  <2> QED BY <1>2, <2>3 DEF Closing
<1> QED BY <1>2, <1>3, <1>4, <1>5

LEMMA SInvImplies ==
  ASSUME SInv
  PROVE  FlagsFollowStack /\ OutputsFollowFlags /\ PromptEndsWithPairing
<1>1. /\ Has("connection_opened") => Pending(Event("connection_opened"))
      /\ Has("connection_closed") => Closing
      /\ Has("sm_bonded") => Pending(Event("sm_bonded"))
      /\ Has("sm_bonding_failed") => Pending(Event("sm_bonding_failed"))
      /\ Has("indication_timeout") => Pending(Event("indication_timeout"))
      /\ \A c : HasConfig(c) => \E enabled \in BOOLEAN : Pending(ClientConfig(c, enabled))
      /\ Has("confirmation") => \E c \in Characteristics : Pending(Confirmation(c))
      /\ link = "standby" => Closing \/ Has("system_boot")
  BY PendingEvents DEF Closing
<1>2. Has("system_boot") =>
        /\ ~connection_open /\ ~ok_to_send_htm_indications /\ ~ok_to_send_button_indications
        /\ ~bonded /\ ~led0 /\ ~led1
  BY DEF SInv, Fresh
<1>3. link = "standby" =>
        cccd = [c \in Characteristics |-> FALSE] /\ ~att_dead /\ pairing = "none"
  BY DEF SInv, Order, Connections
<1>4. FlagTypes
  BY DEF SInv, Types
<1>5. FlagsFollowStack
  <2>1. ASSUME NEW flag \in BOOLEAN, NEW c \in Characteristics,
               link = "standby" => Closing \/ ~flag,
               link # "standby" => Copy(flag, c)
        PROVE  Follows(flag, c)
    <3>1. CASE link = "standby"
      BY <1>3, <2>1, <3>1 DEF Follows
    <3>2. CASE link # "standby"
      BY <1>1, <2>1, <3>2 DEF Follows, Copy, HasConfig
    <3> QED BY <3>1, <3>2
  <2>2. Follows(ok_to_send_htm_indications, htm)
    BY <1>1, <1>2, <1>4, <2>1 DEF SInv, Copies, Characteristics, FlagTypes
  <2>3. Follows(ok_to_send_button_indications, button)
    BY <1>1, <1>2, <1>4, <2>1 DEF SInv, Copies, Characteristics, FlagTypes
  <2>4. \/ Closing \/ Pending(Event("connection_opened"))
        \/ connection_open = (link \in {"connected", "closing"})
    BY <1>1, <1>2, <1>4 DEF SInv, Copies, Connections, FlagTypes
  <2>5. Closing \/ Pending(Event("sm_bonded")) \/ bonded = (pairing = "bonded")
    BY <1>1, <1>2, <1>3, <1>4 DEF SInv, Copies, FlagTypes
  <2> QED BY <2>2, <2>3, <2>4, <2>5 DEF FlagsFollowStack
<1>6. OutputsFollowFlags
  BY <1>1, <1>2 DEF SInv, Shown, OutputsFollowFlags, LedsShowSubscriptions
<1>7. PromptEndsWithPairing
  <2>1. Has("system_boot") => ~display.prompt
    BY <1>2 DEF SInv, Shown, DisplayMatchesFlags
  <2> QED BY <1>1, <1>3, <2>1 DEF SInv, Prompt, PromptEndsWithPairing
<1> QED BY <1>5, <1>6, <1>7

(* For every queue, every inbox and every interrupt: the flags of ble_data *)
(* are copies of what the stack and the client hold.                       *)
THEOREM FlagsAreCopies == Spec => []FlagsFollowStack
  BY InvariantHolds, SInvImplies, PTL

(* The LEDs and the display say what the flags say.                        *)
THEOREM OutputsFollow == Spec => []OutputsFollowFlags
  BY InvariantHolds, SInvImplies, PTL

(* The prompt ends with the pairing, and a failed pairing with the link.   *)
THEOREM PromptEnds == Spec => []PromptEndsWithPairing
  BY InvariantHolds, SInvImplies, PTL

-----------------------------------------------------------------------------
(* After an indication timeout.  The stack carries no transactions any     *)
(* more, so the client's last configuration is before the timeout in the   *)
(* inbox: the handler of the timeout clears the subscriptions for good.    *)

TimedOut ==
  att_dead =>
    /\ \A i, j \in DOMAIN inbox :
         i < j /\ inbox[i].id = "indication_timeout" => inbox[j].id # "characteristic_status"
    /\ \/ Has("indication_timeout")
       \/ /\ ~ok_to_send_htm_indications /\ ~ok_to_send_button_indications
          /\ ~Has("characteristic_status")

LEMMA TimedOutPosted ==
  ASSUME SInv, TimedOut, NEW e \in Events, Post(e), e.id # "characteristic_status",
         UNCHANGED <<ok_to_send_htm_indications, ok_to_send_button_indications>>,
         UNCHANGED att_dead \/ (e.id = "indication_timeout" /\ link \in Connections)
  PROVE  TimedOut'
<1>1. /\ DOMAIN inbox = 1 .. Len(inbox) /\ DOMAIN inbox' = 1 .. Len(inbox')
      /\ Len(inbox) \in Nat /\ Len(inbox') = Len(inbox) + 1
      /\ Len(inbox') \in DOMAIN inbox' /\ inbox'[Len(inbox')] = e
      /\ \A i \in DOMAIN inbox : i \in DOMAIN inbox' /\ inbox'[i] = inbox[i]
      /\ \A i \in DOMAIN inbox' : i \in DOMAIN inbox \/ i = Len(inbox')
  BY Posted DEF SInv
<1>2. /\ \A id : Has(id) => Has(id)'
      /\ \A id : Has(id)' => Has(id) \/ id = e.id
      /\ Has(e.id)'
  BY PostedSays
<1>3. CASE att_dead /\ att_dead'
  <2>1. \A i, j \in DOMAIN inbox' :
          i < j /\ inbox'[i].id = "indication_timeout" => inbox'[j].id # "characteristic_status"
    <3> SUFFICES ASSUME NEW i \in DOMAIN inbox', NEW j \in DOMAIN inbox', i < j,
                        inbox'[i].id = "indication_timeout", j # Len(inbox')
                 PROVE  inbox'[j].id # "characteristic_status"
      BY <1>1
    <3>1. j \in DOMAIN inbox
      BY <1>1
    <3>2. i \in DOMAIN inbox
      BY <1>1, <3>1
    <3> QED BY <1>1, <1>3, <3>1, <3>2 DEF TimedOut
  <2> QED BY <1>2, <1>3, <2>1 DEF TimedOut
<1>4. CASE ~att_dead /\ att_dead'
  <2>1. e.id = "indication_timeout" /\ link # "standby"
    BY <1>4 DEF Connections
  <2>2. \A i \in DOMAIN inbox : inbox[i].id # "indication_timeout"
    BY <1>4, <2>1 DEF SInv, Explained
  <2>3. \A i \in DOMAIN inbox' : inbox'[i].id = "indication_timeout" => i = Len(inbox')
    BY <1>1, <2>2
  <2>4. \A i, j \in DOMAIN inbox' : i < j => i # Len(inbox')
    BY <1>1
  <2> QED BY <1>2, <2>1, <2>3, <2>4 DEF TimedOut
<1>5. CASE ~att_dead'
  BY <1>5 DEF TimedOut
<1>6. att_dead \in BOOLEAN
  BY DEF SInv, Types, StackTypes
<1> QED BY <1>3, <1>4, <1>5, <1>6

(* An event is handled: the flags change with a configuration, which has   *)
(* the timeout behind it, and with the timeout and the ends, which clear   *)
(* them.                                                                   *)
LEMMA TimedOutTaken ==
  ASSUME SInv, TimedOut, NEW e, Handling(e), UNCHANGED att_dead,
         \/ UNCHANGED <<ok_to_send_htm_indications, ok_to_send_button_indications>>
            /\ e.id # "indication_timeout"
         \/ e.id = "characteristic_status"
         \/ ~ok_to_send_htm_indications' /\ ~ok_to_send_button_indications'
  PROVE  TimedOut'
<1> SUFFICES ASSUME att_dead, att_dead' PROVE TimedOut'
  BY DEF TimedOut
<1>1. /\ 1 \in DOMAIN inbox /\ inbox[1] = e
      /\ DOMAIN inbox = 1 .. Len(inbox) /\ DOMAIN inbox' = 1 .. Len(inbox')
      /\ Len(inbox) \in Nat /\ Len(inbox') = Len(inbox) - 1
      /\ \A i \in DOMAIN inbox' : i + 1 \in DOMAIN inbox /\ inbox'[i] = inbox[i + 1]
  BY Taken DEF SInv
<1>2. /\ \A id : Has(id) /\ e.id # id => Has(id)'
      /\ \A id : Has(id)' => Has(id)
      /\ Has(e.id)
  BY HandledLeaves
<1>3. \A i, j \in DOMAIN inbox' :
        i < j /\ inbox'[i].id = "indication_timeout" => inbox'[j].id # "characteristic_status"
  <2> SUFFICES ASSUME NEW i \in DOMAIN inbox', NEW j \in DOMAIN inbox', i < j,
                      inbox'[i].id = "indication_timeout"
               PROVE  inbox'[j].id # "characteristic_status"
    OBVIOUS
  <2>1. i + 1 \in DOMAIN inbox /\ j + 1 \in DOMAIN inbox /\ i + 1 < j + 1
        /\ inbox'[i] = inbox[i + 1] /\ inbox'[j] = inbox[j + 1]
    BY <1>1
  <2> QED BY <2>1 DEF TimedOut
<1>4. e.id = "indication_timeout" => ~Has("characteristic_status")'
  <2> SUFFICES ASSUME e.id = "indication_timeout", NEW i \in DOMAIN inbox'
               PROVE  inbox'[i].id # "characteristic_status"
    BY DEF Has
  <2>1. i + 1 \in DOMAIN inbox /\ 1 < i + 1 /\ inbox'[i] = inbox[i + 1]
    BY <1>1
  <2> QED BY <1>1, <2>1 DEF TimedOut
<1>5. CASE Has("indication_timeout")'
  BY <1>3, <1>5 DEF TimedOut
<1>6. CASE ~Has("indication_timeout")' /\ Has("indication_timeout")
  <2>1. e.id = "indication_timeout"
    BY <1>2, <1>6
  <2>2. ~ok_to_send_htm_indications' /\ ~ok_to_send_button_indications'
    BY <2>1
  <2> QED BY <1>3, <1>4, <2>1, <2>2 DEF TimedOut
<1>7. CASE ~Has("indication_timeout")
  <2>1. /\ ~ok_to_send_htm_indications /\ ~ok_to_send_button_indications
        /\ ~Has("characteristic_status")
    BY <1>7 DEF TimedOut
  <2>2. e.id # "characteristic_status" /\ ~Has("characteristic_status")'
    BY <1>2, <2>1
  <2>3. ~ok_to_send_htm_indications' /\ ~ok_to_send_button_indications'
    BY <2>1, <2>2
  <2> QED BY <1>3, <2>2, <2>3 DEF TimedOut
<1> QED BY <1>5, <1>6, <1>7

LEMMA TimedOutKept == SInv /\ TimedOut /\ [Next]_vars => TimedOut'
<1> SUFFICES ASSUME SInv, TimedOut, [Next]_vars PROVE TimedOut'
  OBVIOUS
<1>1. CASE UNCHANGED <<inbox, att_dead, ok_to_send_htm_indications,
                       ok_to_send_button_indications>>
  BY <1>1 DEF TimedOut, Has
<1>2. ExternalSignal \/ Interrupt \/ Halted \/ UNCHANGED vars =>
        UNCHANGED <<inbox, att_dead, ok_to_send_htm_indications, ok_to_send_button_indications>>
  BY DEF ExternalSignal, ButtonPressed, ButtonReleased, MachineSignal, Interrupt, Halted, vars,
         gate, ble_flags, stack, TM!LETIMER0_IRQHandler, TM!I2C0_IRQHandler_Done,
         TM!I2C0_IRQHandler_Error, TM!GPIO_EVEN_IRQHandler, TM!gate
<1>3. CASE InboxEvent
  <2> USE EventsAreEvents DEF gate, ble_flags, stack
  <2>1. CASE Boot \/ ConnectionClosed
    BY <2>1, TimedOutTaken DEF Boot, ConnectionClosed
  <2>2. CASE ConnectionOpened \/ ConfirmBonding \/ ConfirmPasskey \/ BondingFailed \/ Bonded
    BY <2>2, TimedOutTaken DEF ConnectionOpened, ConfirmBonding, ConfirmPasskey, BondingFailed,
                               Bonded
  <2>3. CASE \E enabled \in BOOLEAN : TemperatureConfig(enabled) \/ ButtonConfig(enabled)
    <3>1. htm \in Characteristics /\ button \in Characteristics
      BY DEF Characteristics
    <3> QED BY <2>3, <3>1, TimedOutTaken DEF TemperatureConfig, ButtonConfig
  <2>4. CASE \E c \in Characteristics : Confirmed(c)
    BY <2>4, TimedOutTaken DEF Confirmed
  <2>5. CASE IndicationTimeout
    BY <2>5, TimedOutTaken DEF IndicationTimeout
  <2> QED BY <1>3, <2>1, <2>2, <2>3, <2>4, <2>5 DEF InboxEvent
<1>4. CASE Stack
  <2> USE EventsAreEvents DEF application, gate, ble_flags
  <2>1. CASE Connect
    BY <2>1, TimedOutPosted DEF Connect
  <2>2. CASE Disconnect
    BY <2>2 DEF Disconnect, TimedOut
  <2>3. CASE \E c \in Characteristics, enabled \in BOOLEAN : Subscribe(c, enabled)
    BY <2>3 DEF Subscribe, TimedOut
  <2>4. CASE Confirm
    <3>1. outstanding.charHandle \in Characteristics
      BY <2>4, RingParameters DEF Confirm, SInv, Types, StackTypes
    <3> QED BY <2>4, <3>1, TimedOutPosted DEF Confirm
  <2>5. CASE Timeout
    BY <2>5, TimedOutPosted DEF Timeout, Connections
  <2>6. CASE Pairing
    BY <2>6, TimedOutPosted DEF Pairing, PairingStep
  <2> QED BY <1>4, <2>1, <2>2, <2>3, <2>4, <2>5, <2>6 DEF Stack
<1> QED BY <1>1, <1>2, <1>3, <1>4 DEF Next, sl_bt_on_event

(* indication_in_flight is set only while something clears it, but for the *)
(* indication timeout, whose handler leaves it set: from then on, until the*)
(* disconnection, neither value is sent or queued.                         *)
THEOREM InFlightExplained == Spec => []InFlightIsExplained
<1>1. Init => TimedOut
  BY DEF Init, TimedOut
<1>2. Spec => []TimedOut
  BY <1>1, InvariantHolds, TimedOutKept, PTL DEF Spec
<1>3. SInv /\ TimedOut => InFlightIsExplained
  <2> SUFFICES ASSUME SInv, TimedOut PROVE InFlightIsExplained
    OBVIOUS
  <2>1. /\ Has("indication_timeout") => Pending(Event("indication_timeout"))
        /\ Has("connection_closed") => Closing
        /\ Has("confirmation") => \E c \in Characteristics : Pending(Confirmation(c))
    BY PendingEvents DEF Closing
  <2> QED BY <2>1 DEF SInv, InFlight, TimedOut, InFlightIsExplained
<1> QED BY <1>2, <1>3, InvariantHolds, PTL

-----------------------------------------------------------------------------
(* The server's machine is TemperatureMachine: the handlers change its gate*)
(* as the machine's own actions do.                                        *)

LEMMA HandlingOpen ==
  ASSUME SInv, NEW e, Handling(e), e.id \notin Starts
  PROVE  connection_open
  BY Taken DEF SInv, Opened, Handling

LEMMA StepImplements ==
  ASSUME SInv, [Next]_vars
  PROVE  [TM!Next]_(TM!vars)
<1> USE DEF gate, TM!gate, machine, TM!machine, TM!vars
<1>1. ASSUME UNCHANGED <<machine, gate>>
      PROVE  [TM!Next]_(TM!vars)
  BY <1>1
<1>2. CASE Boot
  <2>1. Has("system_boot")
    BY <1>2, EventsAreEvents, HandledLeaves DEF Boot
  <2>2. connection_open = FALSE /\ ok_to_send_htm_indications = FALSE
    BY <2>1 DEF SInv, Fresh, Types, FlagTypes
  <2>3. UNCHANGED <<machine, gate>>
    BY <1>2, <2>2 DEF Boot
  <2> QED BY <1>1, <2>3
<1>3. CASE ConnectionOpened
  <2>1. Has("connection_opened")
    BY <1>3, EventsAreEvents, HandledLeaves DEF ConnectionOpened
  <2>2. TM!ConnectionOpened
    BY <1>3, <2>1 DEF SInv, Opened, ConnectionOpened, TM!ConnectionOpened
  <2> QED BY <2>2 DEF TM!Next
<1>4. CASE ConnectionClosed
  <2>1. connection_open
    BY <1>4, EventsAreEvents, HandlingOpen DEF ConnectionClosed, Starts
  <2>2. TM!ConnectionClosed
    BY <1>4, <2>1 DEF ConnectionClosed, TM!ConnectionClosed
  <2> QED BY <2>2 DEF TM!Next
<1>5. ASSUME NEW enabled \in BOOLEAN, TemperatureConfig(enabled)
      PROVE  [TM!Next]_(TM!vars)
  <2>1. connection_open
    BY <1>5, EventsAreEvents, HandlingOpen DEF TemperatureConfig, Starts, Characteristics
  <2>2. TM!ClientConfig(enabled)
    BY <1>5, <2>1 DEF TemperatureConfig, TM!ClientConfig
  <2> QED BY <2>2 DEF TM!Next
<1>6. CASE IndicationTimeout
  <2>1. connection_open
    BY <1>6, EventsAreEvents, HandlingOpen DEF IndicationTimeout, Starts
  <2>2. TM!IndicationTimeout
    BY <1>6, <2>1 DEF IndicationTimeout, TM!IndicationTimeout
  <2> QED BY <2>2 DEF TM!Next
<1>7. CASE InboxEvent
  <2>1. ASSUME \/ ConfirmBonding \/ ConfirmPasskey \/ BondingFailed \/ Bonded
               \/ \E enabled \in BOOLEAN : ButtonConfig(enabled)
               \/ \E c \in Characteristics : Confirmed(c)
        PROVE  UNCHANGED <<machine, gate>>
    BY <2>1 DEF ConfirmBonding, ConfirmPasskey, BondingFailed, Bonded, ButtonConfig, Confirmed
  <2> QED BY <1>1, <1>2, <1>3, <1>4, <1>5, <1>6, <1>7, <2>1 DEF InboxEvent
<1>8. CASE ExternalSignal
  <2>1. /\ signals # {} /\ signals' = {} /\ UNCHANGED gate
        /\ TM!temperature_state_machine(signals)
    BY <1>8 DEF ExternalSignal, ButtonPressed, ButtonReleased, MachineSignal, Delivering,
                TM!temperature_state_machine
  <2> QED BY <2>1 DEF TM!Next, TM!ExternalSignal
<1>9. CASE Interrupt
  BY <1>9 DEF Interrupt, TM!Next
<1>10. CASE Stack
  <2>1. UNCHANGED <<machine, gate>>
    BY <1>10 DEF Stack, Connect, Disconnect, Subscribe, Confirm, Timeout, Pairing, PairingStep,
                 application
  <2> QED BY <1>1, <2>1
<1>11. CASE UNCHANGED vars
  BY <1>1, <1>11 DEF vars
<1> QED BY <1>7, <1>8, <1>9, <1>10, <1>11 DEF Next, sl_bt_on_event, Halted

(* The machine under the stack's real events is TemperatureMachine, so all *)
(* that is proved of that module holds of the server.                      *)
THEOREM ServerImplementsMachine == Spec => ImplementsMachine
<1>1. Init => TM!Init
  BY DEF Init
<1>2. SInv /\ [Next]_vars => [TM!Next]_(TM!vars)
  BY StepImplements
<1> QED BY <1>1, <1>2, InvariantHolds, PTL DEF Spec, ImplementsMachine, TM!Spec

-----------------------------------------------------------------------------
MP == INSTANCE TemperatureMachineProofs

LEMMA SameMachine ==
  /\ TM!Init <=> MP!Init
  /\ [TM!Next]_(TM!vars) => [MP!Next]_(MP!vars)
  /\ MP!TypeOK <=> TM!TypeOK
  /\ MP!EM1HeldForTransfer <=> TM!EM1HeldForTransfer
  /\ MP!WakeupBelongsToWait <=> TM!WakeupBelongsToWait
<1>1. TM!Init <=> MP!Init
  BY DEF TM!Init, MP!Init
<1>2. TM!Next <=> MP!Next
  BY DEF TM!Next, MP!Next, TM!vars, MP!vars, TM!machine, MP!machine, TM!gate,
       MP!gate, TM!LETIMER0_Flags, MP!LETIMER0_Flags, TM!LETIMER0_IRQHandler,
       MP!LETIMER0_IRQHandler, TM!I2C0_IRQHandler_Done, MP!I2C0_IRQHandler_Done,
       TM!I2C0_IRQHandler_Error, MP!I2C0_IRQHandler_Error, TM!ButtonSignals,
       MP!ButtonSignals, TM!GPIO_EVEN_IRQHandler, MP!GPIO_EVEN_IRQHandler,
       TM!ExternalSignal, MP!ExternalSignal, TM!temperature_state_machine,
       MP!temperature_state_machine, TM!StartMeasurement, MP!StartMeasurement,
       TM!SendCommand, MP!SendCommand, TM!CommandSent, MP!CommandSent,
       TM!ReadResponse, MP!ReadResponse, TM!ReportTemperature, MP!ReportTemperature,
       TM!Ignored, MP!Ignored, TM!Awaited, MP!Awaited, TM!Gate, MP!Gate,
       TM!timerWaitUs_irq, MP!timerWaitUs_irq, TM!I2C_TransferInit, MP!I2C_TransferInit,
       TM!add_em1_requirement, MP!add_em1_requirement, TM!remove_em1_requirement,
       MP!remove_em1_requirement, TM!ConnectionOpened, MP!ConnectionOpened,
       TM!ConnectionClosed, MP!ConnectionClosed, TM!ClientConfig, MP!ClientConfig,
       TM!IndicationTimeout, MP!IndicationTimeout
<1>3. UNCHANGED TM!vars <=> UNCHANGED MP!vars
  BY DEF TM!vars, MP!vars, TM!machine, MP!machine, TM!gate, MP!gate
<1>4. [TM!Next]_(TM!vars) => [MP!Next]_(MP!vars)
  <2>1. ASSUME TM!Next PROVE [MP!Next]_(MP!vars)
    BY <1>2, <2>1
  <2>2. ASSUME UNCHANGED TM!vars PROVE [MP!Next]_(MP!vars)
    BY <1>3, <2>2
  <2> QED BY <2>1, <2>2
<1>5. MP!TypeOK <=> TM!TypeOK
  BY DEF MP!TypeOK, TM!TypeOK, MP!States, TM!States, MP!Signals, TM!Signals,
         MP!ButtonSignals, TM!ButtonSignals
<1>6. MP!EM1HeldForTransfer <=> TM!EM1HeldForTransfer
  BY DEF MP!EM1HeldForTransfer, TM!EM1HeldForTransfer
<1>7. MP!WakeupBelongsToWait <=> TM!WakeupBelongsToWait
  BY DEF MP!WakeupBelongsToWait, TM!WakeupBelongsToWait
<1> QED BY <1>1, <1>4, <1>5, <1>6, <1>7

(* Through reconnections, resubscriptions, timeouts and lost indications   *)
(* EM1 is held exactly while the server waits for a transfer, and the      *)
(* wake-up on its way is the current wait's.                               *)
THEOREM ServerMachineInvariant ==
  Spec => [](TM!TypeOK /\ TM!EM1HeldForTransfer /\ TM!WakeupBelongsToWait)
<1>1. MP!Spec => [](MP!TypeOK /\ MP!EM1HeldForTransfer /\ MP!WakeupBelongsToWait)
  BY MP!MachineInvariant DEF MP!MachineInvariant
<1>2. TM!Init => MP!Init
  BY SameMachine
<1>3. [TM!Next]_(TM!vars) => [MP!Next]_(MP!vars)
  BY SameMachine
<1>4. MP!TypeOK /\ MP!EM1HeldForTransfer /\ MP!WakeupBelongsToWait
        => TM!TypeOK /\ TM!EM1HeldForTransfer /\ TM!WakeupBelongsToWait
  BY SameMachine
<1> QED BY <1>1, <1>2, <1>3, <1>4, ServerImplementsMachine, PTL
        DEF ImplementsMachine, TM!Spec, MP!Spec

(* Type correctness; the queue is a ring of indications.                   *)
THEOREM ServerTypes == Spec => []TypeOK
<1>1. SInv /\ TM!TypeOK => TypeOK
  BY DEF SInv, Types, FlagTypes, OutputTypes, StackTypes, InboxTypes, QueueOK, TypeOK, Connections
<1> QED BY <1>1, InvariantHolds, ServerMachineInvariant, PTL

(* The ring of a running server is consistent although the boot event      *)
(* resets its pointers and leaves buffer_full and the entries: nothing can *)
(* have been queued before it.                                             *)
THEOREM ServerQueueConsistent == Spec => [](queue \in Q!Ring /\ Q!Consistent(queue))
<1>1. SInv => queue \in Q!Ring /\ Q!Consistent(queue)
  BY DEF SInv, QueueOK
<1> QED BY <1>1, InvariantHolds, PTL

LEMMA SameStep ==
  /\ UNCHANGED TM!vars <=> UNCHANGED MP!vars
  /\ TM!I2C0_IRQHandler_Error <=> MP!I2C0_IRQHandler_Error
  /\ TM!Stalled <=> MP!Stalled
  /\ TM!Stalled' <=> MP!Stalled'
  /\ TM!Awaited = MP!Awaited
  /\ TM!Gate <=> MP!Gate
<1>1. TM!Awaited = MP!Awaited
  BY DEF TM!Awaited, MP!Awaited
<1>2. TM!Stalled <=> MP!Stalled
  BY DEF TM!Stalled, MP!Stalled, TM!Awaited, MP!Awaited
<1>3. TM!Stalled' <=> MP!Stalled'
  BY DEF TM!Stalled, MP!Stalled, TM!Awaited, MP!Awaited
<1>4. TM!I2C0_IRQHandler_Error <=> MP!I2C0_IRQHandler_Error
  BY DEF TM!I2C0_IRQHandler_Error, MP!I2C0_IRQHandler_Error, TM!gate, MP!gate
<1>5. UNCHANGED TM!vars <=> UNCHANGED MP!vars
  BY DEF TM!vars, MP!vars, TM!machine, MP!machine, TM!gate, MP!gate
<1>6. TM!Gate <=> MP!Gate
  BY DEF TM!Gate, MP!Gate
<1> QED BY <1>1, <1>2, <1>3, <1>4, <1>5, <1>6

(* No step of the server's machine, under the stack's real events, starts  *)
(* a transfer over another or reports a temperature nobody measured; it    *)
(* stalls only for one of the causes TemperatureMachine names, for good.   *)
THEOREM ServerMachineSteps ==
  Spec => TM!NoTransferOverrun /\ TM!ReportIsFresh /\ TM!StallHasCause /\ TM!StallIsForever
<1>1. TM!Init => MP!Init
  BY SameMachine
<1>2. [TM!Next]_(TM!vars) => [MP!Next]_(MP!vars)
  BY SameMachine
<1>3. Spec => MP!Spec
  BY <1>1, <1>2, ServerImplementsMachine, PTL DEF ImplementsMachine, TM!Spec, MP!Spec
<1>4. Spec => TM!NoTransferOverrun
  <2>1. [i2c # "none" => i2c' \in {i2c, "none"}]_(MP!vars)
          => [i2c # "none" => i2c' \in {i2c, "none"}]_(TM!vars)
    BY SameStep
  <2>2. MP!Spec => [][i2c # "none" => i2c' \in {i2c, "none"}]_(MP!vars)
    BY MP!TransfersDoNotOverlap DEF MP!NoTransferOverrun
  <2> QED BY <1>3, <2>1, <2>2, PTL DEF TM!NoTransferOverrun
<1>5. Spec => TM!ReportIsFresh
  <2> DEFINE A == next_state = "STATE_I2C_READ_COMPLETE" /\ next_state' = "STATE_IDLE"
                    => read_data = "measured"
  <2>1. [A]_(MP!vars) => [A]_(TM!vars)
    BY SameStep
  <2>2. MP!Spec => [][A]_(MP!vars)
    BY MP!ReportsAreFresh DEF MP!ReportIsFresh
  <2> QED BY <1>3, <2>1, <2>2, PTL DEF TM!ReportIsFresh
<1>6. Spec => TM!StallHasCause
  <2> DEFINE A == ~TM!Stalled /\ TM!Stalled' =>
                    \/ TM!I2C0_IRQHandler_Error
                    \/ signals' = {} /\ TM!Awaited \in signals
                         /\ (~TM!Gate \/ signals # {TM!Awaited})
             B == ~MP!Stalled /\ MP!Stalled' =>
                    \/ MP!I2C0_IRQHandler_Error
                    \/ signals' = {} /\ MP!Awaited \in signals
                         /\ (~MP!Gate \/ signals # {MP!Awaited})
  <2>1. [B]_(MP!vars) => [A]_(TM!vars)
    BY SameStep
  <2>2. MP!Spec => [][B]_(MP!vars)
    BY MP!StallsHaveCauses DEF MP!StallHasCause
  <2> QED BY <1>3, <2>1, <2>2, PTL DEF TM!StallHasCause
<1>7. Spec => TM!StallIsForever
  <2>1. [MP!Stalled => MP!Stalled']_(MP!vars) => [TM!Stalled => TM!Stalled']_(TM!vars)
    BY SameStep
  <2>2. MP!Spec => [][MP!Stalled => MP!Stalled']_(MP!vars)
    BY MP!StallsAreForever DEF MP!StallIsForever
  <2> QED BY <1>3, <2>1, <2>2, PTL DEF TM!StallIsForever
<1> QED BY <1>4, <1>5, <1>6, <1>7

(* And a measurement goes on over the server: what it waits for is due,    *)
(* and each delivery of it takes the measurement one state on.             *)
THEOREM ServerMeasures == Spec => []MP!WakeupIsDue /\ MP!MeasurementComesCloser
<1>1. TM!Init => MP!Init
  BY SameMachine
<1>2. [TM!Next]_(TM!vars) => [MP!Next]_(MP!vars)
  BY SameMachine
<1>3. Spec => MP!Spec
  BY <1>1, <1>2, ServerImplementsMachine, PTL DEF ImplementsMachine, TM!Spec, MP!Spec
<1> QED BY <1>3, MP!MeasurementsComeCloser

-----------------------------------------------------------------------------
(* The queue between the handlers.  Only a call of write_queue adds to it  *)
(* and only a confirmation takes from it; nothing else may touch it, and   *)
(* the boot event, which resets the pointers, finds it empty.              *)

QueueKeepsOrder ==
  [][LET old == Q!Contents(queue)
         new == Q!Contents(queue')
     IN  \/ new = old
         \/ /\ indication_in_flight /\ Len(old) < QUEUE_DEPTH
            /\ \E d \in Indications : new = Append(old, d)
         \/ /\ old # << >> /\ new = Tail(old)
            /\ indication_in_flight' = FALSE
            /\ outstanding' = IF Refused(Head(old)) THEN outstanding ELSE Head(old)]_vars

LEMMA SameContents == \A q : QP!Contents(q) = Q!Contents(q)
  BY DEF QP!Contents, Q!Contents, QP!Count, Q!Count, QP!SlotAt, Q!SlotAt

LEMMA SendKeepsOrder ==
  ASSUME QueueOK, NEW d \in Indications, SendOrQueue(d)
  PROVE  \/ Q!Contents(queue') = Q!Contents(queue)
         \/ /\ indication_in_flight /\ Len(Q!Contents(queue)) < QUEUE_DEPTH
            /\ Q!Contents(queue') = Append(Q!Contents(queue), d)
<1>1. queue \in QP!Ring /\ QP!Consistent(queue) /\ d \in QP!ValidData
  BY SameRing DEF QueueOK
<1>2. CASE queue' = queue
  BY <1>2
<1>3. CASE queue' # queue
  <2>1. indication_in_flight /\ queue' = Q!write_queue(queue, d)
    BY <1>3 DEF SendOrQueue
  <2>2. ~queue.buffer_full
    BY <1>3, <2>1 DEF Q!write_queue, Q!Accepts
  <2>3. /\ QP!Count(queue) < QUEUE_DEPTH
        /\ QP!Contents(QP!write_queue(queue, d)) = Append(QP!Contents(queue), d)
    BY <1>1, <2>2, RingParameters, QP!WriteAppends DEF QP!WriteAppends
  <2>4. Len(QP!Contents(queue)) = QP!Count(queue)
    BY <1>1, RingParameters, QP!ContentsSeq DEF QP!ContentsSeq
  <2> QED BY <2>1, <2>3, <2>4, SameRing, SameContents
<1> QED BY <1>2, <1>3

LEMMA ConfirmationTakesHead ==
  ASSUME QueueOK, NEW c \in Characteristics, Confirmed(c), queue' # queue
  PROVE  /\ Q!Contents(queue) # << >> /\ Q!Contents(queue') = Tail(Q!Contents(queue))
         /\ indication_in_flight' = FALSE
         /\ outstanding' = IF Refused(Head(Q!Contents(queue))) THEN outstanding
                           ELSE Head(Q!Contents(queue))
<1>1. /\ ~Q!IsEmpty(queue) /\ queue' = Q!read_queue(queue)
      /\ indication_in_flight' = FALSE
      /\ send_indication(queue.indication_buffer[queue.rptr])
  BY DEF Confirmed
<1>2. queue \in QP!Ring /\ QP!Consistent(queue) /\ ~QP!IsEmpty(queue)
  BY <1>1, SameRing DEF QueueOK
<1>3. /\ QP!Contents(queue) # << >>
      /\ Head(QP!Contents(queue)) = queue.indication_buffer[queue.rptr]
      /\ QP!Contents(QP!read_queue(queue)) = Tail(QP!Contents(queue))
  BY <1>2, RingParameters, QP!ReadTakesHead DEF QP!ReadTakesHead
<1> QED BY <1>1, <1>3, SameRing, SameContents DEF send_indication

LEMMA BootFindsEmpty ==
  ASSUME SInv, Boot
  PROVE  Q!Contents(queue') = Q!Contents(queue)
<1>1. Has("system_boot")
  BY EventsAreEvents, HandledLeaves DEF Boot
<1>2. ~queue.buffer_full /\ queue.wptr = queue.rptr /\ queue \in Q!Ring
  BY <1>1 DEF SInv, Fresh, QueueOK
<1>3. queue' = Q!BootRing(queue)
  BY DEF Boot
<1>4. /\ ~queue'.buffer_full /\ queue'.wptr = 0 /\ queue'.rptr = 0
      /\ queue.wptr \in Int /\ queue.rptr \in Int
  BY <1>2, <1>3 DEF Q!BootRing, Q!Ring, Q!Slots
<1>5. Q!Count(queue) = 0 /\ Q!Count(queue') = 0
  BY <1>2, <1>4 DEF Q!Count
<1>6. 1 .. 0 = {}
  OBVIOUS
<1> QED BY <1>5, <1>6 DEF Q!Contents

(* Whatever connects, confirms, times out or leaves: an indication that    *)
(* the handlers put off is added behind those that wait, while one is in   *)
(* flight and a slot is free, and they go to the stack one for each        *)
(* confirmation, the oldest first; no other step adds, drops or reorders.  *)
THEOREM QueueOrderKept == Spec => QueueKeepsOrder
<1> DEFINE A == LET old == Q!Contents(queue)
                    new == Q!Contents(queue')
                IN  \/ new = old
                    \/ /\ indication_in_flight /\ Len(old) < QUEUE_DEPTH
                       /\ \E d \in Indications : new = Append(old, d)
                    \/ /\ old # << >> /\ new = Tail(old)
                       /\ indication_in_flight' = FALSE
                       /\ outstanding' = IF Refused(Head(old)) THEN outstanding ELSE Head(old)
<1>1. SInv /\ [Next]_vars => [A]_vars
  <2> SUFFICES ASSUME SInv, Next PROVE A
    OBVIOUS
  <2>1. QueueOK
    BY DEF SInv
  <2>2. ASSUME UNCHANGED queue PROVE A
    BY <2>2
  <2>3. ASSUME NEW d \in Indications, SendOrQueue(d) PROVE A
    BY <2>1, <2>3, SendKeepsOrder
  <2>4. CASE Boot
    BY <2>4, BootFindsEmpty
  <2>5. ASSUME NEW c \in Characteristics, Confirmed(c) PROVE A
    BY <2>1, <2>2, <2>5, ConfirmationTakesHead
  <2>6. CASE InboxEvent
    <3>1. ASSUME \/ ConnectionOpened \/ ConnectionClosed
                 \/ ConfirmBonding \/ ConfirmPasskey \/ BondingFailed \/ Bonded
                 \/ \E enabled \in BOOLEAN : TemperatureConfig(enabled) \/ ButtonConfig(enabled)
                 \/ IndicationTimeout
          PROVE  UNCHANGED queue
      BY <3>1 DEF ConnectionOpened, ConnectionClosed, ConfirmBonding, ConfirmPasskey,
                  BondingFailed, Bonded, TemperatureConfig, ButtonConfig, IndicationTimeout,
                  ble_flags, stack
    <3> QED BY <2>2, <2>4, <2>5, <2>6, <3>1 DEF InboxEvent
  <2>7. CASE ExternalSignal
    <3>1. {ButtonIndication(0), ButtonIndication(1)} \subseteq Indications
          /\ \A t \in Temperatures : TemperatureIndication(t) \in Indications
      BY DEF Indications
    <3>2. queue' = queue \/ \E d \in Indications : SendOrQueue(d)
      BY <2>7, <3>1 DEF ExternalSignal, ButtonPressed, ButtonReleased, MachineSignal,
                        ble_send_button_state, ble_send_temp_value
    <3> QED BY <2>2, <2>3, <3>2
  <2>8. CASE Interrupt \/ Stack \/ Halted
    <3>1. UNCHANGED queue
      BY <2>8 DEF Interrupt, Stack, Halted, Connect, Disconnect, Subscribe, Confirm, Timeout,
                  Pairing, PairingStep, application, ble_flags, vars
    <3> QED BY <2>2, <3>1
  <2> QED BY <2>6, <2>7, <2>8 DEF Next, sl_bt_on_event
<1> QED BY <1>1, InvariantHolds, PTL DEF Spec, QueueKeepsOrder

-----------------------------------------------------------------------------
(* The way back to advertising.  What is left to fairness is that the main *)
(* loop takes the events.                                                  *)

AdvertisingIsDue ==
  link = "standby" =>
    /\ inbox # << >>
    /\ inbox[Len(inbox)] \in {Event("system_boot"), Event("connection_closed")}

AdvertisingComesCloser ==
  [][link = "standby" =>
       IF InboxEvent
       THEN /\ Len(inbox') = Len(inbox) - 1
            /\ link' = IF inbox' = << >> THEN "advertising" ELSE "standby"
       ELSE UNCHANGED <<link, inbox>>]_vars

LEMMA EndIsLast ==
  ASSUME SInv, link = "standby"
  PROVE  AdvertisingIsDue
<1>1. inbox \in Seq(Events) /\ inbox # << >> /\ inbox[Len(inbox)].id \in Ends
  BY DEF SInv, Types, InboxTypes, Order
<1>2. inbox[Len(inbox)] \in Events
  BY <1>1
<1> QED BY <1>1, <1>2, EventShape DEF AdvertisingIsDue, Ends

LEMMA StandbyStep ==
  ASSUME SInv, Next, link = "standby"
  PROVE  IF InboxEvent
         THEN /\ Len(inbox') = Len(inbox) - 1
              /\ link' = IF inbox' = << >> THEN "advertising" ELSE "standby"
         ELSE UNCHANGED <<link, inbox>>
<1>0. Types /\ Order
  BY DEF SInv
<1>1. ASSUME NEW e, Handling(e), e.id \in Ends, link' = "advertising"
      PROVE  Len(inbox') = Len(inbox) - 1 /\ inbox' = << >>
  BY <1>0, <1>1, HandledEnd, Taken
<1>2. ASSUME NEW e, Handling(e), e.id \notin Ends, link' = link
      PROVE  Len(inbox') = Len(inbox) - 1 /\ inbox' # << >>
  <2>1. /\ Len(inbox) \in Nat /\ Len(inbox') = Len(inbox) - 1 /\ inbox' \in Seq(Events)
        /\ inbox[1] = e
    BY <1>0, <1>2, Taken
  <2>2. Len(inbox) # 1
    BY <1>0, <1>2, <2>1 DEF Order
  <2> QED BY <1>2, <2>1, <2>2
<1>3. CASE Boot \/ ConnectionClosed
  <2>1. \E e : Handling(e) /\ e.id \in Ends /\ link' = "advertising"
    BY <1>3, EventsAreEvents DEF Boot, ConnectionClosed, legacy_advertiser_start, Ends
  <2>2. InboxEvent
    BY <1>3 DEF InboxEvent
  <2> QED BY <1>1, <2>1, <2>2
<1>4. CASE \/ ConnectionOpened
           \/ ConfirmBonding \/ ConfirmPasskey \/ BondingFailed \/ Bonded
           \/ \E enabled \in BOOLEAN : TemperatureConfig(enabled) \/ ButtonConfig(enabled)
           \/ \E c \in Characteristics : Confirmed(c)
           \/ IndicationTimeout
  <2>1. \E e : Handling(e) /\ e.id \notin Ends /\ link' = link
    <3>1. CASE ConnectionOpened \/ ConfirmBonding \/ ConfirmPasskey \/ BondingFailed \/ Bonded
               \/ IndicationTimeout
      BY <3>1, EventsAreEvents DEF ConnectionOpened, ConfirmBonding, ConfirmPasskey,
         BondingFailed, Bonded, IndicationTimeout, stack, Ends
    <3>2. CASE \E enabled \in BOOLEAN : TemperatureConfig(enabled) \/ ButtonConfig(enabled)
      BY <3>2, EventsAreEvents DEF TemperatureConfig, ButtonConfig, stack, Ends, Characteristics
    <3>3. CASE \E c \in Characteristics : Confirmed(c)
      BY <3>3, EventsAreEvents DEF Confirmed, Ends
    <3> QED BY <1>4, <3>1, <3>2, <3>3
  <2>2. InboxEvent
    BY <1>4 DEF InboxEvent
  <2> QED BY <1>2, <2>1, <2>2
<1>5. CASE InboxEvent
  BY <1>3, <1>4, <1>5 DEF InboxEvent
<1>6. CASE ~InboxEvent
  <2>1. ~Stack
    <3>1. ~Connect /\ ~Disconnect /\ ~Confirm /\ ~Pairing
      BY DEF Connect, Disconnect, Confirm, Pairing, PairingStep
    <3>2. ~Timeout /\ ~\E c \in Characteristics, enabled \in BOOLEAN : Subscribe(c, enabled)
      BY DEF Timeout, Subscribe
    <3> QED BY <3>1, <3>2 DEF Stack
  <2>2. UNCHANGED <<link, inbox>>
    <3>1. CASE ExternalSignal
      BY <3>1 DEF ExternalSignal, ButtonPressed, ButtonReleased, MachineSignal
    <3>2. CASE Interrupt \/ Halted
      BY <3>2 DEF Interrupt, Halted, vars, stack
    <3> QED BY <1>6, <2>1, <3>1, <3>2 DEF Next, sl_bt_on_event
  <2> QED BY <1>6, <2>2
<1> QED BY <1>5, <1>6

(* A server without a link has the event that makes it advertise at the    *)
(* end of its inbox, and no step delays it: each event that is handled     *)
(* brings it one closer, the last one starts the advertising, and nothing  *)
(* else adds, removes or reconnects.                                       *)
THEOREM AdvertisingComes == Spec => []AdvertisingIsDue /\ AdvertisingComesCloser
<1> DEFINE A == link = "standby" =>
                  IF InboxEvent
                  THEN /\ Len(inbox') = Len(inbox) - 1
                       /\ link' = IF inbox' = << >> THEN "advertising" ELSE "standby"
                  ELSE UNCHANGED <<link, inbox>>
<1>1. SInv => AdvertisingIsDue
  BY EndIsLast DEF AdvertisingIsDue
<1>2. SInv /\ [Next]_vars => [A]_vars
  BY StandbyStep
<1> QED BY <1>1, <1>2, InvariantHolds, PTL DEF Spec, AdvertisingComesCloser

-----------------------------------------------------------------------------
(* The end of a connection whose pairing failed. *)

Failure == Event("sm_bonding_failed")

(* The link is being closed, or the event that closes it is on its way.    *)
FailureIsDue == pairing = "failed" => link = "closing" \/ Pending(Failure)

FailureComesCloser ==
  [][pairing = "failed" /\ ~Disconnect =>
       /\ pairing' = "failed" /\ link' \in Connections
       /\ link = "closing" => link' = "closing"
       /\ \A i \in DOMAIN inbox : inbox[i] = Failure =>
            IF ~InboxEvent THEN inbox'[i] = Failure
            ELSE IF i = 1 THEN link' = "closing"
            ELSE inbox'[i - 1] = Failure]_vars

LEMMA FailedStep ==
  ASSUME SInv, Next, pairing = "failed", ~Disconnect
  PROVE  /\ pairing' = "failed" /\ link' \in Connections
         /\ link = "closing" => link' = "closing"
         /\ \A i \in DOMAIN inbox : inbox[i] = Failure =>
              IF ~InboxEvent THEN inbox'[i] = Failure
              ELSE IF i = 1 THEN link' = "closing"
              ELSE inbox'[i - 1] = Failure
<1>1. Types /\ Order /\ link \in Connections
  BY DEF SInv, Order, Types
<1>2. \A i \in DOMAIN inbox : inbox[i].id \notin Ends
  BY <1>1 DEF Order, Connections
<1>3. ASSUME NEW e, Handling(e), pairing' = pairing, link' \in {link, "closing"},
             e = Failure => link' = "closing"
      PROVE  /\ pairing' = "failed" /\ link' \in Connections
             /\ link = "closing" => link' = "closing"
             /\ \A i \in DOMAIN inbox : inbox[i] = Failure =>
                  IF i = 1 THEN link' = "closing" ELSE inbox'[i - 1] = Failure
  <2>1. /\ inbox[1] = e
        /\ \A i \in DOMAIN inbox : i # 1 => i - 1 \in DOMAIN inbox' /\ inbox'[i - 1] = inbox[i]
    BY <1>1, <1>3, Taken
  <2> QED BY <1>1, <1>3, <2>1 DEF Connections
<1>4. CASE InboxEvent
  <2>1. ~Boot /\ ~ConnectionClosed
    <3>1. ASSUME NEW id \in {"system_boot", "connection_closed"}, Handling(Event(id))
          PROVE  FALSE
      <4>1. 1 \in DOMAIN inbox /\ inbox[1] = Event(id)
        BY <1>1, <3>1, Taken
      <4>2. Event(id).id = id
        BY EventsAreEvents
      <4> QED BY <1>2, <4>1, <4>2 DEF Ends
    <3> QED BY <3>1 DEF Boot, ConnectionClosed
  <2> DEFINE Handles == \E e : /\ Handling(e) /\ pairing' = pairing /\ link' \in {link, "closing"}
                               /\ e = Failure => link' = "closing"
  <2>2. Failure.id = "sm_bonding_failed"
    BY EventsAreEvents DEF Failure
  <2>3. ASSUME NEW e, Handling(e), e.id # "sm_bonding_failed", UNCHANGED <<pairing, link>>
        PROVE  Handles
    BY <2>2, <2>3
  <2>4. ASSUME BondingFailed
        PROVE  Handles
    BY <1>1, <2>4 DEF BondingFailed, Failure, Connections
  <2>5. ASSUME ConnectionOpened \/ ConfirmBonding \/ ConfirmPasskey \/ Bonded \/ IndicationTimeout
        PROVE  Handles
    <3>1. \E e : Handling(e) /\ e.id # "sm_bonding_failed" /\ UNCHANGED <<pairing, link>>
      BY <2>5, EventsAreEvents DEF ConnectionOpened, ConfirmBonding, ConfirmPasskey, Bonded,
                                   IndicationTimeout, stack
    <3> QED BY <2>3, <3>1
  <2>6. ASSUME \E enabled \in BOOLEAN : TemperatureConfig(enabled) \/ ButtonConfig(enabled)
        PROVE  Handles
    <3>1. \E e : Handling(e) /\ e.id # "sm_bonding_failed" /\ UNCHANGED <<pairing, link>>
      BY <2>6, EventsAreEvents DEF TemperatureConfig, ButtonConfig, stack, Characteristics
    <3> QED BY <2>3, <3>1
  <2>7. ASSUME \E c \in Characteristics : Confirmed(c)
        PROVE  Handles
    <3>1. \E e : Handling(e) /\ e.id # "sm_bonding_failed" /\ UNCHANGED <<pairing, link>>
      BY <2>7, EventsAreEvents DEF Confirmed
    <3> QED BY <2>3, <3>1
  <2>8. Handles
    BY <1>4, <2>1, <2>4, <2>5, <2>6, <2>7 DEF InboxEvent
  <2> QED BY <1>3, <1>4, <2>8
<1>5. CASE ~InboxEvent
  <2>1. ASSUME NEW e \in Events, Post(e)
        PROVE  \A i \in DOMAIN inbox : inbox'[i] = inbox[i]
    BY <1>1, <2>1, Posted
  <2>2. UNCHANGED inbox \/ \E e \in Events : Post(e)
    <3>1. CASE ExternalSignal \/ Interrupt \/ Halted
      BY <3>1 DEF ExternalSignal, ButtonPressed, ButtonReleased, MachineSignal, Interrupt, Halted, vars
    <3>2. CASE Connect \/ Disconnect \/ Timeout
      BY <3>2, EventsAreEvents DEF Connect, Disconnect, Timeout
    <3>3. CASE \E c \in Characteristics, enabled \in BOOLEAN : Subscribe(c, enabled)
      BY <3>3, EventsAreEvents DEF Subscribe
    <3>4. CASE Confirm
      <4>1. outstanding \in Indications
        BY <1>1, <3>4 DEF Confirm, Types, StackTypes
      <4>2. outstanding.charHandle \in Characteristics
        BY <4>1 DEF Indications, TemperatureIndication, ButtonIndication, Characteristics
      <4> QED BY <3>4, <4>2, EventsAreEvents DEF Confirm
    <3>5. CASE Pairing
      BY <3>5, EventsAreEvents DEF Pairing, PairingStep
    <3> QED BY <1>5, <3>1, <3>2, <3>3, <3>4, <3>5 DEF Next, sl_bt_on_event, Stack
  <2>3. UNCHANGED <<pairing, link>>
    <3>1. CASE ExternalSignal
      BY <3>1 DEF ExternalSignal, ButtonPressed, ButtonReleased, MachineSignal
    <3>2. CASE Interrupt \/ Halted
      BY <3>2 DEF Interrupt, Halted, vars, stack
    <3>3. CASE Connect \/ Pairing
      BY <1>1, <3>3 DEF Connect, Connections, Pairing, PairingStep
    <3>4. CASE Confirm \/ Timeout \/ \E c \in Characteristics, enabled \in BOOLEAN : Subscribe(c, enabled)
      BY <3>4 DEF Confirm, Timeout, Subscribe
    <3> QED BY <1>5, <3>1, <3>2, <3>3, <3>4 DEF Next, sl_bt_on_event, Stack
  <2> QED BY <1>1, <1>5, <2>1, <2>2, <2>3
<1> QED BY <1>4, <1>5

(* A failed pairing ends in a disconnection: it is never forgotten, the    *)
(* event that closes the link moves up with each one handled and closes it *)
(* when its turn comes, and nothing but the disconnection ends the wait.   *)
THEOREM FailureCloses == Spec => []FailureIsDue /\ FailureComesCloser
<1> DEFINE A == pairing = "failed" /\ ~Disconnect =>
                  /\ pairing' = "failed" /\ link' \in Connections
                  /\ link = "closing" => link' = "closing"
                  /\ \A i \in DOMAIN inbox : inbox[i] = Failure =>
                       IF ~InboxEvent THEN inbox'[i] = Failure
                       ELSE IF i = 1 THEN link' = "closing"
                       ELSE inbox'[i - 1] = Failure
<1>1. SInv => FailureIsDue
  BY SInvImplies DEF PromptEndsWithPairing, FailureIsDue, Failure
<1>2. SInv /\ [Next]_vars => [A]_vars
  BY FailedStep
<1> QED BY <1>1, <1>2, InvariantHolds, PTL DEF Spec, FailureComesCloser
=============================================================================
