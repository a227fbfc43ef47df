---------------------- MODULE BleClientConnectionProofs ----------------------
(***************************************************************************)
(* The client through any number of connections: it always searches, its   *)
(* display follows the link, and a discovery that is over has subscribed   *)
(* or failed.                                                              *)
(***************************************************************************)
EXTENDS BleClientProofs

Conn == {"connection_opened", "connection_closed"}
Procedures == {"none", "services", "service found", "characteristics",
               "characteristic found", "notification"}

-----------------------------------------------------------------------------
(* The connections an inbox tells of: open[i] says whether one is open once*)
(* its first i events are handled, from what connection_open says now to   *)
(* what the link is.  The last two conjuncts follow from the others by     *)
(* induction on the inbox; as parts of the invariant they need none.       *)

Line(s, open, from, to) ==
  /\ open \in [0 .. Len(s) -> BOOLEAN]
  /\ open[0] = from /\ open[Len(s)] = to
  /\ \A i \in 1 .. Len(s) :
       /\ s[i] = "connection_opened" => ~open[i - 1] /\ open[i]
       /\ s[i] = "connection_closed" => open[i - 1] /\ ~open[i]
       /\ s[i] = "gatt_characteristic_value" => open[i - 1]
  /\ \A i, j \in 0 .. Len(s) :
       i <= j /\ (\A k \in i + 1 .. j : s[k] \notin Conn) => open[i] = open[j]
  /\ \A i, j \in 0 .. Len(s) :
       i <= j /\ ~open[i] /\ open[j] => \E k \in i + 1 .. j : s[k] = "connection_opened"

Timeline(s, from, to) == \E open : Line(s, open, from, to)

LEMMA TimelineAppend ==
  ASSUME NEW s \in Seq(Events), NEW e \in Events, NEW from, NEW to, NEW next \in BOOLEAN,
         Timeline(s, from, to),
         e = "connection_opened" => ~to /\ next,
         e = "connection_closed" => to /\ ~next,
         e \notin Conn => next = to,
         e = "gatt_characteristic_value" => to
  PROVE  Timeline(s \o <<e>>, from, next)
<1> DEFINE n == Len(s)
           t == s \o <<e>>
<1>1. PICK open : Line(s, open, from, to)
  BY DEF Timeline
<1>2. /\ n \in Nat /\ Len(t) = n + 1 /\ t[n + 1] = e
      /\ \A i \in 1 .. n : t[i] = s[i]
  OBVIOUS
<1> HIDE DEF n, t
<1>3. /\ open \in [0 .. n -> BOOLEAN] /\ open[0] = from /\ open[n] = to
      /\ \A i \in 1 .. n :
           /\ s[i] = "connection_opened" => ~open[i - 1] /\ open[i]
           /\ s[i] = "connection_closed" => open[i - 1] /\ ~open[i]
           /\ s[i] = "gatt_characteristic_value" => open[i - 1]
      /\ \A i, j \in 0 .. n :
           i <= j /\ (\A k \in i + 1 .. j : s[k] \notin Conn) => open[i] = open[j]
      /\ \A i, j \in 0 .. n :
           i <= j /\ ~open[i] /\ open[j] => \E k \in i + 1 .. j : s[k] = "connection_opened"
  BY <1>1 DEF Line, n
<1> DEFINE more == [i \in 0 .. n + 1 |-> IF i = n + 1 THEN next ELSE open[i]]
<1>4. /\ more \in [0 .. n + 1 -> BOOLEAN] /\ more[n + 1] = next
      /\ \A i \in 0 .. n : more[i] = open[i]
  BY <1>2, <1>3
<1> HIDE DEF more
<1>5. more[0] = from
  BY <1>2, <1>3, <1>4
<1>6. ASSUME NEW i \in 1 .. n + 1
      PROVE  /\ t[i] = "connection_opened" => ~more[i - 1] /\ more[i]
             /\ t[i] = "connection_closed" => more[i - 1] /\ ~more[i]
             /\ t[i] = "gatt_characteristic_value" => more[i - 1]
  <2>1. CASE i = n + 1
    <3>1. i - 1 = n /\ more[i - 1] = to /\ t[i] = e /\ more[i] = next
      BY <1>2, <1>3, <1>4, <2>1
    <3> QED BY <3>1
  <2>2. CASE i \in 1 .. n
    <3>1. /\ t[i] = s[i] /\ more[i] = open[i] /\ i - 1 \in 0 .. n
          /\ more[i - 1] = open[i - 1]
      BY <1>2, <1>4, <2>2
    <3> QED BY <1>3, <2>2, <3>1
  <2> QED BY <1>2, <2>1, <2>2
<1>7. ASSUME NEW i \in 0 .. n + 1, NEW j \in 0 .. n + 1, i <= j,
             \A k \in i + 1 .. j : t[k] \notin Conn
      PROVE  more[i] = more[j]
  <2>1. CASE j \in 0 .. n
    <3>1. i \in 0 .. n /\ \A k \in i + 1 .. j : s[k] \notin Conn
      BY <1>2, <1>7, <2>1
    <3> QED BY <1>3, <1>4, <1>7, <2>1, <3>1
  <2>2. CASE j = n + 1 /\ i # j
    <3>1. i \in 0 .. n /\ i <= n /\ n \in 0 .. n /\ n + 1 \in i + 1 .. j
      BY <1>2, <1>7, <2>2
    <3>2. \A k \in i + 1 .. n : s[k] \notin Conn
      BY <1>2, <1>7, <2>2, <3>1
    <3>3. open[i] = open[n]
      BY <1>3, <3>1, <3>2
    <3>4. next = to
      BY <1>2, <1>7, <3>1
    <3> QED BY <1>3, <1>4, <2>2, <3>1, <3>3, <3>4
  <2> QED BY <1>2, <2>1, <2>2
<1>8. ASSUME NEW i \in 0 .. n + 1, NEW j \in 0 .. n + 1, i <= j, ~more[i], more[j]
      PROVE  \E k \in i + 1 .. j : t[k] = "connection_opened"
  <2>1. ASSUME NEW m \in 0 .. n, i <= m, m <= j, open[m]
        PROVE  \E k \in i + 1 .. j : t[k] = "connection_opened"
    <3>1. i \in 0 .. n /\ ~open[i]
      BY <1>2, <1>4, <1>8, <2>1
    <3>2. PICK k \in i + 1 .. m : s[k] = "connection_opened"
      BY <1>3, <2>1, <3>1
    <3>3. k \in i + 1 .. j /\ k \in 1 .. n
      BY <1>2, <1>8, <2>1, <3>1
    <3> QED BY <1>2, <3>2, <3>3
  <2>2. CASE j \in 0 .. n
    <3>1. open[j] /\ j <= j
      BY <1>4, <1>8, <2>2
    <3> QED BY <1>8, <2>1, <2>2, <3>1
  <2>3. CASE j = n + 1
    <3>1. next /\ i # j /\ i \in 0 .. n /\ i <= n /\ n \in 0 .. n /\ n <= j
          /\ n + 1 \in i + 1 .. j
      BY <1>2, <1>4, <1>8, <2>3
    <3>2. CASE e = "connection_opened"
      BY <1>2, <3>1, <3>2
    <3>3. CASE e # "connection_opened"
      <4>1. open[n]
        BY <1>3, <3>1, <3>3 DEF Conn
      <4> QED BY <2>1, <3>1, <4>1
    <3> QED BY <3>2, <3>3
  <2> QED BY <1>2, <2>2, <2>3
<1>9. Line(t, more, from, next)
  BY <1>2, <1>4, <1>5, <1>6, <1>7, <1>8 DEF Line
<1> QED BY <1>9 DEF Timeline, t

LEMMA TimelineTail ==
  ASSUME NEW s \in Seq(Events), s # << >>, NEW from, NEW to, Timeline(s, from, to)
  PROVE  \E next \in BOOLEAN :
           /\ Timeline(Tail(s), next, to)
           /\ Head(s) = "connection_opened" => ~from /\ next
           /\ Head(s) = "connection_closed" => from /\ ~next
           /\ Head(s) \notin Conn => next = from
           /\ Head(s) = "gatt_characteristic_value" => from
<1> DEFINE n == Len(s)
           t == Tail(s)
<1>1. PICK open : Line(s, open, from, to)
  BY DEF Timeline
<1>2. /\ n \in Nat /\ n >= 1 /\ Len(t) = n - 1 /\ Head(s) = s[1]
      /\ \A i \in 1 .. n - 1 : t[i] = s[i + 1]
  OBVIOUS
<1> HIDE DEF n, t
<1>3. /\ open \in [0 .. n -> BOOLEAN] /\ open[0] = from /\ open[n] = to
      /\ \A i \in 1 .. n :
           /\ s[i] = "connection_opened" => ~open[i - 1] /\ open[i]
           /\ s[i] = "connection_closed" => open[i - 1] /\ ~open[i]
           /\ s[i] = "gatt_characteristic_value" => open[i - 1]
      /\ \A i, j \in 0 .. n :
           i <= j /\ (\A k \in i + 1 .. j : s[k] \notin Conn) => open[i] = open[j]
      /\ \A i, j \in 0 .. n :
           i <= j /\ ~open[i] /\ open[j] => \E k \in i + 1 .. j : s[k] = "connection_opened"
  BY <1>1 DEF Line, n
<1> DEFINE rest == [i \in 0 .. n - 1 |-> open[i + 1]]
<1>4. /\ rest \in [0 .. n - 1 -> BOOLEAN]
      /\ \A i \in 0 .. n - 1 : i + 1 \in 0 .. n /\ rest[i] = open[i + 1]
  BY <1>2, <1>3
<1> HIDE DEF rest
<1>5. rest[0] = open[1] /\ rest[n - 1] = to /\ open[1] \in BOOLEAN
  BY <1>2, <1>3, <1>4
<1>6. ASSUME NEW i \in 1 .. n - 1
      PROVE  /\ t[i] = "connection_opened" => ~rest[i - 1] /\ rest[i]
             /\ t[i] = "connection_closed" => rest[i - 1] /\ ~rest[i]
             /\ t[i] = "gatt_characteristic_value" => rest[i - 1]
  <2>1. /\ i + 1 \in 1 .. n /\ i - 1 \in 0 .. n - 1 /\ i \in 0 .. n - 1
        /\ (i - 1) + 1 = (i + 1) - 1
    BY <1>2
  <2>2. t[i] = s[i + 1] /\ rest[i] = open[i + 1] /\ rest[i - 1] = open[(i + 1) - 1]
    BY <1>2, <1>4, <2>1
  <2> QED BY <1>3, <2>1, <2>2
<1>7. ASSUME NEW i \in 0 .. n - 1, NEW j \in 0 .. n - 1, i <= j,
             \A k \in i + 1 .. j : t[k] \notin Conn
      PROVE  rest[i] = rest[j]
  <2>1. ASSUME NEW k \in (i + 1) + 1 .. j + 1
        PROVE  s[k] \notin Conn
    <3>1. k - 1 \in i + 1 .. j /\ k - 1 \in 1 .. n - 1 /\ (k - 1) + 1 = k
      BY <1>2
    <3> QED BY <1>2, <1>7, <3>1
  <2>2. i + 1 \in 0 .. n /\ j + 1 \in 0 .. n /\ i + 1 <= j + 1
    BY <1>2, <1>7
  <2> QED BY <1>3, <1>4, <2>1, <2>2
<1>8. ASSUME NEW i \in 0 .. n - 1, NEW j \in 0 .. n - 1, i <= j, ~rest[i], rest[j]
      PROVE  \E k \in i + 1 .. j : t[k] = "connection_opened"
  <2>1. /\ i + 1 \in 0 .. n /\ j + 1 \in 0 .. n /\ i + 1 <= j + 1
        /\ ~open[i + 1] /\ open[j + 1]
    BY <1>2, <1>4, <1>8
  <2>2. PICK k \in (i + 1) + 1 .. j + 1 : s[k] = "connection_opened"
    BY <1>3, <2>1
  <2>3. k - 1 \in i + 1 .. j /\ k - 1 \in 1 .. n - 1 /\ (k - 1) + 1 = k
    BY <1>2
  <2> QED BY <1>2, <2>2, <2>3
<1>9. Line(t, rest, open[1], to)
  BY <1>2, <1>4, <1>5, <1>6, <1>7, <1>8 DEF Line
<1>10. /\ s[1] = "connection_opened" => ~from /\ open[1]
       /\ s[1] = "connection_closed" => from /\ ~open[1]
       /\ s[1] \notin Conn => open[1] = from
       /\ s[1] = "gatt_characteristic_value" => from
  <2>1. 1 \in 1 .. n /\ 0 \in 0 .. n /\ 1 \in 0 .. n /\ 0 <= 1 /\ 1 - 1 = 0
    BY <1>2
  <2>2. \A k \in 0 + 1 .. 1 : k = 1
    OBVIOUS
  <2> QED BY <1>3, <2>1, <2>2
<1> QED BY <1>2, <1>5, <1>9, <1>10 DEF Timeline, t

LEMMA TimelineQuiet ==
  ASSUME NEW s \in Seq(Events), NEW from, NEW to, Timeline(s, from, to),
         \A i \in DOMAIN s : s[i] \notin Conn
  PROVE  from = to
<1>1. PICK open : Line(s, open, from, to)
  BY DEF Timeline
<1>2. Len(s) \in Nat /\ DOMAIN s = 1 .. Len(s)
  OBVIOUS
<1>3. 0 \in 0 .. Len(s) /\ Len(s) \in 0 .. Len(s) /\ 0 <= Len(s)
      /\ \A k \in 0 + 1 .. Len(s) : s[k] \notin Conn
  BY <1>2
<1> QED BY <1>1, <1>3 DEF Line

-----------------------------------------------------------------------------
(* The inductive invariant. *)

Link == Timeline(inbox, connection_open, link = "connected")

(* Until the boot event is handled it is all there is. *)
BootFirst ==
  Pending("system_boot") =>
    /\ inbox = <<"system_boot">> /\ link = "standby" /\ ~scanning
    /\ ~connection_open /\ procedure = "none" /\ ~subscribed

Shown ==
  /\ connection_open <=> display.connection \in {"Connected", "Handling Indications"}
  /\ display.temperature => connection_open

(* The machine's state says which procedure may be under way. *)
Kinds ==
  /\ procedure # "none" => link = "connected"
  /\ next_state = "STATE_OPEN" => procedure \in {"none", "services", "service found"}
  /\ next_state = "STATE_DISCOVER_CHARACTERISTICS" =>
       procedure \in {"none", "characteristics", "characteristic found"}
  /\ next_state = "STATE_SET_NOTIFICATION" => procedure \in {"none", "notification"}

(* The end of the last procedure, and the wait it leads to, say something  *)
(* of this connection, or the end of the one they belong to is still to be *)
(* handled.                                                                *)
Subscribed == link = "connected" /\ (subscribed \/ failed)
ClosedAfter(i) == \E j \in DOMAIN inbox : j > i /\ inbox[j] = "connection_closed"

Outcome ==
  /\ next_state = "STATE_SET_NOTIFICATION" =>
       \A i \in DOMAIN inbox : inbox[i] = Completed => ClosedAfter(i) \/ Subscribed
  /\ next_state = "STATE_WAIT" => Pending("connection_closed") \/ Subscribed

CInv ==
  /\ TypeOK /\ OneCompletion
  /\ BootFirst /\ Link /\ Shown /\ AlwaysSearching /\ Kinds /\ Outcome

-----------------------------------------------------------------------------
(* The machine on one event. *)

LEMMA MachineEffect ==
  ASSUME TypeOK, NEW e, discovery_state_machine(e)
  PROVE  /\ next_state' \in States /\ procedure' \in Procedures
         /\ UNCHANGED <<failed, att_dead, subscribed, indicated>>
         /\ procedure' # procedure => link = "connected"
  BY DEF TypeOK, Procedures, States, discovery_state_machine, DiscoverService,
         DiscoverCharacteristics, SetNotification, NotificationSet, ConnectionLost, Ignored,
         gatt_command, gatt

(* What the handlers do to the rest, one line for each kind of event.      *)
LEMMA HandlerEffect ==
  ASSUME CInv, sl_bt_on_event
  PROVE  \E e \in Events :
    /\ Handling(e)
    /\ \/ discovery_state_machine(e)
       \/ /\ e = "gatt_characteristic_value"
          /\ UNCHANGED <<next_state, procedure, failed, att_dead, subscribed>>
          /\ indicated' \in BOOLEAN
    /\ e = "connection_opened" => connection_open' = TRUE
    /\ e \in {"connection_closed", "system_boot"} => connection_open' = FALSE /\ scanning' = TRUE
    /\ e \notin {"connection_opened", "connection_closed", "system_boot"} =>
         connection_open' = connection_open
    /\ display' =
         CASE e = "system_boot" -> [display EXCEPT !.connection = "Discovering"]
           [] e = "connection_opened" -> [display EXCEPT !.connection = "Connected"]
           [] e = "connection_closed" -> [connection |-> "Discovering", temperature |-> FALSE]
           [] e = "gatt_characteristic_value" ->
                [connection |-> "Handling Indications",
                 temperature |-> display.temperature \/ characteristic_handle = "characteristic"]
           [] OTHER -> display
    /\ service_handle' \in {service_handle, "service"}
    /\ characteristic_handle' \in {characteristic_handle, "characteristic"}
    /\ IF e = "server_report"
       THEN scanning' = FALSE /\ link' = IF link = "standby" THEN "initiating" ELSE link
       ELSE scanning' \in {scanning, TRUE} /\ link' = link
<1>1. CASE Boot
  <2>1. "system_boot" \in Events
    BY DEF Events
  <2> QED BY <1>1, <2>1 DEF Boot, scanner_start
<1>2. CASE ServerReport
  <2>1. "server_report" \in Events
    BY DEF Events
  <2> QED BY <1>2, <2>1 DEF ServerReport, ble_data
<1>3. CASE OtherReport
  <2>1. "other_report" \in Events
    BY DEF Events
  <2> QED BY <1>3, <2>1 DEF OtherReport, ble_data
<1>4. CASE ConnectionOpened
  <2>1. "connection_opened" \in Events
    BY DEF Events
  <2> QED BY <1>4, <2>1 DEF ConnectionOpened
<1>5. CASE ConnectionClosed
  <2>1. "connection_closed" \in Events
    BY DEF Events
  <2> QED BY <1>5, <2>1 DEF ConnectionClosed, scanner_start
<1>6. CASE ServiceFound
  <2>1. "gatt_service" \in Events
    BY DEF Events
  <2> QED BY <1>6, <2>1 DEF ServiceFound
<1>7. CASE CharacteristicFound
  <2>1. "gatt_characteristic" \in Events
    BY DEF Events
  <2> QED BY <1>7, <2>1 DEF CharacteristicFound
<1>8. CASE ProcedureCompleted
  <2>1. "gatt_procedure_completed" \in Events
    BY DEF Events
  <2> QED BY <1>8, <2>1 DEF ProcedureCompleted, ble_data
<1>9. CASE CharacteristicValue
  <2>1. "gatt_characteristic_value" \in Events
    BY DEF Events
  <2> QED BY <1>9, <2>1 DEF CharacteristicValue, ble_data, CInv, TypeOK
<1> QED BY <1>1, <1>2, <1>3, <1>4, <1>5, <1>6, <1>7, <1>8, <1>9 DEF sl_bt_on_event

(* What is left of the inbox. *)
LEMMA HandledLeaves ==
  ASSUME CInv, NEW e \in Events, Handling(e)
  PROVE  /\ inbox \in Seq(Events) /\ inbox # << >> /\ inbox' = Tail(inbox) /\ Head(inbox) = e
         /\ inbox' \in Seq(Events) /\ Len(inbox') <= MaxInbox
         /\ 1 \in DOMAIN inbox /\ inbox[1] = e
         /\ \A d : Pending(d)' => Pending(d)
         /\ \A d : Pending(d) /\ d # e => Pending(d)'
         /\ \A i \in DOMAIN inbox' : i \in Nat /\ i + 1 \in DOMAIN inbox /\ inbox'[i] = inbox[i + 1]
         /\ \A i \in DOMAIN inbox : i \in Nat /\
              (i > 1 => i - 1 \in DOMAIN inbox' /\ inbox'[i - 1] = inbox[i])
         /\ ~Pending("system_boot")'
<1>1. /\ inbox \in Seq(Events) /\ inbox # << >> /\ inbox' = Tail(inbox) /\ Head(inbox) = e
      /\ Len(inbox) <= MaxInbox /\ MaxInbox \in Nat
  BY ClientAssumption DEF CInv, TypeOK, Handling
<1>2. /\ Len(inbox) \in Nat /\ DOMAIN inbox = 1 .. Len(inbox) /\ Len(inbox) > 0
      /\ inbox' \in Seq(Events) /\ Len(inbox') = Len(inbox) - 1
      /\ DOMAIN inbox' = 1 .. Len(inbox')
      /\ \A i \in 1 .. Len(inbox) - 1 : inbox'[i] = inbox[i + 1]
      /\ inbox[1] = e
  BY <1>1
<1>3. \A i \in DOMAIN inbox' : i \in Nat /\ i + 1 \in DOMAIN inbox /\ inbox'[i] = inbox[i + 1]
  BY <1>2
<1>4. \A i \in DOMAIN inbox : i \in Nat /\
        (i > 1 => i - 1 \in DOMAIN inbox' /\ inbox'[i - 1] = inbox[i])
  BY <1>2
<1>5. \A d : Pending(d)' => Pending(d)
  BY <1>3 DEF Pending
<1>6. \A d : Pending(d) /\ d # e => Pending(d)'
  <2> SUFFICES ASSUME NEW d, NEW i \in DOMAIN inbox, inbox[i] = d, d # e
               PROVE  Pending(d)'
    BY DEF Pending
  <2>1. i > 1
    BY <1>2
  <2> QED BY <1>4, <2>1 DEF Pending
<1>7. ~Pending("system_boot")'
  <2>1. CASE Pending("system_boot")
    <3>1. inbox' = << >>
      BY <1>1, <2>1 DEF CInv, BootFirst
    <3> QED BY <3>1 DEF Pending
  <2> QED BY <1>5, <2>1
<1> QED BY <1>1, <1>2, <1>3, <1>4, <1>5, <1>6, <1>7

LEMMA HandlersKeep ==
  ASSUME CInv, sl_bt_on_event
  PROVE  CInv'
<1>1. PICK e \in Events :
    /\ Handling(e)
    /\ \/ discovery_state_machine(e)
       \/ /\ e = "gatt_characteristic_value"
          /\ UNCHANGED <<next_state, procedure, failed, att_dead, subscribed>>
          /\ indicated' \in BOOLEAN
    /\ e = "connection_opened" => connection_open' = TRUE
    /\ e \in {"connection_closed", "system_boot"} => connection_open' = FALSE /\ scanning' = TRUE
    /\ e \notin {"connection_opened", "connection_closed", "system_boot"} =>
         connection_open' = connection_open
    /\ display' =
         CASE e = "system_boot" -> [display EXCEPT !.connection = "Discovering"]
           [] e = "connection_opened" -> [display EXCEPT !.connection = "Connected"]
           [] e = "connection_closed" -> [connection |-> "Discovering", temperature |-> FALSE]
           [] e = "gatt_characteristic_value" ->
                [connection |-> "Handling Indications",
                 temperature |-> display.temperature \/ characteristic_handle = "characteristic"]
           [] OTHER -> display
    /\ service_handle' \in {service_handle, "service"}
    /\ characteristic_handle' \in {characteristic_handle, "characteristic"}
    /\ IF e = "server_report"
       THEN scanning' = FALSE /\ link' = IF link = "standby" THEN "initiating" ELSE link
       ELSE scanning' \in {scanning, TRUE} /\ link' = link
  BY HandlerEffect
<1>2. /\ inbox \in Seq(Events) /\ inbox # << >> /\ inbox' = Tail(inbox) /\ Head(inbox) = e
      /\ inbox' \in Seq(Events) /\ Len(inbox') <= MaxInbox
      /\ 1 \in DOMAIN inbox /\ inbox[1] = e
      /\ \A d : Pending(d)' => Pending(d)
      /\ \A d : Pending(d) /\ d # e => Pending(d)'
      /\ \A i \in DOMAIN inbox' : i \in Nat /\ i + 1 \in DOMAIN inbox /\ inbox'[i] = inbox[i + 1]
      /\ \A i \in DOMAIN inbox : i \in Nat /\
           (i > 1 => i - 1 \in DOMAIN inbox' /\ inbox'[i - 1] = inbox[i])
      /\ ~Pending("system_boot")'
  BY <1>1, HandledLeaves
<1>3. TypeOK
  BY DEF CInv
<1>4. /\ next_state' \in States /\ procedure' \in Procedures
      /\ UNCHANGED <<failed, att_dead, subscribed>> /\ indicated' \in BOOLEAN
      /\ procedure' # procedure => link = "connected"
  <2>1. CASE discovery_state_machine(e)
    BY <1>3, <2>1, MachineEffect DEF TypeOK
  <2>2. CASE UNCHANGED <<next_state, procedure, failed, att_dead, subscribed>>
             /\ indicated' \in BOOLEAN
    BY <1>3, <2>2 DEF TypeOK, Procedures
  <2> QED BY <1>1, <2>1, <2>2
<1>5. (link' = "connected") = (link = "connected") /\ (link' = "standby" => link = "standby")
  BY <1>1
<1>6. PICK next \in BOOLEAN :
        /\ Timeline(inbox', next, link = "connected")
        /\ e = "connection_opened" => ~connection_open /\ next
        /\ e = "connection_closed" => connection_open /\ ~next
        /\ e \notin Conn => next = connection_open
        /\ e = "gatt_characteristic_value" => connection_open
  BY <1>2, TimelineTail DEF CInv, Link
<1>7. e = "system_boot" => ~connection_open
  BY <1>2 DEF CInv, BootFirst, Pending
<1>8. connection_open' = next
  <2>1. connection_open \in BOOLEAN
    BY <1>3 DEF TypeOK
  <2>2. CASE e = "connection_opened"
    BY <1>1, <1>6, <2>2
  <2>3. CASE e = "connection_closed"
    BY <1>1, <1>6, <2>3
  <2>4. CASE e = "system_boot"
    BY <1>1, <1>6, <1>7, <2>1, <2>4 DEF Conn
  <2>5. CASE e \notin {"connection_opened", "connection_closed", "system_boot"}
    BY <1>1, <1>6, <2>5 DEF Conn
  <2> QED BY <2>2, <2>3, <2>4, <2>5
<1>9. TypeOK'
  <2>1. display' \in [connection : {"", "Discovering", "Connected", "Handling Indications"},
                      temperature : BOOLEAN]
    BY <1>1, <1>3 DEF TypeOK
  <2>2. /\ scanning' \in BOOLEAN /\ link' \in {"standby", "initiating", "connected"}
        /\ service_handle' \in {None, "service"}
        /\ characteristic_handle' \in {None, "characteristic"}
    BY <1>1, <1>3 DEF TypeOK
  <2> QED BY <1>2, <1>3, <1>4, <1>8, <2>1, <2>2 DEF TypeOK, Procedures
<1>10. OneCompletion'
  BY StepPreserves DEF CInv, Next
<1>11. Link'
  BY <1>5, <1>6, <1>8 DEF Link
<1>12. Shown'
  <2>1. CASE e \in {"system_boot", "connection_opened", "connection_closed",
                    "gatt_characteristic_value"}
    BY <1>1, <1>3, <1>6, <1>7, <2>1 DEF CInv, Shown, TypeOK
  <2>2. CASE e \notin {"system_boot", "connection_opened", "connection_closed",
                       "gatt_characteristic_value"}
    <3>1. display' = display /\ connection_open' = connection_open
      BY <1>1, <2>2
    <3> QED BY <3>1 DEF CInv, Shown
  <2> QED BY <2>1, <2>2
<1>13. AlwaysSearching'
  <2> SUFFICES ASSUME link' = "standby", ~scanning'
               PROVE  \E d \in {"system_boot", "connection_closed", "server_report"} : Pending(d)'
    BY DEF AlwaysSearching
  <2>1. e \notin {"system_boot", "connection_closed", "server_report"}
    BY <1>1
  <2>2. link = "standby" /\ ~scanning
    BY <1>1, <1>3, <2>1 DEF TypeOK
  <2> QED BY <1>2, <2>1, <2>2 DEF CInv, AlwaysSearching
<1>14. procedure = "none" \/ (Discovering /\ ~Pending(Completed))
  BY DEF CInv, OneCompletion
<1>15. Kinds'
  <2>1. procedure' # "none" => link' = "connected"
    BY <1>4, <1>5 DEF CInv, Kinds
  <2>2. e = Completed => procedure = "none"
    BY <1>2, <1>14 DEF Pending
  <2>3. CASE discovery_state_machine(e)
    BY <1>14, <2>1, <2>2, <2>3
       DEF CInv, Kinds, discovery_state_machine, DiscoverService, DiscoverCharacteristics,
           SetNotification, NotificationSet, ConnectionLost, Ignored, gatt_command, gatt,
           Discovering, Completed
  <2>4. CASE UNCHANGED <<next_state, procedure>>
    BY <2>1, <2>4 DEF CInv, Kinds
  <2> QED BY <1>1, <2>3, <2>4
<1>16. Outcome'
  <2>1. Subscribed' = Subscribed
    BY <1>4, <1>5 DEF Subscribed
  <2>2. ASSUME NEW i \in DOMAIN inbox', ClosedAfter(i + 1) PROVE ClosedAfter(i)'
    <3>1. PICK j \in DOMAIN inbox : j > i + 1 /\ inbox[j] = "connection_closed"
      BY <2>2 DEF ClosedAfter
    <3>2. i \in Nat /\ j \in Nat /\ j > 1 /\ j - 1 > i
      BY <1>2, <3>1
    <3>3. j - 1 \in DOMAIN inbox' /\ inbox'[j - 1] = inbox[j]
      BY <1>2, <3>1, <3>2
    <3> QED BY <3>1, <3>2, <3>3 DEF ClosedAfter
  <2>3. ClosedAfter(1) => Pending("connection_closed")'
    BY <1>2 DEF ClosedAfter, Pending
  <2>4. CASE next_state' = next_state /\ e # "connection_closed"
    BY <1>2, <2>1, <2>2, <2>4 DEF CInv, Outcome
  <2>5. CASE next_state' = next_state /\ e = "connection_closed"
    <3>1. next_state # "STATE_WAIT"
      BY <1>1, <2>5 DEF discovery_state_machine, DiscoverService, DiscoverCharacteristics,
                        SetNotification, NotificationSet, ConnectionLost, Ignored, Awaited
    <3> QED BY <1>2, <2>1, <2>2, <2>5, <3>1 DEF CInv, Outcome
  <2>6. CASE next_state' # next_state
    <3>1. discovery_state_machine(e)
      BY <1>1, <2>6
    <3>2. CASE NotificationSet(e)
      <4>1. next_state = "STATE_SET_NOTIFICATION" /\ e = Completed /\ next_state' = "STATE_WAIT"
        BY <3>2 DEF NotificationSet, Completed
      <4>2. ClosedAfter(1) \/ Subscribed
        BY <1>2, <4>1 DEF CInv, Outcome
      <4> QED BY <2>1, <2>3, <4>1, <4>2 DEF Outcome
    <3>3. CASE SetNotification(e)
      <4>1. e = Completed /\ next_state' = "STATE_SET_NOTIFICATION"
        BY <3>3 DEF SetNotification, Completed
      <4>2. ~Pending(Completed)'
        BY <1>1, <4>1, HandledEvent DEF CInv
      <4> QED BY <4>1, <4>2 DEF Outcome, Pending
    <3>4. CASE ~NotificationSet(e) /\ ~SetNotification(e)
      <4>1. next_state' \notin {"STATE_SET_NOTIFICATION", "STATE_WAIT"}
        BY <2>6, <3>1, <3>4 DEF discovery_state_machine, DiscoverService,
             DiscoverCharacteristics, ConnectionLost, Ignored
      <4> QED BY <4>1 DEF Outcome
    <3> QED BY <3>2, <3>3, <3>4
  <2> QED BY <2>4, <2>5, <2>6
<1> QED BY <1>2, <1>9, <1>10, <1>11, <1>12, <1>13, <1>15, <1>16 DEF CInv, BootFirst

-----------------------------------------------------------------------------
(* The stack adds an event. *)

LEMMA PostedSays ==
  ASSUME inbox \in Seq(Events), NEW e \in Events, inbox' = inbox \o <<e>>
  PROVE  /\ inbox' \in Seq(Events) /\ Len(inbox') = Len(inbox) + 1
         /\ \A d : Pending(d) => Pending(d)'
         /\ \A d : Pending(d)' => Pending(d) \/ d = e
         /\ Pending(e)'
         /\ \A i \in DOMAIN inbox' : (i \in DOMAIN inbox /\ inbox'[i] = inbox[i]) \/ inbox'[i] = e
         /\ \A i \in DOMAIN inbox : i \in DOMAIN inbox' /\ inbox'[i] = inbox[i]
                                      /\ (e = "connection_closed" => ClosedAfter(i)')
         /\ \A i \in DOMAIN inbox : ClosedAfter(i) => ClosedAfter(i)'
<1>1. /\ inbox' \in Seq(Events) /\ DOMAIN inbox' = 1 .. Len(inbox) + 1
      /\ \A i \in DOMAIN inbox : inbox'[i] = inbox[i]
      /\ inbox'[Len(inbox) + 1] = e
  BY PostedOne
<1>2. DOMAIN inbox = 1 .. Len(inbox) /\ Len(inbox) \in Nat /\ Len(inbox') = Len(inbox) + 1
  OBVIOUS
<1>3. /\ \A i \in DOMAIN inbox' : i \in DOMAIN inbox \/ i = Len(inbox) + 1
      /\ \A i \in DOMAIN inbox : i \in DOMAIN inbox' /\ Len(inbox) + 1 > i
      /\ Len(inbox) + 1 \in DOMAIN inbox'
  BY <1>1, <1>2
<1>4. /\ \A d : Pending(d) => Pending(d)'
      /\ \A d : Pending(d)' => Pending(d) \/ d = e
      /\ Pending(e)'
  BY <1>1, <1>3 DEF Pending
<1>5. \A i \in DOMAIN inbox :
        (ClosedAfter(i) => ClosedAfter(i)') /\ (e = "connection_closed" => ClosedAfter(i)')
  BY <1>1, <1>3 DEF ClosedAfter
<1> QED BY <1>1, <1>2, <1>3, <1>4, <1>5

StackTypes ==
  /\ scanning \in BOOLEAN /\ link \in {"standby", "initiating", "connected"}
  /\ procedure \in Procedures /\ failed \in BOOLEAN /\ att_dead \in BOOLEAN
  /\ subscribed \in BOOLEAN /\ indicated \in BOOLEAN

LEMMA PostedKeeps ==
  ASSUME CInv, NEW e \in Events, e # "system_boot", inbox' = inbox \o <<e>>,
         Len(inbox) + 1 <= MaxInbox, UNCHANGED client, StackTypes', Kinds', OneCompletion',
         scanning \/ link # "standby",
         e = "connection_opened" => link # "connected" /\ link' = "connected",
         e = "connection_closed" => link = "connected" /\ link' # "connected",
         e \notin Conn => link' = link,
         e = "gatt_characteristic_value" => link = "connected",
         link' = "standby" => (link = "standby" /\ scanning' = scanning) \/ e = "connection_closed",
         Subscribed => Subscribed' \/ e = "connection_closed",
         e = Completed /\ next_state = "STATE_SET_NOTIFICATION" => Subscribed'
  PROVE  CInv'
<1>1. TypeOK /\ inbox \in Seq(Events)
  BY DEF CInv, TypeOK
<1>2. /\ inbox' \in Seq(Events) /\ Len(inbox') = Len(inbox) + 1
      /\ \A d : Pending(d) => Pending(d)'
      /\ \A d : Pending(d)' => Pending(d) \/ d = e
      /\ Pending(e)'
      /\ \A i \in DOMAIN inbox' : (i \in DOMAIN inbox /\ inbox'[i] = inbox[i]) \/ inbox'[i] = e
      /\ \A i \in DOMAIN inbox : i \in DOMAIN inbox' /\ inbox'[i] = inbox[i]
                                   /\ (e = "connection_closed" => ClosedAfter(i)')
      /\ \A i \in DOMAIN inbox : ClosedAfter(i) => ClosedAfter(i)'
  BY <1>1, PostedSays
<1>3. UNCHANGED <<next_state, connection_open, service_handle, characteristic_handle, display>>
  BY DEF client, ble_data
<1>4. TypeOK'
  BY <1>1, <1>2, <1>3 DEF TypeOK, StackTypes, Procedures
<1>5. ~Pending("system_boot")'
  BY <1>2 DEF CInv, BootFirst
<1>6. Link'
  <2>1. (link' = "connected") \in BOOLEAN
    OBVIOUS
  <2>2. e \notin Conn => (link' = "connected") = (link = "connected")
    OBVIOUS
  <2>3. Timeline(inbox, connection_open, link = "connected")
    BY DEF CInv, Link
  <2> QED BY <1>1, <1>3, <2>1, <2>2, <2>3, TimelineAppend DEF Link
<1>7. Shown'
  BY <1>3 DEF CInv, Shown
<1>8. AlwaysSearching'
  BY <1>2 DEF CInv, AlwaysSearching
<1>9. Outcome'
  <2>1. Completed # "connection_closed"
    BY DEF Completed
  <2>2. ASSUME next_state' = "STATE_SET_NOTIFICATION", NEW i \in DOMAIN inbox',
               inbox'[i] = Completed
        PROVE  ClosedAfter(i)' \/ Subscribed'
    <3>1. CASE i \in DOMAIN inbox /\ inbox'[i] = inbox[i]
      BY <1>2, <1>3, <2>2, <3>1 DEF CInv, Outcome
    <3>2. CASE inbox'[i] = e
      BY <1>3, <2>2, <3>2
    <3> QED BY <1>2, <3>1, <3>2
  <2>3. next_state' = "STATE_WAIT" => Pending("connection_closed")' \/ Subscribed'
    BY <1>2, <1>3 DEF CInv, Outcome
  <2> QED BY <2>2, <2>3 DEF Outcome
<1> QED BY <1>4, <1>5, <1>6, <1>7, <1>8, <1>9 DEF CInv, BootFirst

(* The end of a connection, alone or after the end of its procedure. *)
LEMMA DisconnectKeeps ==
  ASSUME CInv, Disconnect
  PROVE  CInv'
<1>1. /\ TypeOK /\ inbox \in Seq(Events) /\ Len(inbox) \in Nat /\ MaxInbox \in Nat
      /\ Timeline(inbox, connection_open, TRUE) /\ ~Pending("system_boot")
  <2>1. TypeOK /\ link = "connected" /\ inbox \in Seq(Events)
    BY DEF CInv, TypeOK, Disconnect
  <2>2. Timeline(inbox, connection_open, TRUE)
    <3>1. (link = "connected") = TRUE
      BY <2>1
    <3> QED BY <3>1 DEF CInv, Link
  <2>3. ~Pending("system_boot")
    BY <2>1 DEF CInv, BootFirst
  <2>4. Len(inbox) \in Nat /\ MaxInbox \in Nat
    BY <2>1, ClientAssumption
  <2> QED BY <2>1, <2>2, <2>3, <2>4
<1>2. /\ UNCHANGED <<client, scanning>> /\ link' = "standby" /\ procedure' = "none"
      /\ failed' = FALSE /\ att_dead' = FALSE /\ subscribed' = FALSE /\ indicated' = FALSE
  BY DEF Disconnect
<1>3. /\ "connection_closed" \in Events /\ Completed \in Events
      /\ Completed # "connection_closed"
  BY DEF Events, Completed
<1>4. /\ inbox' \in Seq(Events) /\ Len(inbox') <= MaxInbox
      /\ Pending("connection_closed")' /\ ~Pending("system_boot")'
      /\ \A i \in DOMAIN inbox' : inbox'[i] = Completed => ClosedAfter(i)'
      /\ Timeline(inbox', connection_open, FALSE)
  <2>1. CASE inbox' = inbox \o <<"connection_closed">> /\ Len(inbox) + 1 <= MaxInbox
    <3>1. /\ inbox' \in Seq(Events) /\ Len(inbox') = Len(inbox) + 1
          /\ Pending("connection_closed")'
          /\ \A d : Pending(d)' => Pending(d) \/ d = "connection_closed"
          /\ \A i \in DOMAIN inbox' :
               (i \in DOMAIN inbox /\ inbox'[i] = inbox[i]) \/ inbox'[i] = "connection_closed"
          /\ \A i \in DOMAIN inbox : ClosedAfter(i)'
      BY <1>1, <1>3, <2>1, PostedSays
    <3>2. Timeline(inbox', connection_open, FALSE)
      BY <1>1, <1>3, <2>1, TimelineAppend DEF Conn
    <3> QED BY <1>1, <1>3, <2>1, <3>1, <3>2
  <2>2. CASE inbox' = inbox \o <<Completed, "connection_closed">> /\ Len(inbox) + 2 <= MaxInbox
    <3> DEFINE more == inbox \o <<Completed>>
    <3>1. more \in Seq(Events) /\ inbox' = more \o <<"connection_closed">>
      BY <1>1, <1>3, <2>2
    <3>2. Timeline(more, connection_open, TRUE)
      BY <1>1, <1>3, TimelineAppend DEF Conn, Completed
    <3>3. Timeline(inbox', connection_open, FALSE)
      BY <1>3, <3>1, <3>2, TimelineAppend DEF Conn
    <3>4. /\ inbox' \in Seq(Events) /\ DOMAIN inbox' = 1 .. Len(inbox) + 2
          /\ Len(inbox') = Len(inbox) + 2
          /\ \A i \in DOMAIN inbox : inbox'[i] = inbox[i]
          /\ inbox'[Len(inbox) + 1] = Completed
          /\ inbox'[Len(inbox) + 2] = "connection_closed"
      BY <1>1, <1>3, <2>2, PostedTwo
    <3>5. /\ DOMAIN inbox = 1 .. Len(inbox)
          /\ \A i \in DOMAIN inbox' :
               i \in DOMAIN inbox \/ i = Len(inbox) + 1 \/ i = Len(inbox) + 2
          /\ Len(inbox) + 2 \in DOMAIN inbox'
      BY <1>1, <3>4
    <3>6. \A i \in DOMAIN inbox' : inbox'[i] = Completed => ClosedAfter(i)'
      <4> SUFFICES ASSUME NEW i \in DOMAIN inbox', inbox'[i] = Completed
                   PROVE  ClosedAfter(i)'
        OBVIOUS
      <4>1. i # Len(inbox) + 2 /\ i \in 1 .. Len(inbox) + 2
        BY <1>3, <3>4
      <4>2. Len(inbox) + 2 > i
        BY <1>1, <4>1
      <4> QED BY <3>4, <3>5, <4>2 DEF ClosedAfter
    <3>7. Pending("connection_closed")' /\ ~Pending("system_boot")'
      BY <1>1, <3>4, <3>5 DEF Pending, Completed
    <3> HIDE DEF more
    <3> QED BY <2>2, <3>3, <3>4, <3>6, <3>7
  <2>3. /\ Len(<<"connection_closed">>) = 1
        /\ Len(<<Completed, "connection_closed">>) = 2
    OBVIOUS
  <2> QED BY <2>1, <2>2, <2>3 DEF Disconnect, Post, Completed
<1>5. UNCHANGED <<next_state, connection_open, service_handle, characteristic_handle, display>>
  BY <1>2 DEF client, ble_data
<1>6. TypeOK'
  BY <1>1, <1>2, <1>4, <1>5 DEF TypeOK
<1>7. OneCompletion'
  BY StepPreserves DEF CInv, Next
<1>8. Link'
  <2>1. (link' = "connected") = FALSE
    BY <1>2
  <2> QED BY <1>4, <1>5, <2>1 DEF Link
<1>9. Shown' /\ AlwaysSearching' /\ Kinds'
  BY <1>2, <1>4, <1>5 DEF CInv, Shown, AlwaysSearching, Kinds
<1>10. Outcome'
  BY <1>4 DEF Outcome
<1> QED BY <1>4, <1>6, <1>7, <1>8, <1>9, <1>10 DEF CInv, BootFirst

LEMMA StackKeeps ==
  ASSUME CInv, Report \/ Connect \/ Procedure \/ Indicate
  PROVE  CInv'
<1>1. TypeOK /\ StackTypes /\ Kinds /\ OneCompletion'
  BY StepPreserves DEF CInv, TypeOK, StackTypes, Procedures, Next
<1>2. \A e : Len(<<e>>) = 1
  OBVIOUS
<1>3. CASE Report
  <2>1. PICK e \in {"server_report", "other_report"} :
          inbox' = inbox \o <<e>> /\ Len(inbox) + 1 <= MaxInbox
    BY <1>2, <1>3 DEF Report, Post
  <2>2. e \in Events /\ e \notin Conn \cup {"system_boot", "gatt_characteristic_value", Completed}
    BY DEF Events, Conn, Completed
  <2>3. /\ UNCHANGED <<client, scanning, link, procedure, failed, att_dead, subscribed,
                       indicated, next_state>>
        /\ scanning
    BY <1>3 DEF Report, stack, gatt, client
  <2>4. StackTypes' /\ Kinds' /\ (Subscribed => Subscribed')
    BY <1>1, <2>3 DEF StackTypes, Kinds, Subscribed
  <2> QED BY <1>1, <2>1, <2>2, <2>3, <2>4, PostedKeeps DEF Conn
<1>4. CASE Connect
  <2> DEFINE e == "connection_opened"
  <2>1. inbox' = inbox \o <<e>> /\ Len(inbox) + 1 <= MaxInbox
    BY <1>2, <1>4 DEF Connect, Post
  <2>2. e \in Events /\ e \notin {"connection_closed", "system_boot",
                                  "gatt_characteristic_value", Completed}
    BY DEF Events, Completed
  <2>3. /\ UNCHANGED <<client, scanning, procedure, failed, att_dead, subscribed, indicated,
                       next_state>>
        /\ link = "initiating" /\ link' = "connected"
    BY <1>4 DEF Connect, gatt, client
  <2>4. StackTypes' /\ Kinds' /\ ~Subscribed
    BY <1>1, <2>3 DEF StackTypes, Kinds, Subscribed
  <2> QED BY <1>1, <2>1, <2>2, <2>3, <2>4, PostedKeeps DEF Conn
<1>5. CASE Indicate
  <2> DEFINE e == "gatt_characteristic_value"
  <2>1. inbox' = inbox \o <<e>> /\ Len(inbox) + 1 <= MaxInbox
    BY <1>2, <1>5 DEF Indicate, Post
  <2>2. e \in Events /\ e \notin Conn \cup {"system_boot", Completed}
    BY DEF Events, Completed, Conn
  <2>3. /\ UNCHANGED <<client, scanning, link, procedure, failed, att_dead, subscribed,
                       next_state>>
        /\ indicated' = TRUE /\ link = "connected"
    BY <1>5 DEF Indicate, client
  <2>4. StackTypes' /\ Kinds' /\ (Subscribed => Subscribed')
    BY <1>1, <2>3 DEF StackTypes, Kinds, Subscribed
  <2> QED BY <1>1, <2>1, <2>2, <2>3, <2>4, PostedKeeps DEF Conn
<1>6. CASE \/ Found("services", "service found", "gatt_service")
           \/ Found("characteristics", "characteristic found", "gatt_characteristic")
  <2>1. PICK e \in {"gatt_service", "gatt_characteristic"} :
          inbox' = inbox \o <<e>> /\ Len(inbox) + 1 <= MaxInbox
    BY <1>2, <1>6 DEF Found, Post
  <2>2. e \in Events /\ e \notin Conn \cup {"system_boot", "gatt_characteristic_value", Completed}
    BY DEF Events, Conn, Completed
  <2>3. /\ UNCHANGED <<client, scanning, link, failed, att_dead, subscribed, indicated,
                       next_state>>
        /\ \/ procedure = "services" /\ procedure' = "service found"
           \/ procedure = "characteristics" /\ procedure' = "characteristic found"
    BY <1>6 DEF Found, client
  <2>4. StackTypes' /\ Kinds' /\ (Subscribed => Subscribed') /\ link = "connected"
    BY <1>1, <2>3 DEF StackTypes, Kinds, Subscribed, Procedures
  <2> QED BY <1>1, <2>1, <2>2, <2>3, <2>4, PostedKeeps DEF Conn
<1>7. CASE Succeed \/ Fail
  <2> DEFINE e == Completed
  <2>1. inbox' = inbox \o <<e>> /\ Len(inbox) + 1 <= MaxInbox
    BY <1>2, <1>7 DEF Succeed, Fail, Post, Completed
  <2>2. e \in Events /\ e \notin Conn \cup {"system_boot", "gatt_characteristic_value"}
    BY DEF Events, Conn, Completed
  <2>3. /\ UNCHANGED <<client, scanning, link, indicated, next_state>>
        /\ procedure # "none" /\ procedure' = "none"
        /\ failed' \in {failed, TRUE} /\ att_dead' \in {att_dead, TRUE}
        /\ subscribed' \in {subscribed, TRUE}
        /\ failed' \/ procedure # "notification" \/ subscribed'
    <3>1. subscribed \in BOOLEAN /\ failed \in BOOLEAN
      BY <1>1 DEF StackTypes
    <3>2. CASE Succeed
      BY <3>1, <3>2 DEF Succeed, client
    <3>3. CASE Fail
      BY <3>1, <3>3 DEF Fail, client
    <3> QED BY <1>7, <3>2, <3>3
  <2>4. StackTypes' /\ Kinds' /\ (Subscribed => Subscribed') /\ link = "connected"
    <3>1. StackTypes'
      BY <1>1, <2>3 DEF StackTypes, Procedures
    <3>2. Kinds' /\ link = "connected"
      BY <1>1, <2>3 DEF Kinds
    <3>3. Subscribed => Subscribed'
      BY <1>1, <2>3 DEF StackTypes, Subscribed
    <3> QED BY <3>1, <3>2, <3>3
  <2>5. next_state = "STATE_SET_NOTIFICATION" => Subscribed'
    BY <1>1, <2>3, <2>4 DEF Kinds, Subscribed
  <2> HIDE DEF e
  <2>6. e = Completed
    BY DEF e
  <2> QED BY <1>1, <2>1, <2>2, <2>3, <2>4, <2>5, PostedKeeps DEF Conn
<1> QED BY <1>3, <1>4, <1>5, <1>6, <1>7 DEF Procedure

LEMMA NextKeeps == CInv /\ [Next]_vars => CInv'
<1> SUFFICES ASSUME CInv, [Next]_vars
             PROVE  CInv'
  OBVIOUS
<1>1. CASE UNCHANGED vars
  <2>1. /\ UNCHANGED <<next_state, connection_open, service_handle, characteristic_handle,
                       display, scanning, link, procedure, failed, att_dead, subscribed,
                       indicated, inbox>>
    BY <1>1 DEF vars, client, ble_data, stack, gatt
  <2>2. TypeOK' /\ OneCompletion' /\ BootFirst'
    <3>1. TypeOK'
      <4>1. TypeOK
        BY DEF CInv
      <4>2. inbox' = inbox /\ display' = display
        BY <2>1
      <4>3. inbox' \in Seq(Events) /\ Len(inbox') <= MaxInbox
        BY <4>1, <4>2 DEF TypeOK
      <4>4. /\ next_state' \in States /\ connection_open' \in BOOLEAN
            /\ service_handle' \in {None, "service"}
            /\ characteristic_handle' \in {None, "characteristic"}
        BY <2>1, <4>1 DEF TypeOK
      <4>5. display' \in [connection : {"", "Discovering", "Connected", "Handling Indications"},
                          temperature : BOOLEAN]
        BY <4>1, <4>2 DEF TypeOK
      <4>6. /\ scanning' \in BOOLEAN /\ link' \in {"standby", "initiating", "connected"}
            /\ procedure' \in {"none", "services", "service found", "characteristics",
                               "characteristic found", "notification"}
            /\ failed' \in BOOLEAN /\ att_dead' \in BOOLEAN
            /\ subscribed' \in BOOLEAN /\ indicated' \in BOOLEAN
        BY <2>1, <4>1 DEF TypeOK
      <4> QED BY <4>3, <4>4, <4>5, <4>6 DEF TypeOK
    <3>2. OneCompletion'
      BY StepPreserves DEF CInv
    <3>3. BootFirst'
      BY <2>1 DEF CInv, BootFirst, Pending
    <3> QED BY <3>1, <3>2, <3>3
  <2>3. Link' /\ Shown' /\ AlwaysSearching' /\ Kinds'
    BY <2>1 DEF CInv, Link, Shown, AlwaysSearching, Kinds, Pending
  <2>4. Outcome'
    BY <2>1 DEF CInv, Outcome, Subscribed, ClosedAfter, Pending
  <2> QED BY <2>2, <2>3, <2>4 DEF CInv
<1>2. CASE sl_bt_on_event
  BY <1>2, HandlersKeep
<1>3. CASE Disconnect
  BY <1>3, DisconnectKeeps
<1>4. CASE Report \/ Connect \/ Procedure \/ Indicate
  BY <1>4, StackKeeps
<1> QED BY <1>1, <1>2, <1>3, <1>4 DEF Next

LEMMA InitHolds == Init => CInv
<1> SUFFICES ASSUME Init
             PROVE  CInv
  OBVIOUS
<1>1. /\ inbox = <<"system_boot">> /\ inbox \in Seq(Events) /\ Len(inbox) = 1
      /\ DOMAIN inbox = 1 .. 1 /\ inbox[1] = "system_boot"
  <2>1. inbox = <<"system_boot">> /\ "system_boot" \in Events
    BY DEF Init, Events
  <2> QED BY <2>1
<1>2. TypeOK /\ Shown /\ Kinds /\ BootFirst
  <2>1. 1 <= MaxInbox
    BY ClientAssumption
  <2>2. TypeOK
    BY <1>1, <2>1 DEF Init, TypeOK, States
  <2>3. Shown
    BY DEF Init, Shown
  <2>4. Kinds
    BY DEF Init, Kinds
  <2>5. BootFirst
    BY <1>1 DEF Init, BootFirst
  <2> QED BY <2>2, <2>3, <2>4, <2>5
<1>3. OneCompletion
  BY InitEstablishes
<1>4. AlwaysSearching
  BY <1>1 DEF AlwaysSearching, Pending
<1>5. Link
  <2> DEFINE open == [i \in 0 .. 1 |-> FALSE]
  <2>1. connection_open = FALSE /\ (link = "connected") = FALSE
    BY DEF Init
  <2>2. \A i \in 0 .. 1 : open[i] = FALSE
    OBVIOUS
  <2>3. \A i \in 1 .. 1 : inbox[i] \notin Conn \cup {"gatt_characteristic_value"}
    BY <1>1 DEF Conn
  <2>4. open \in [0 .. 1 -> BOOLEAN] /\ 0 \in 0 .. 1 /\ 1 \in 0 .. 1
    OBVIOUS
  <2> HIDE DEF open
  <2>5. Line(inbox, open, FALSE, FALSE)
    BY <1>1, <2>2, <2>3, <2>4 DEF Line, Conn
  <2> QED BY <2>1, <2>5 DEF Link, Timeline
<1>6. Outcome
  BY DEF Init, Outcome
<1> QED BY <1>2, <1>3, <1>4, <1>5, <1>6 DEF CInv

LEMMA InvariantHolds == Spec => []CInv
<1> QED BY InitHolds, NextKeeps, PTL DEF Spec

-----------------------------------------------------------------------------

(* Each variable keeps to its values, and the inbox to its bound. *)
THEOREM ClientTypes == Spec => []TypeOK
<1>1. CInv => TypeOK
  BY DEF CInv
<1> QED BY <1>1, InvariantHolds, PTL

(* A client without a link scans, or an event waits that makes it scan or  *)
(* connect, whatever order reports and connections come in.                *)
THEOREM ClientSearches == Spec => []AlwaysSearching
<1>1. CInv => AlwaysSearching
  BY DEF CInv
<1> QED BY <1>1, InvariantHolds, PTL

(* The display follows connection_open, connection_open the link up to the *)
(* events that wait, and no temperature outlives its connection.           *)
THEOREM DisplayFollowsLink == Spec => []DisplayMatchesLink
<1>1. CInv => DisplayMatchesLink
  <2> SUFFICES ASSUME CInv
               PROVE  DisplayMatchesLink
    OBVIOUS
  <2>1. Shown /\ Timeline(inbox, connection_open, link = "connected") /\ inbox \in Seq(Events)
    BY DEF CInv, Link, TypeOK
  <2>2. ASSUME ~Pending("connection_opened"), ~Pending("connection_closed")
        PROVE  connection_open = (link = "connected")
    <3>1. \A i \in DOMAIN inbox : inbox[i] \notin Conn
      BY <2>2 DEF Pending, Conn
    <3> QED BY <2>1, <3>1, TimelineQuiet
  <2> QED BY <2>1, <2>2 DEF DisplayMatchesLink, Shown
<1> QED BY <1>1, InvariantHolds, PTL

(* A client whose discovery of this connection is over has subscribed, or  *)
(* one of its procedures failed.                                           *)
THEOREM WaitsSubscribed == Spec => []WaitMeansSubscribed
<1>1. CInv => WaitMeansSubscribed
  BY DEF CInv, Outcome, Subscribed, WaitMeansSubscribed
<1> QED BY <1>1, InvariantHolds, PTL

-----------------------------------------------------------------------------
(* Indications and their confirmations.  The events tell them apart only   *)
(* by their order: a value belongs to the connection whose end is the next *)
(* one in the inbox.                                                       *)

Value == "gatt_characteristic_value"
Closed == "connection_closed"

OpenBetween(i, j) == \A k \in DOMAIN inbox : i < k /\ k < j => inbox[k] # Closed

(* The discovery that subscribed is over, or its end is on its way.        *)
Subscriber ==
  subscribed =>
    /\ link = "connected" /\ characteristic_handle = "characteristic" /\ procedure = "none"
    /\ \/ next_state = "STATE_WAIT" /\ ~Pending(Closed)
       \/ /\ next_state = "STATE_SET_NOTIFICATION"
          /\ \E i \in DOMAIN inbox : inbox[i] = Completed /\ ~ClosedAfter(i)

NoneYet == procedure = "notification" => next_state = "STATE_SET_NOTIFICATION" /\ ~Pending(Value)

(* The machine handles a value in STATE_WAIT, before the next end of a     *)
(* connection.                                                             *)
InWait(i) ==
  \/ next_state = "STATE_WAIT" /\ OpenBetween(0, i)
  \/ /\ next_state = "STATE_SET_NOTIFICATION"
     /\ \E k \in DOMAIN inbox : k < i /\ inbox[k] = Completed /\ OpenBetween(k, i)

Values ==
  \A i \in DOMAIN inbox : inbox[i] = Value => InWait(i) /\ (indicated \/ ClosedAfter(i))

Only(i) == inbox[i] = Value /\ \A j \in DOMAIN inbox : inbox[j] = Value => j = i

OneValue == indicated => subscribed /\ \E i \in DOMAIN inbox : Only(i)

Waiting == Subscriber /\ NoneYet /\ Values /\ OneValue

(* The events move up when the first is handled. *)
LEMMA Moved ==
  ASSUME CInv, NEW e \in Events, Handling(e)
  PROVE  /\ \A i \in DOMAIN inbox' : i \in Nat /\ i + 1 \in DOMAIN inbox /\ inbox'[i] = inbox[i + 1]
         /\ \A i \in DOMAIN inbox : i \in Nat /\ i >= 1 /\
              (i # 1 => i - 1 \in DOMAIN inbox' /\ inbox'[i - 1] = inbox[i] /\ (i - 1) + 1 = i)
         /\ 1 \in DOMAIN inbox /\ inbox[1] = e
         /\ \A i \in DOMAIN inbox' : ClosedAfter(i)' <=> ClosedAfter(i + 1)
         /\ \A i \in Nat, j \in DOMAIN inbox' : OpenBetween(i + 1, j + 1) => OpenBetween(i, j)'
         /\ \A j \in DOMAIN inbox' : OpenBetween(0, j + 1) => OpenBetween(0, j)'
         /\ \A d : Pending(d)' => Pending(d)
<1>1. /\ 1 \in DOMAIN inbox /\ inbox[1] = e /\ inbox \in Seq(Events)
      /\ \A d : Pending(d)' => Pending(d)
      /\ \A i \in DOMAIN inbox' : i \in Nat /\ i + 1 \in DOMAIN inbox /\ inbox'[i] = inbox[i + 1]
      /\ \A i \in DOMAIN inbox : i \in Nat /\
           (i > 1 => i - 1 \in DOMAIN inbox' /\ inbox'[i - 1] = inbox[i])
  BY HandledLeaves
<1>2. \A i \in DOMAIN inbox : i \in Nat /\ i >= 1
  BY <1>1
<1>3. \A i \in DOMAIN inbox :
        i # 1 => i - 1 \in DOMAIN inbox' /\ inbox'[i - 1] = inbox[i] /\ (i - 1) + 1 = i
  BY <1>1, <1>2
<1>4. ASSUME NEW i \in DOMAIN inbox'
      PROVE  ClosedAfter(i)' <=> ClosedAfter(i + 1)
  <2>1. ASSUME NEW j \in DOMAIN inbox', j > i, inbox'[j] = Closed
        PROVE  ClosedAfter(i + 1)
    <3>1. j + 1 \in DOMAIN inbox /\ inbox[j + 1] = Closed /\ j + 1 > i + 1
      BY <1>1, <2>1
    <3> QED BY <3>1 DEF ClosedAfter, Closed
  <2>2. ASSUME NEW j \in DOMAIN inbox, j > i + 1, inbox[j] = Closed
        PROVE  ClosedAfter(i)'
    <3>1. i \in Nat /\ j \in Nat /\ j # 1 /\ j - 1 > i
      BY <1>1, <1>2, <2>2
    <3> QED BY <1>3, <2>2, <3>1 DEF ClosedAfter, Closed
  <2> QED BY <2>1, <2>2 DEF ClosedAfter, Closed
<1>5. ASSUME NEW i \in Nat, NEW j \in DOMAIN inbox', OpenBetween(i + 1, j + 1)
      PROVE  OpenBetween(i, j)'
  <2> SUFFICES ASSUME NEW k \in DOMAIN inbox', i < k, k < j
               PROVE  inbox'[k] # Closed
    BY DEF OpenBetween
  <2>1. k + 1 \in DOMAIN inbox /\ inbox'[k] = inbox[k + 1] /\ i + 1 < k + 1 /\ k + 1 < j + 1
    BY <1>1
  <2> QED BY <1>5, <2>1 DEF OpenBetween
<1>6. ASSUME NEW j \in DOMAIN inbox', OpenBetween(0, j + 1)
      PROVE  OpenBetween(0, j)'
  <2> SUFFICES ASSUME NEW k \in DOMAIN inbox', 0 < k, k < j
               PROVE  inbox'[k] # Closed
    BY DEF OpenBetween
  <2>1. k + 1 \in DOMAIN inbox /\ inbox'[k] = inbox[k + 1] /\ 0 < k + 1 /\ k + 1 < j + 1
    BY <1>1
  <2> QED BY <1>6, <2>1 DEF OpenBetween
<1> QED BY <1>1, <1>2, <1>3, <1>4, <1>5, <1>6

(* What stays true of a value that is not the one handled.                 *)
LEMMA InWaitMoves ==
  ASSUME CInv, NEW e \in Events, Handling(e), e # Completed, next_state' = next_state,
         NEW i \in DOMAIN inbox', InWait(i + 1)
  PROVE  InWait(i)'
<1>1. CASE next_state = "STATE_WAIT" /\ OpenBetween(0, i + 1)
  BY <1>1, Moved DEF InWait
<1>2. CASE /\ next_state = "STATE_SET_NOTIFICATION"
           /\ \E k \in DOMAIN inbox : k < i + 1 /\ inbox[k] = Completed /\ OpenBetween(k, i + 1)
  <2>1. PICK k \in DOMAIN inbox : k < i + 1 /\ inbox[k] = Completed /\ OpenBetween(k, i + 1)
    BY <1>2
  <2>2. k # 1
    BY <2>1, Moved
  <2>3. /\ k - 1 \in DOMAIN inbox' /\ inbox'[k - 1] = Completed /\ (k - 1) + 1 = k
        /\ i \in Nat /\ k \in Nat
    BY <2>1, <2>2, Moved
  <2>4. k - 1 < i /\ k - 1 \in Nat
    BY <2>1, <2>3, Moved
  <2>5. OpenBetween(k - 1, i)'
    BY <2>1, <2>3, <2>4, Moved
  <2> QED BY <1>2, <2>3, <2>4, <2>5 DEF InWait
<1> QED BY <1>1, <1>2 DEF InWait

(* The handlers, one by one: all but one run the machine on their event.   *)
LEMMA OtherHandlers ==
  ASSUME CInv, sl_bt_on_event, ~CharacteristicValue
  PROVE  \E e \in Events :
           /\ e # Value /\ Handling(e) /\ discovery_state_machine(e)
           /\ link = "connected" => link' = "connected"
           /\ characteristic_handle' \in {characteristic_handle, "characteristic"}
<1>1. CASE Boot
  BY <1>1 DEF Boot, Events, Value
<1>2. CASE ServerReport
  BY <1>2 DEF ServerReport, ble_data, Events, Value
<1>3. CASE OtherReport
  BY <1>3 DEF OtherReport, ble_data, Events, Value
<1>4. CASE ConnectionOpened
  BY <1>4 DEF ConnectionOpened, Events, Value
<1>5. CASE ConnectionClosed
  BY <1>5 DEF ConnectionClosed, Events, Value
<1>6. CASE ServiceFound
  BY <1>6 DEF ServiceFound, Events, Value
<1>7. CASE CharacteristicFound
  BY <1>7 DEF CharacteristicFound, Events, Value
<1>8. CASE ProcedureCompleted
  BY <1>8 DEF ProcedureCompleted, ble_data, Events, Value
<1> QED BY <1>1, <1>2, <1>3, <1>4, <1>5, <1>6, <1>7, <1>8 DEF sl_bt_on_event

LEMMA OnlyMoves ==
  ASSUME CInv, NEW e \in Events, Handling(e), e # Value, NEW i \in DOMAIN inbox, Only(i)
  PROVE  i # 1 /\ i - 1 \in DOMAIN inbox' /\ Only(i - 1)'
<1>1. inbox[1] = e /\ i # 1
  BY Moved DEF Only
<1>2. i - 1 \in DOMAIN inbox' /\ inbox'[i - 1] = inbox[i] /\ i \in Nat
  BY <1>1, Moved
<1>3. ASSUME NEW j \in DOMAIN inbox', inbox'[j] = Value
      PROVE  j = i - 1
  <2>1. j \in Nat /\ j + 1 \in DOMAIN inbox /\ inbox[j + 1] = Value
    BY <1>3, Moved
  <2>2. j + 1 = i
    BY <2>1 DEF Only
  <2> QED BY <1>2, <2>1, <2>2
<1> QED BY <1>1, <1>2, <1>3 DEF Only

(* An event the machine does not act on. *)
LEMMA IgnoredKeeps ==
  ASSUME CInv, Waiting, NEW e \in Events, e # Value, Handling(e), Ignored(e),
         link = "connected" => link' = "connected",
         characteristic_handle' \in {characteristic_handle, "characteristic"}
  PROVE  Waiting'
<1>1. UNCHANGED <<next_state, procedure, subscribed, indicated>> /\ e # Awaited
  BY DEF Ignored, gatt
<1>2. Subscriber'
  <2> SUFFICES ASSUME subscribed
               PROVE  Subscriber'
    BY <1>1 DEF Subscriber
  <2>1. link' = "connected" /\ characteristic_handle' = "characteristic" /\ procedure' = "none"
    BY <1>1 DEF Waiting, Subscriber
  <2>2. CASE next_state = "STATE_WAIT" /\ ~Pending(Closed)
    BY <1>1, <2>1, <2>2, Moved DEF Subscriber
  <2>3. CASE /\ next_state = "STATE_SET_NOTIFICATION"
             /\ \E i \in DOMAIN inbox : inbox[i] = Completed /\ ~ClosedAfter(i)
    <3>1. PICK i \in DOMAIN inbox : inbox[i] = Completed /\ ~ClosedAfter(i)
      BY <2>3
    <3>2. e # Completed
      BY <1>1, <2>3 DEF Awaited, Completed
    <3>3. i - 1 \in DOMAIN inbox' /\ inbox'[i - 1] = Completed /\ (i - 1) + 1 = i
      BY <3>1, <3>2, Moved
    <3>4. ~ClosedAfter(i - 1)'
      BY <3>1, <3>3, Moved
    <3> QED BY <1>1, <2>1, <2>3, <3>3, <3>4 DEF Subscriber
  <2> QED BY <2>2, <2>3 DEF Waiting, Subscriber
<1>3. NoneYet'
  BY <1>1, Moved DEF Waiting, NoneYet
<1>4. Values'
  <2> SUFFICES ASSUME NEW i \in DOMAIN inbox', inbox'[i] = Value
               PROVE  InWait(i)' /\ (indicated' \/ ClosedAfter(i)')
    BY DEF Values
  <2>1. i + 1 \in DOMAIN inbox /\ inbox[i + 1] = Value
    BY Moved
  <2>2. InWait(i + 1) /\ (indicated \/ ClosedAfter(i + 1))
    BY <2>1 DEF Waiting, Values
  <2>3. CASE e # Completed
    BY <1>1, <2>2, <2>3, InWaitMoves, Moved
  <2>4. CASE e = Completed
    <3>1. next_state = "STATE_WAIT"
      BY <1>1, <2>2, <2>4 DEF InWait, Awaited, Completed
    <3> QED BY <1>1, <2>2, <3>1, Moved DEF InWait
  <2> QED BY <2>3, <2>4
<1>5. OneValue'
  BY <1>1, OnlyMoves DEF Waiting, OneValue
<1> QED BY <1>2, <1>3, <1>4, <1>5 DEF Waiting

(* The machine's own moves. *)
LEMMA MachineWaits ==
  ASSUME CInv, Waiting, NEW e \in Events, e # Value, Handling(e), discovery_state_machine(e),
         link = "connected" => link' = "connected",
         characteristic_handle' \in {characteristic_handle, "characteristic"}
  PROVE  Waiting'
<1>0. TypeOK /\ OneCompletion /\ UNCHANGED <<subscribed, indicated>>
  BY MachineEffect DEF CInv
<1>1. ASSUME ~subscribed, \A i \in DOMAIN inbox' : inbox'[i] # Value, NoneYet'
      PROVE  Waiting'
  BY <1>0, <1>1 DEF Waiting, Subscriber, Values, OneValue
<1>2. ASSUME next_state \notin {"STATE_SET_NOTIFICATION", "STATE_WAIT"}
      PROVE  ~subscribed /\ (\A i \in DOMAIN inbox' : inbox'[i] # Value) /\ ~Pending(Value)'
  <2>1. ~subscribed /\ \A i \in DOMAIN inbox : inbox[i] # Value
    BY <1>2 DEF Waiting, Subscriber, Values, InWait
  <2> QED BY <2>1, Moved DEF Pending
<1>3. CASE DiscoverService(e) \/ DiscoverCharacteristics(e)
  <2>1. ~subscribed /\ (\A i \in DOMAIN inbox' : inbox'[i] # Value)
    BY <1>2, <1>3 DEF DiscoverService, DiscoverCharacteristics
  <2>2. procedure # "notification"
    BY <1>3 DEF Waiting, NoneYet, DiscoverService, DiscoverCharacteristics
  <2>3. NoneYet'
    BY <1>3, <2>2 DEF NoneYet, DiscoverService, DiscoverCharacteristics, gatt_command
  <2> QED BY <1>1, <2>1, <2>3
<1>4. CASE SetNotification(e)
  <2>1. /\ ~subscribed /\ (\A i \in DOMAIN inbox' : inbox'[i] # Value) /\ ~Pending(Value)'
        /\ next_state' = "STATE_SET_NOTIFICATION"
    BY <1>2, <1>4 DEF SetNotification
  <2> QED BY <1>1, <2>1 DEF NoneYet
<1>5. CASE ConnectionLost(e)
  <2>1. /\ next_state = "STATE_WAIT" /\ e = Closed /\ next_state' = "STATE_CLOSE"
        /\ procedure' = procedure
    BY <1>5 DEF ConnectionLost, Closed, gatt
  <2>2. ~subscribed
    <3>1. Pending(Closed)
      BY <2>1, Moved DEF Pending
    <3> QED BY <2>1, <3>1 DEF Waiting, Subscriber
  <2>3. ASSUME NEW i \in DOMAIN inbox', inbox'[i] = Value
        PROVE  FALSE
    <3>1. i \in Nat /\ i + 1 \in DOMAIN inbox /\ inbox[i + 1] = Value /\ i # 0
          /\ 1 \in DOMAIN inbox /\ inbox[1] = Closed
      <4>1. 1 + 1 # 1 /\ i + 1 # 1
        BY <2>1, <2>3, Moved DEF Value, Closed
      <4> QED BY <2>1, <2>3, <4>1, Moved
    <3>2. OpenBetween(0, i + 1)
      BY <2>1, <3>1 DEF Waiting, Values, InWait
    <3>3. 0 < 1 /\ 1 < i + 1
      BY <3>1
    <3> QED BY <3>1, <3>2, <3>3 DEF OpenBetween
  <2>4. NoneYet'
    BY <2>1 DEF Waiting, NoneYet
  <2> QED BY <1>1, <2>2, <2>3, <2>4
<1>6. CASE NotificationSet(e)
  <2>1. /\ next_state = "STATE_SET_NOTIFICATION" /\ e = Completed /\ next_state' = "STATE_WAIT"
        /\ procedure' = procedure
    BY <1>6 DEF NotificationSet, Completed, gatt
  <2>2. /\ 1 \in DOMAIN inbox /\ inbox[1] = Completed
        /\ \A k \in DOMAIN inbox : inbox[k] = Completed => k = 1
    BY <1>0, <2>1, Moved DEF OneCompletion
  <2>3. procedure' = "none"
    BY <1>0, <2>1, <2>2 DEF OneCompletion, Pending
  <2>4. Subscriber'
    <3> SUFFICES ASSUME subscribed PROVE ~Pending(Closed)'
      BY <1>0, <2>1, <2>3 DEF Waiting, Subscriber
    <3>1. ~ClosedAfter(1)
      BY <2>1, <2>2 DEF Waiting, Subscriber
    <3>2. \A i \in DOMAIN inbox' : inbox'[i] # Closed
      <4> SUFFICES ASSUME NEW i \in DOMAIN inbox', inbox'[i] = Closed PROVE FALSE
        OBVIOUS
      <4>1. i + 1 \in DOMAIN inbox /\ inbox[i + 1] = Closed /\ i \in Nat
        BY Moved
      <4>2. i + 1 # 1
        BY <2>2, <4>1 DEF Completed, Closed
      <4>3. i + 1 > 1
        BY <4>1, <4>2
      <4> QED BY <3>1, <4>1, <4>3 DEF ClosedAfter, Closed
    <3> QED BY <3>2 DEF Pending
  <2>5. Values'
    <3> SUFFICES ASSUME NEW i \in DOMAIN inbox', inbox'[i] = Value
                 PROVE  InWait(i)' /\ (indicated' \/ ClosedAfter(i)')
      BY DEF Values
    <3>1. i + 1 \in DOMAIN inbox /\ inbox[i + 1] = Value
      BY Moved
    <3>2. InWait(i + 1) /\ (indicated \/ ClosedAfter(i + 1))
      BY <3>1 DEF Waiting, Values
    <3>3. OpenBetween(0 + 1, i + 1)
      BY <2>1, <2>2, <3>2 DEF InWait
    <3>4. OpenBetween(0, i)'
      BY <3>3, Moved
    <3> QED BY <1>0, <2>1, <3>2, <3>4, Moved DEF InWait
  <2>6. NoneYet' /\ OneValue'
    BY <1>0, <2>3, OnlyMoves DEF Waiting, NoneYet, OneValue
  <2> QED BY <2>4, <2>5, <2>6 DEF Waiting
<1>7. CASE Ignored(e)
  BY <1>7, IgnoredKeeps
<1> QED BY <1>3, <1>4, <1>5, <1>6, <1>7 DEF discovery_state_machine

(* The value itself: it is the only one, if the server waits for it.       *)
LEMMA ValueConfirmed ==
  ASSUME CInv, Waiting, CharacteristicValue
  PROVE  Waiting' /\ ~indicated' /\ (indicated => \A j \in DOMAIN inbox' : inbox'[j] # Value)
<1>1. Handling(Value) /\ Value \in Events /\ Value # Completed /\ Value # Closed
  BY DEF CharacteristicValue, Value, Events, Completed, Closed
<1>2. UNCHANGED <<next_state, characteristic_handle, link, procedure, subscribed>>
  BY DEF CharacteristicValue, ble_data
<1>3. ~indicated'
  BY DEF CharacteristicValue, Waiting, Subscriber, OneValue
<1>4. 1 \in DOMAIN inbox /\ inbox[1] = Value
  BY <1>1, Moved
<1>5. ASSUME indicated, NEW j \in DOMAIN inbox', inbox'[j] = Value
      PROVE  FALSE
  <2>1. j \in Nat /\ j + 1 \in DOMAIN inbox /\ inbox[j + 1] = Value
    BY <1>1, <1>5, Moved
  <2>2. j + 1 = 1
    BY <1>4, <1>5, <2>1 DEF Waiting, OneValue, Only
  <2>3. j = 0
    BY <2>1, <2>2
  <2>4. j \in DOMAIN inbox' /\ DOMAIN inbox' = 1 .. Len(inbox')
    BY <1>1, HandledLeaves
  <2> QED BY <2>3, <2>4
<1>6. Subscriber'
  <2> SUFFICES ASSUME subscribed PROVE Subscriber'
    BY <1>2 DEF Subscriber
  <2>1. CASE next_state = "STATE_WAIT" /\ ~Pending(Closed)
    BY <1>1, <1>2, <2>1, Moved DEF Waiting, Subscriber
  <2>2. CASE /\ next_state = "STATE_SET_NOTIFICATION"
             /\ \E i \in DOMAIN inbox : inbox[i] = Completed /\ ~ClosedAfter(i)
    <3>1. PICK i \in DOMAIN inbox : inbox[i] = Completed /\ ~ClosedAfter(i)
      BY <2>2
    <3>2. i - 1 \in DOMAIN inbox' /\ inbox'[i - 1] = Completed /\ (i - 1) + 1 = i
      BY <1>1, <1>4, <3>1, Moved
    <3>3. ~ClosedAfter(i - 1)'
      BY <1>1, <3>1, <3>2, Moved
    <3> QED BY <1>2, <2>2, <3>2, <3>3 DEF Waiting, Subscriber
  <2> QED BY <2>1, <2>2 DEF Waiting, Subscriber
<1>7. NoneYet'
  BY <1>1, <1>2, Moved DEF Waiting, NoneYet
<1>8. Values'
  <2> SUFFICES ASSUME NEW i \in DOMAIN inbox', inbox'[i] = Value
               PROVE  InWait(i)' /\ ClosedAfter(i)'
    BY DEF Values
  <2>1. i + 1 \in DOMAIN inbox /\ inbox[i + 1] = Value /\ ~indicated
    BY <1>1, <1>5, Moved
  <2>2. InWait(i + 1) /\ ClosedAfter(i + 1)
    BY <2>1 DEF Waiting, Values
  <2> QED BY <1>1, <1>2, <2>2, InWaitMoves, Moved
<1> QED BY <1>3, <1>5, <1>6, <1>7, <1>8 DEF Waiting, OneValue

(* The stack adds an event at the end. *)
LEMMA Added ==
  ASSUME inbox \in Seq(Events), NEW e \in Events, inbox' = inbox \o <<e>>,
         NEW n, n = Len(inbox) + 1
  PROVE  /\ n \in DOMAIN inbox' /\ inbox'[n] = e
         /\ \A i \in DOMAIN inbox' : i \in DOMAIN inbox \/ i = n
         /\ \A i \in DOMAIN inbox : i \in DOMAIN inbox' /\ inbox'[i] = inbox[i] /\ i < n
         /\ \A i \in DOMAIN inbox : ClosedAfter(i) => ClosedAfter(i)'
         /\ \A i \in DOMAIN inbox : ClosedAfter(i)' => ClosedAfter(i) \/ e = Closed
         /\ \A i : \A j \in DOMAIN inbox : OpenBetween(i, j) => OpenBetween(i, j)'
         /\ \A i : ~ClosedAfter(i) => OpenBetween(i, n)'
         /\ ~ClosedAfter(n)'
         /\ \A d : Pending(d) => Pending(d)'
         /\ \A d : Pending(d)' => Pending(d) \/ d = e
<1>1. /\ DOMAIN inbox' = 1 .. n /\ inbox'[n] = e
      /\ \A i \in DOMAIN inbox : inbox'[i] = inbox[i]
      /\ DOMAIN inbox = 1 .. n - 1 /\ n \in Nat /\ n > 0
  <2>1. DOMAIN inbox = 1 .. Len(inbox) /\ Len(inbox) \in Nat
    OBVIOUS
  <2> QED BY <2>1, PostedOne
<1>2. /\ n \in DOMAIN inbox'
      /\ \A i \in DOMAIN inbox' : i \in Nat /\ i <= n /\ (i \in DOMAIN inbox \/ i = n)
      /\ \A i \in DOMAIN inbox : i \in DOMAIN inbox' /\ i < n
  BY <1>1
<1>3. \A i \in DOMAIN inbox : ClosedAfter(i) => ClosedAfter(i)'
  BY <1>1, <1>2 DEF ClosedAfter
<1>4. \A i \in DOMAIN inbox : ClosedAfter(i)' => ClosedAfter(i) \/ e = Closed
  BY <1>1, <1>2 DEF ClosedAfter, Closed
<1>5. \A i : \A j \in DOMAIN inbox : OpenBetween(i, j) => OpenBetween(i, j)'
  <2> SUFFICES ASSUME NEW i, NEW j \in DOMAIN inbox, OpenBetween(i, j),
                      NEW k \in DOMAIN inbox', i < k, k < j
               PROVE  inbox'[k] # Closed
    BY DEF OpenBetween
  <2>1. k # n
    BY <1>1, <1>2
  <2> QED BY <1>1, <1>2, <2>1 DEF OpenBetween
<1>6. ASSUME NEW i, ~ClosedAfter(i)
      PROVE  OpenBetween(i, n)'
  <2>1. ASSUME NEW k \in DOMAIN inbox', i < k, k < n
        PROVE  inbox'[k] # Closed
    <3>1. k # n
      BY <1>1, <2>1
    <3>2. k \in DOMAIN inbox /\ k > i
      BY <1>2, <2>1, <3>1
    <3> QED BY <1>1, <1>6, <3>2 DEF ClosedAfter, Closed
  <2> QED BY <2>1 DEF OpenBetween
<1>7. ~ClosedAfter(n)'
  <2>1. ASSUME NEW k \in DOMAIN inbox', k > n PROVE FALSE
    BY <1>1, <2>1
  <2> QED BY <2>1 DEF ClosedAfter
<1>8. \A d : (Pending(d) => Pending(d)') /\ (Pending(d)' => Pending(d) \/ d = e)
  BY <1>1, <1>2 DEF Pending
<1> QED BY <1>1, <1>2, <1>3, <1>4, <1>5, <1>6, <1>7, <1>8

(* An event that says nothing of indications. *)
LEMMA AddedKeeps ==
  ASSUME TypeOK, Waiting, NEW e \in Events \ {Value, Closed}, inbox' = inbox \o <<e>>,
         UNCHANGED <<next_state, characteristic_handle, indicated>>,
         subscribed' = subscribed,
         subscribed => link' = link /\ procedure' = procedure,
         procedure' = "notification" => procedure = "notification"
  PROVE  Waiting'
<1>1. inbox \in Seq(Events) /\ e # Value /\ e # Closed
  BY DEF TypeOK
<1>2. Subscriber'
  <2> SUFFICES ASSUME subscribed PROVE Subscriber'
    BY DEF Subscriber
  <2>1. CASE next_state = "STATE_WAIT" /\ ~Pending(Closed)
    BY <1>1, <2>1, Added DEF Waiting, Subscriber
  <2>2. CASE /\ next_state = "STATE_SET_NOTIFICATION"
             /\ \E i \in DOMAIN inbox : inbox[i] = Completed /\ ~ClosedAfter(i)
    <3>1. \E i \in DOMAIN inbox' : inbox'[i] = Completed /\ ~ClosedAfter(i)'
      BY <1>1, <2>2, Added
    <3> QED BY <2>2, <3>1 DEF Waiting, Subscriber
  <2> QED BY <2>1, <2>2 DEF Waiting, Subscriber
<1>3. NoneYet'
  BY <1>1, Added DEF Waiting, NoneYet
<1>4. Values'
  <2> SUFFICES ASSUME NEW i \in DOMAIN inbox', inbox'[i] = Value
               PROVE  InWait(i)' /\ (indicated' \/ ClosedAfter(i)')
    BY DEF Values
  <2>1. i \in DOMAIN inbox /\ inbox[i] = Value
    BY <1>1, Added
  <2>2. InWait(i) /\ (indicated \/ ClosedAfter(i))
    BY <2>1 DEF Waiting, Values
  <2>3. InWait(i)'
    BY <1>1, <2>1, <2>2, Added DEF InWait
  <2> QED BY <1>1, <2>1, <2>2, <2>3, Added
<1>5. OneValue'
  <2> SUFFICES ASSUME indicated PROVE \E i \in DOMAIN inbox' : Only(i)'
    BY DEF Waiting, OneValue
  <2>1. PICK i \in DOMAIN inbox : Only(i)
    BY DEF Waiting, OneValue
  <2>2. i \in DOMAIN inbox' /\ Only(i)'
    BY <1>1, <2>1, Added DEF Only
  <2> QED BY <2>2
<1> QED BY <1>2, <1>3, <1>4, <1>5 DEF Waiting

(* A server that may indicate finds no value left of another connection.   *)
LEMMA NoOldValues ==
  ASSUME OneCompletion, TypeOK, Waiting, subscribed, ~indicated, NEW i \in DOMAIN inbox
  PROVE  inbox[i] # Value
<1> SUFFICES ASSUME inbox[i] = Value PROVE FALSE
  OBVIOUS
<1>1. InWait(i) /\ ClosedAfter(i)
  BY DEF Waiting, Values
<1>2. PICK j \in DOMAIN inbox : j > i /\ inbox[j] = Closed
  BY <1>1 DEF ClosedAfter, Closed
<1>3. CASE next_state = "STATE_WAIT"
  BY <1>2, <1>3 DEF Waiting, Subscriber, Pending
<1>4. CASE next_state = "STATE_SET_NOTIFICATION"
  <2>1. PICK k \in DOMAIN inbox : k < i /\ inbox[k] = Completed
    BY <1>1, <1>4 DEF InWait
  <2>2. ~ClosedAfter(k)
    BY <1>4, <2>1 DEF Waiting, Subscriber, OneCompletion
  <2>3. i \in Nat /\ j \in Nat /\ k \in Nat
    <3>1. inbox \in Seq(Events)
      BY DEF TypeOK
    <3>2. DOMAIN inbox = 1 .. Len(inbox)
      BY <3>1
    <3> QED BY <3>2
  <2>4. j > k
    BY <1>2, <2>1, <2>3
  <2> QED BY <1>2, <2>2, <2>4 DEF ClosedAfter, Closed
<1> QED BY <1>1, <1>3, <1>4 DEF InWait

LEMMA IndicateWaits ==
  ASSUME CInv, Waiting, Indicate
  PROVE  Waiting'
<1>1. /\ TypeOK /\ OneCompletion /\ inbox \in Seq(Events) /\ Value \in Events
      /\ Value # Closed /\ Value # Completed
  BY DEF CInv, TypeOK, Value, Events, Closed, Completed
<1>2. /\ inbox' = inbox \o <<Value>> /\ subscribed /\ ~indicated /\ indicated' = TRUE
      /\ UNCHANGED <<next_state, characteristic_handle, link, procedure, subscribed>>
  BY DEF Indicate, Post, client, ble_data, Value
<1>9. PICK n : n = Len(inbox) + 1
  OBVIOUS
<1>3. n \in DOMAIN inbox' /\ inbox'[n] = Value
  BY <1>1, <1>2, <1>9, Added
<1>4. \A j \in DOMAIN inbox' : inbox'[j] = Value => j = n
  BY <1>1, <1>2, <1>9, Added, NoOldValues
<1>5. Subscriber'
  <2>1. CASE next_state = "STATE_WAIT" /\ ~Pending(Closed)
    BY <1>1, <1>2, <1>9, <2>1, Added DEF Waiting, Subscriber
  <2>2. CASE /\ next_state = "STATE_SET_NOTIFICATION"
             /\ \E i \in DOMAIN inbox : inbox[i] = Completed /\ ~ClosedAfter(i)
    <3>1. \E i \in DOMAIN inbox' : inbox'[i] = Completed /\ ~ClosedAfter(i)'
      BY <1>1, <1>2, <1>9, <2>2, Added
    <3> QED BY <1>2, <2>2, <3>1 DEF Waiting, Subscriber
  <2> QED BY <1>2, <2>1, <2>2 DEF Waiting, Subscriber
<1>6. NoneYet'
  BY <1>2 DEF Waiting, Subscriber, NoneYet
<1>7. InWait(n)'
  <2>1. CASE next_state = "STATE_WAIT" /\ ~Pending(Closed)
    <3>1. ~ClosedAfter(0)
      BY <2>1 DEF ClosedAfter, Pending, Closed
    <3>2. OpenBetween(0, n)'
      BY <1>1, <1>2, <1>9, <3>1, Added
    <3> QED BY <1>2, <2>1, <3>2 DEF InWait
  <2>2. CASE /\ next_state = "STATE_SET_NOTIFICATION"
             /\ \E i \in DOMAIN inbox : inbox[i] = Completed /\ ~ClosedAfter(i)
    <3>1. PICK k \in DOMAIN inbox : inbox[k] = Completed /\ ~ClosedAfter(k)
      BY <2>2
    <3>2. k \in DOMAIN inbox' /\ inbox'[k] = Completed /\ k < n /\ OpenBetween(k, n)'
      BY <1>1, <1>2, <1>9, <3>1, Added
    <3> QED BY <1>2, <2>2, <3>2 DEF InWait
  <2> QED BY <1>2, <2>1, <2>2 DEF Waiting, Subscriber
<1>8. Values' /\ OneValue'
  <2>1. Values'
    BY <1>2, <1>4, <1>7 DEF Values
  <2>2. OneValue'
    BY <1>2, <1>3, <1>4 DEF OneValue, Only
  <2> QED BY <2>1, <2>2
<1> QED BY <1>5, <1>6, <1>8 DEF Waiting

LEMMA DisconnectWaits ==
  ASSUME CInv, Waiting, Disconnect
  PROVE  Waiting'
<1>1. /\ inbox \in Seq(Events) /\ Completed \in Events /\ Closed \in Events
      /\ Value # Closed /\ Value # Completed
  BY DEF CInv, TypeOK, Value, Events, Closed, Completed
<1>2. /\ next_state' = next_state /\ procedure' = "none"
      /\ ~subscribed' /\ ~indicated'
      /\ \/ inbox' = inbox \o <<Closed>>
         \/ inbox' = inbox \o <<Completed, Closed>>
  BY DEF Disconnect, Post, client, Closed, Completed
<1>3. /\ \A i \in DOMAIN inbox : /\ i \in DOMAIN inbox' /\ inbox'[i] = inbox[i]
                                 /\ ClosedAfter(i)'
      /\ \A i \in DOMAIN inbox' : inbox'[i] = Value => i \in DOMAIN inbox
      /\ \A k \in DOMAIN inbox' : \A j \in DOMAIN inbox : k < j => k \in DOMAIN inbox
  <2>0. DOMAIN inbox = 1 .. Len(inbox) /\ Len(inbox) \in Nat
    BY <1>1
  <2>1. CASE inbox' = inbox \o <<Closed>>
    <3>1. /\ DOMAIN inbox' = 1 .. Len(inbox) + 1 /\ inbox'[Len(inbox) + 1] = Closed
          /\ \A i \in DOMAIN inbox : inbox'[i] = inbox[i]
      BY <1>1, <2>1, PostedOne
    <3>2. Len(inbox) + 1 \in DOMAIN inbox' /\ \A i \in DOMAIN inbox : Len(inbox) + 1 > i
      BY <2>0, <3>1
    <3>3. \A i \in DOMAIN inbox : i \in DOMAIN inbox' /\ ClosedAfter(i)'
      BY <2>0, <3>1, <3>2 DEF ClosedAfter, Closed
    <3>4. \A i \in DOMAIN inbox' : inbox'[i] = Value => i \in DOMAIN inbox
      BY <1>1, <2>0, <3>1
    <3>5. \A k \in DOMAIN inbox' : \A j \in DOMAIN inbox : k < j => k \in DOMAIN inbox
      BY <2>0, <3>1
    <3> QED BY <3>1, <3>3, <3>4, <3>5
  <2>2. CASE inbox' = inbox \o <<Completed, Closed>>
    <3>1. /\ DOMAIN inbox' = 1 .. Len(inbox) + 2 /\ inbox'[Len(inbox) + 1] = Completed
          /\ inbox'[Len(inbox) + 2] = Closed
          /\ \A i \in DOMAIN inbox : inbox'[i] = inbox[i]
      BY <1>1, <2>2, PostedTwo
    <3>2. Len(inbox) + 2 \in DOMAIN inbox' /\ \A i \in DOMAIN inbox : Len(inbox) + 2 > i
      BY <2>0, <3>1
    <3>3. \A i \in DOMAIN inbox : i \in DOMAIN inbox' /\ ClosedAfter(i)'
      BY <2>0, <3>1, <3>2 DEF ClosedAfter, Closed
    <3>4. \A i \in DOMAIN inbox' : inbox'[i] = Value => i \in DOMAIN inbox
      <4> SUFFICES ASSUME NEW i \in DOMAIN inbox', inbox'[i] = Value PROVE i \in DOMAIN inbox
        OBVIOUS
      <4>1. i # Len(inbox) + 1 /\ i # Len(inbox) + 2
        BY <1>1, <3>1
      <4> QED BY <2>0, <3>1, <4>1
    <3>5. \A k \in DOMAIN inbox' : \A j \in DOMAIN inbox : k < j => k \in DOMAIN inbox
      BY <2>0, <3>1
    <3> QED BY <3>1, <3>3, <3>4, <3>5
  <2> QED BY <1>2, <2>1, <2>2
<1>4. Values'
  <2> SUFFICES ASSUME NEW i \in DOMAIN inbox', inbox'[i] = Value
               PROVE  InWait(i)' /\ ClosedAfter(i)'
    BY DEF Values
  <2>1. i \in DOMAIN inbox /\ inbox[i] = Value
    BY <1>3
  <2>2. InWait(i)
    BY <2>1 DEF Waiting, Values
  <2>3. \A k : OpenBetween(k, i) => OpenBetween(k, i)'
    BY <1>3, <2>1 DEF OpenBetween
  <2>4. InWait(i)'
    BY <1>2, <1>3, <2>2, <2>3 DEF InWait
  <2> QED BY <1>3, <2>1, <2>4
<1> QED BY <1>2, <1>4 DEF Waiting, Subscriber, NoneYet, OneValue

LEMMA StackWaits ==
  ASSUME CInv, Waiting, Report \/ Connect \/ Procedure
  PROVE  Waiting'
<1>1. TypeOK /\ OneCompletion /\ inbox \in Seq(Events)
  BY DEF CInv, TypeOK
<1>2. CASE Report
  <2>1. PICK e \in {"server_report", "other_report"} : inbox' = inbox \o <<e>>
    BY <1>2 DEF Report, Post
  <2>2. e \in Events \ {Value, Closed}
    BY DEF Events, Value, Closed
  <2>3. UNCHANGED <<next_state, characteristic_handle, link, procedure, subscribed, indicated>>
    BY <1>2 DEF Report, client, ble_data, stack, gatt
  <2> QED BY <1>1, <2>1, <2>2, <2>3, AddedKeeps
<1>3. CASE Connect
  <2>1. "connection_opened" \in Events \ {Value, Closed}
    BY DEF Events, Value, Closed
  <2>2. /\ inbox' = inbox \o <<"connection_opened">> /\ link = "initiating"
        /\ UNCHANGED <<next_state, characteristic_handle, procedure, subscribed, indicated>>
    BY <1>3 DEF Connect, Post, client, ble_data, gatt
  <2>3. ~subscribed
    BY <2>2 DEF Waiting, Subscriber
  <2> QED BY <1>1, <2>1, <2>2, <2>3, AddedKeeps
<1>4. ASSUME procedure # "none" PROVE ~subscribed
  BY <1>4 DEF Waiting, Subscriber
<1>5. CASE \/ Found("services", "service found", "gatt_service")
           \/ Found("characteristics", "characteristic found", "gatt_characteristic")
  <2>1. PICK e \in {"gatt_service", "gatt_characteristic"} : inbox' = inbox \o <<e>>
    BY <1>5 DEF Found, Post
  <2>2. e \in Events \ {Value, Closed}
    BY DEF Events, Value, Closed
  <2>3. /\ UNCHANGED <<next_state, characteristic_handle, link, subscribed, indicated>>
        /\ procedure # "none" /\ procedure' # "notification"
    BY <1>5 DEF Found, client, ble_data
  <2> QED BY <1>1, <1>4, <2>1, <2>2, <2>3, AddedKeeps
<1>6. CASE Succeed \/ Fail
  <2>1. Completed \in Events \ {Value, Closed}
    BY DEF Events, Value, Closed, Completed
  <2>2. /\ inbox' = inbox \o <<Completed>> /\ procedure # "none" /\ procedure' = "none"
        /\ UNCHANGED <<next_state, characteristic_handle, link, indicated>>
    BY <1>6 DEF Succeed, Fail, Post, client, ble_data, Completed
  <2>3. CASE subscribed' = subscribed
    BY <1>1, <1>4, <2>1, <2>2, <2>3, AddedKeeps
  <2>4. CASE subscribed' # subscribed
    <3>1. /\ procedure = "notification" /\ subscribed' /\ characteristic_handle # None
      BY <1>1, <1>6, <2>4 DEF Succeed, Fail, TypeOK
    <3>2. /\ link = "connected" /\ characteristic_handle = "characteristic"
          /\ next_state = "STATE_SET_NOTIFICATION" /\ ~Pending(Value) /\ ~subscribed
      BY <1>1, <1>4, <3>1 DEF CInv, Kinds, TypeOK, Waiting, NoneYet
    <3>3. \E i \in DOMAIN inbox' : inbox'[i] = Completed /\ ~ClosedAfter(i)'
      BY <1>1, <2>1, <2>2, Added
    <3>4. ~Pending(Value)' /\ ~indicated'
      BY <1>1, <2>1, <2>2, <3>2, Added DEF Waiting, OneValue
    <3> QED BY <2>2, <3>1, <3>2, <3>3, <3>4
            DEF Waiting, Subscriber, NoneYet, Values, OneValue, Pending
  <2> QED BY <2>3, <2>4
<1> QED BY <1>2, <1>3, <1>5, <1>6 DEF Procedure

LEMMA WaitingKept == CInv /\ Waiting /\ [Next]_vars => Waiting'
<1> SUFFICES ASSUME CInv, Waiting, [Next]_vars PROVE Waiting'
  OBVIOUS
<1>1. CASE CharacteristicValue
  BY <1>1, ValueConfirmed
<1>2. CASE sl_bt_on_event /\ ~CharacteristicValue
  BY <1>2, OtherHandlers, MachineWaits
<1>3. CASE UNCHANGED vars
  <2>1. UNCHANGED <<next_state, characteristic_handle, link, procedure, subscribed, indicated, inbox>>
    BY <1>3 DEF vars, client, ble_data, stack, gatt
  <2>2. UNCHANGED Waiting
    BY <2>1 DEF Waiting, Subscriber, NoneYet, Values, OneValue, InWait, Only, OpenBetween,
                ClosedAfter, Pending
  <2> QED BY <2>2
<1> QED BY <1>1, <1>2, <1>3, IndicateWaits, DisconnectWaits, StackWaits DEF Next

LEMMA AllWaits == Spec => [](CInv /\ Waiting)
<1>1. Init => Waiting
  <2> SUFFICES ASSUME Init PROVE Waiting
    OBVIOUS
  <2>1. procedure = "none" /\ ~subscribed /\ ~indicated /\ inbox = <<"system_boot">>
    BY DEF Init
  <2>2. \A i \in DOMAIN inbox : inbox[i] # Value
    BY <2>1 DEF Value
  <2> QED BY <2>1, <2>2 DEF Waiting, Subscriber, NoneYet, Values, OneValue
<1>2. CInv /\ Waiting /\ [Next]_vars => Waiting'
  BY WaitingKept
<1> QED BY <1>1, <1>2, InvariantHolds, PTL DEF Spec

(* While the server waits for a confirmation its indication is in the      *)
(* inbox, once, and the client holds the handle that lets it confirm; a    *)
(* server that does not wait has no value on its way that the client could *)
(* take for a new one.                                                     *)
ConfirmationIsDue ==
  subscribed =>
    /\ link = "connected" /\ characteristic_handle = "characteristic"
    /\ IF indicated THEN \E i \in DOMAIN inbox : Only(i) ELSE ~Pending(Value)

(* Each event the client handles brings the confirmation closer, and no    *)
(* step but the end of the connection takes it away.                       *)
ConfirmationComesCloser ==
  [][indicated /\ ~Disconnect =>
       \A i \in DOMAIN inbox : inbox[i] = Value =>
         IF sl_bt_on_event
         THEN IF i = 1 THEN ~indicated' ELSE indicated' /\ inbox'[i - 1] = Value
         ELSE indicated' /\ inbox'[i] = Value]_vars

LEMMA ConfirmationStep ==
  ASSUME CInv, Waiting, Next, indicated, ~Disconnect, NEW i \in DOMAIN inbox, inbox[i] = Value
  PROVE  IF sl_bt_on_event
         THEN IF i = 1 THEN ~indicated' ELSE indicated' /\ inbox'[i - 1] = Value
         ELSE indicated' /\ inbox'[i] = Value
<1>1. i = 1 \/ inbox[1] # Value
  <2>0. inbox \in Seq(Events)
    BY DEF CInv, TypeOK
  <2>1. DOMAIN inbox = 1 .. Len(inbox) /\ Len(inbox) \in Nat
    BY <2>0
  <2>2. 1 \in DOMAIN inbox
    BY <2>1
  <2> QED BY <2>2 DEF Waiting, OneValue, Only
<1>2. CASE CharacteristicValue
  <2>1. Handling(Value) /\ Value \in Events
    BY <1>2 DEF CharacteristicValue, Value, Events
  <2>2. i = 1
    BY <1>1, <2>1, Moved
  <2> QED BY <1>2, <2>2, ValueConfirmed DEF sl_bt_on_event
<1>3. CASE sl_bt_on_event /\ ~CharacteristicValue
  <2>1. PICK e \in Events : e # Value /\ Handling(e) /\ discovery_state_machine(e)
    BY <1>3, OtherHandlers
  <2>2. i # 1 /\ inbox'[i - 1] = Value
    BY <2>1, Moved
  <2>3. indicated' = indicated
    BY <2>1, MachineEffect DEF CInv
  <2> QED BY <1>3, <2>2, <2>3
<1>4. CASE ~sl_bt_on_event
  <2>1. ~Indicate
    BY DEF Indicate
  <2>2. \E e \in Events : inbox' = inbox \o <<e>>
    BY <1>4, <2>1 DEF Next, Report, Connect, Procedure, Found, Succeed, Fail, Post, Events
  <2>3. indicated' = indicated
    BY <1>4, <2>1 DEF Next, Report, Connect, Procedure, Found, Succeed, Fail, stack, gatt
  <2>4. inbox'[i] = inbox[i]
    BY <2>2, Added DEF CInv, TypeOK
  <2> QED BY <1>4, <2>3, <2>4
<1> QED BY <1>2, <1>3, <1>4

(* The server is never left waiting for a confirmation the client cannot   *)
(* give: through connections that come and go, the indication waits in the *)
(* inbox once, nothing but the events before it delays it, and the handler *)
(* that takes it confirms.                                                 *)
THEOREM ConfirmationsCome == Spec => []ConfirmationIsDue /\ ConfirmationComesCloser
<1> DEFINE A == indicated /\ ~Disconnect =>
                  \A i \in DOMAIN inbox : inbox[i] = Value =>
                    IF sl_bt_on_event
                    THEN IF i = 1 THEN ~indicated' ELSE indicated' /\ inbox'[i - 1] = Value
                    ELSE indicated' /\ inbox'[i] = Value
<1>1. CInv /\ Waiting => ConfirmationIsDue
  <2> SUFFICES ASSUME CInv, Waiting, subscribed, ~indicated PROVE ~Pending(Value)
    BY DEF ConfirmationIsDue, Waiting, Subscriber, OneValue
  <2> QED BY NoOldValues DEF CInv, Pending
<1>2. CInv /\ Waiting /\ [Next]_vars => [A]_vars
  BY ConfirmationStep
<1> QED BY <1>1, <1>2, AllWaits, PTL DEF Spec, ConfirmationComesCloser

-----------------------------------------------------------------------------
(* A discovery comes to its end.                                           *)

(* A machine at rest has seen no connection open. *)
AtRest == next_state = "STATE_CLOSE" => ~connection_open

(* On a link that is up, what a machine at rest waits for is on its way.   *)
DiscoveryIsDue ==
  next_state = "STATE_CLOSE" /\ link = "connected" => Pending("connection_opened")

(* The end of a procedure that belongs to a connection before this one.    *)
OldEnd == \E i \in DOMAIN inbox : inbox[i] = Completed /\ ClosedAfter(i)

(* How many steps of the procedures and of the machine are left, at most,  *)
(* until the discovery on this link is over.                               *)
Left ==
  CASE next_state = "STATE_CLOSE" -> 9
    [] next_state = "STATE_OPEN" ->
         (CASE procedure = "services" -> 8 [] procedure = "service found" -> 7 [] OTHER -> 6)
    [] next_state = "STATE_DISCOVER_CHARACTERISTICS" ->
         (CASE procedure = "characteristics" -> 5
            [] procedure = "characteristic found" -> 4
            [] OTHER -> 3)
    [] next_state = "STATE_SET_NOTIFICATION" ->
         (IF procedure = "notification" THEN 2 ELSE IF OldEnd THEN 11 ELSE 1)
    [] OTHER -> (IF Pending(Closed) THEN 10 ELSE 0)

(* While the link lasts and the machine does not stall, no step takes it   *)
(* back, and each step of a procedure, and each handling of the event the  *)
(* state awaits, takes it on.                                              *)
DiscoveryComesCloser ==
  [][link = "connected" /\ link' = "connected" /\ ~Stalled' =>
       /\ Left' <= Left
       /\ Procedure \/ Handling(Awaited) => Left' < Left]_vars

LEMMA AtRestKept == CInv /\ AtRest /\ [Next]_vars => AtRest'
<1> SUFFICES ASSUME CInv, AtRest, [Next]_vars PROVE AtRest'
  OBVIOUS
<1>1. CASE sl_bt_on_event /\ ~CharacteristicValue
  <2>1. PICK e \in Events : Handling(e) /\ discovery_state_machine(e)
    BY <1>1, OtherHandlers
  <2>2. PICK d \in Events :
          /\ Handling(d)
          /\ d \in {"connection_closed", "system_boot"} => connection_open' = FALSE
          /\ d \notin {"connection_opened", "connection_closed", "system_boot"} =>
               connection_open' = connection_open
    BY <1>1, HandlerEffect
  <2>3. d = e
    BY <2>1, <2>2 DEF Handling
  <2>4. next_state' = "STATE_CLOSE" =>
          e = "connection_closed" \/ (next_state = "STATE_CLOSE" /\ e # "connection_opened")
    BY <2>1 DEF discovery_state_machine, DiscoverService, DiscoverCharacteristics,
                SetNotification, NotificationSet, ConnectionLost, Ignored, Awaited
  <2> QED BY <2>2, <2>3, <2>4 DEF AtRest
<1>2. CASE CharacteristicValue
  BY <1>2 DEF CharacteristicValue, ble_data, AtRest
<1>3. CASE Report \/ Connect \/ Disconnect \/ Procedure \/ Indicate
  BY <1>3 DEF Report, Connect, Disconnect, Procedure, Found, Succeed, Fail, Indicate,
              client, ble_data, AtRest
<1>4. CASE UNCHANGED vars
  BY <1>4 DEF vars, client, ble_data, AtRest
<1> QED BY <1>1, <1>2, <1>3, <1>4 DEF Next

LEMMA RestIsDue == CInv /\ AtRest => DiscoveryIsDue
<1> SUFFICES ASSUME CInv, AtRest, next_state = "STATE_CLOSE", link = "connected"
             PROVE  Pending("connection_opened")
  BY DEF DiscoveryIsDue
<1>1. connection_open = FALSE /\ inbox \in Seq(Events)
  BY DEF AtRest, CInv, TypeOK
<1>2. (link = "connected") = TRUE
  OBVIOUS
<1>3. Timeline(inbox, FALSE, TRUE)
  BY <1>1, <1>2 DEF CInv, Link
<1>4. PICK open : Line(inbox, open, FALSE, TRUE)
  BY <1>3 DEF Timeline
<1>5. DOMAIN inbox = 1 .. Len(inbox) /\ Len(inbox) \in Nat
  BY <1>1
<1>6. 0 \in 0 .. Len(inbox) /\ Len(inbox) \in 0 .. Len(inbox) /\ 0 <= Len(inbox)
  BY <1>5
<1>7. PICK k \in 0 + 1 .. Len(inbox) : inbox[k] = "connection_opened"
  BY <1>4, <1>6 DEF Line
<1> QED BY <1>5, <1>7 DEF Pending

(* What is left of an old connection when the first event is handled.      *)
LEMMA OldEndMoves ==
  ASSUME CInv, NEW e \in Events, Handling(e)
  PROVE  /\ OldEnd' => OldEnd
         /\ e = Completed /\ Pending(Closed)' => OldEnd
<1>1. OldEnd' => OldEnd
  <2> SUFFICES ASSUME NEW i \in DOMAIN inbox', inbox'[i] = Completed, ClosedAfter(i)'
               PROVE  OldEnd
    BY DEF OldEnd
  <2>1. i + 1 \in DOMAIN inbox /\ inbox[i + 1] = Completed /\ ClosedAfter(i + 1)
    BY Moved
  <2> QED BY <2>1 DEF OldEnd
<1>2. ASSUME e = Completed, Pending(Closed)'
      PROVE  OldEnd
  <2>1. PICK i \in DOMAIN inbox' : inbox'[i] = Closed
    BY <1>2 DEF Pending
  <2>2. i \in DOMAIN inbox' /\ i \in Nat /\ i + 1 \in DOMAIN inbox /\ inbox[i + 1] = Closed
    BY <2>1, Moved
  <2>3. i >= 1
    <3>1. inbox' \in Seq(Events)
      BY HandledLeaves
    <3> QED BY <2>1, <3>1
  <2>4. ClosedAfter(1)
    BY <2>2, <2>3 DEF ClosedAfter, Closed
  <2> QED BY <1>2, <2>4, Moved DEF OldEnd
<1> QED BY <1>1, <1>2

(* A handler: the machine moves on with the event it awaits, or not at all.*)
LEMMA HandlerComesCloser ==
  ASSUME CInv, NEW e \in Events, Handling(e),
         discovery_state_machine(e) \/ (UNCHANGED <<next_state, procedure>> /\ e # Awaited),
         ~Stalled', link = "connected"
  PROVE  Left' <= Left /\ (e = Awaited => Left' < Left)
<1>1. /\ OldEnd' => OldEnd
      /\ e = Completed /\ Pending(Closed)' => OldEnd
      /\ Pending(Closed)' => Pending(Closed)
      /\ Pending(e)
  BY OldEndMoves, Moved DEF Pending
<1>2. CASE UNCHANGED <<next_state, procedure>> /\ e # Awaited
  BY <1>1, <1>2 DEF Left
<1>3. CASE Ignored(e)
  BY <1>1, <1>3 DEF Left, Ignored, gatt
<1>4. CASE DiscoverService(e)
  <2>1. ~Pending(Completed)'
    BY <1>4, HandledLeaves DEF DiscoverService, CInv, OneCompletion, Discovering
  <2>2. next_state = "STATE_CLOSE" /\ next_state' = "STATE_OPEN" /\ procedure' = "services"
    <3>1. procedure' # "none"
      BY <1>4, <2>1 DEF DiscoverService, Stalled, Discovering, Completed
    <3>2. procedure = "none"
      BY <1>4 DEF DiscoverService, CInv, OneCompletion, Discovering
    <3> QED BY <1>4, <3>1, <3>2 DEF DiscoverService, gatt_command
  <2> QED BY <2>2 DEF Left
<1>5. ASSUME e = Completed, Discovering
      PROVE  procedure = "none" /\ ~Pending(Completed)'
  BY <1>1, <1>5, HandledEvent DEF CInv, OneCompletion
<1>6. CASE DiscoverCharacteristics(e)
  <2>1. e = Completed /\ Discovering
    BY <1>6 DEF DiscoverCharacteristics, Completed, Discovering
  <2>2. next_state = "STATE_OPEN" /\ next_state' = "STATE_DISCOVER_CHARACTERISTICS"
    BY <1>6 DEF DiscoverCharacteristics
  <2>3. procedure' = "characteristics"
    <3>1. procedure' # "none"
      BY <1>5, <2>1, <2>2 DEF Stalled, Discovering, Completed
    <3> QED BY <1>5, <1>6, <2>1, <3>1 DEF DiscoverCharacteristics, gatt_command
  <2> QED BY <1>5, <2>1, <2>2, <2>3 DEF Left
<1>7. CASE SetNotification(e)
  <2>1. e = Completed /\ Discovering
    BY <1>7 DEF SetNotification, Completed, Discovering
  <2>2. next_state = "STATE_DISCOVER_CHARACTERISTICS" /\ next_state' = "STATE_SET_NOTIFICATION"
    BY <1>7 DEF SetNotification
  <2>3. procedure' = "notification"
    <3>1. procedure' # "none"
      BY <1>5, <2>1, <2>2 DEF Stalled, Discovering, Completed
    <3> QED BY <1>5, <1>7, <2>1, <3>1 DEF SetNotification, gatt_command
  <2> QED BY <1>5, <2>1, <2>2, <2>3 DEF Left
<1>8. CASE NotificationSet(e)
  <2>1. e = Completed /\ Discovering
    BY <1>8 DEF NotificationSet, Completed, Discovering
  <2>2. next_state = "STATE_SET_NOTIFICATION" /\ next_state' = "STATE_WAIT"
    BY <1>8 DEF NotificationSet
  <2> QED BY <1>1, <1>5, <2>1, <2>2 DEF Left
<1>9. CASE ConnectionLost(e)
  <2>1. next_state = "STATE_WAIT" /\ next_state' = "STATE_CLOSE" /\ Pending(Closed)
    BY <1>1, <1>9 DEF ConnectionLost, Closed
  <2> QED BY <2>1 DEF Left
<1> QED BY <1>2, <1>3, <1>4, <1>6, <1>7, <1>8, <1>9 DEF discovery_state_machine

(* An event of the stack, other than the end of a connection.              *)
LEMMA StackComesCloser ==
  ASSUME CInv, NEW e \in Events \ {Closed}, inbox' = inbox \o <<e>>, next_state' = next_state
  PROVE  /\ procedure' = procedure => Left' <= Left
         /\ Procedure => Left' < Left
<1>1. inbox \in Seq(Events) /\ e # Closed
  BY DEF CInv, TypeOK
<1>2. Pending(Closed)' => Pending(Closed)
  BY <1>1, Added
<1>3. OldEnd' => OldEnd
  <2>1. PICK n : n = Len(inbox) + 1
    OBVIOUS
  <2> SUFFICES ASSUME NEW i \in DOMAIN inbox', inbox'[i] = Completed, ClosedAfter(i)'
               PROVE  OldEnd
    BY DEF OldEnd
  <2>2. i \in DOMAIN inbox
    BY <1>1, <2>1, Added
  <2> QED BY <1>1, <2>1, <2>2, Added DEF OldEnd
<1>4. procedure' = procedure => Left' <= Left
  BY <1>2, <1>3 DEF Left
<1>5. 6 < 7 /\ 6 < 8 /\ 7 < 8 /\ 3 < 4 /\ 3 < 5 /\ 4 < 5
  OBVIOUS
<1>6. ASSUME Procedure
      PROVE  Left' < Left
  <2>1. /\ procedure # "none"
        /\ \/ procedure = "services" /\ procedure' = "service found"
           \/ procedure = "characteristics" /\ procedure' = "characteristic found"
           \/ procedure' = "none"
    BY <1>6 DEF Procedure, Found, Succeed, Fail
  <2>2. Discovering /\ ~OldEnd
    BY <2>1 DEF CInv, OneCompletion, OldEnd, Pending
  <2>3. CASE next_state = "STATE_OPEN"
    <3>1. procedure \in {"services", "service found"} /\ next_state' = "STATE_OPEN"
      BY <2>1, <2>3 DEF CInv, Kinds
    <3>2. Left = IF procedure = "services" THEN 8 ELSE 7
      BY <2>3, <3>1 DEF Left
    <3>3. IF procedure = "services" THEN Left' \in {6, 7} ELSE Left' = 6
      BY <2>1, <3>1 DEF Left
    <3> QED BY <1>5, <3>2, <3>3
  <2>4. CASE next_state = "STATE_DISCOVER_CHARACTERISTICS"
    <3>1. procedure \in {"characteristics", "characteristic found"}
          /\ next_state' = "STATE_DISCOVER_CHARACTERISTICS"
      BY <2>1, <2>4 DEF CInv, Kinds
    <3>2. Left = IF procedure = "characteristics" THEN 5 ELSE 4
      BY <2>4, <3>1 DEF Left
    <3>3. IF procedure = "characteristics" THEN Left' \in {3, 4} ELSE Left' = 3
      BY <2>1, <3>1 DEF Left
    <3> QED BY <1>5, <3>2, <3>3
  <2>5. CASE next_state = "STATE_SET_NOTIFICATION"
    <3>1. procedure = "notification" /\ next_state' = "STATE_SET_NOTIFICATION"
      BY <2>1, <2>5 DEF CInv, Kinds
    <3>2. procedure' = "none" /\ ~OldEnd'
      BY <1>3, <2>1, <2>2, <3>1
    <3> QED BY <2>5, <3>1, <3>2 DEF Left
  <2> QED BY <2>2, <2>3, <2>4, <2>5 DEF Discovering
<1> QED BY <1>4, <1>6

(* On a link that lasts, a machine that does not stall has at most eleven  *)
(* steps left to the end of its discovery; nothing undoes one, and at rest *)
(* it has the event on its way that begins it.                             *)
THEOREM DiscoveriesComeCloser == Spec => []DiscoveryIsDue /\ DiscoveryComesCloser
<1> DEFINE A == link = "connected" /\ link' = "connected" /\ ~Stalled' =>
                  /\ Left' <= Left
                  /\ Procedure \/ Handling(Awaited) => Left' < Left
<1>1. Init => AtRest
  BY DEF Init, AtRest
<1>2. Spec => [](CInv /\ AtRest)
  BY <1>1, InitHolds, NextKeeps, AtRestKept, PTL DEF Spec
<1>3. CInv /\ [Next]_vars => [A]_vars
  <2> SUFFICES ASSUME CInv, Next, link = "connected", link' = "connected", ~Stalled'
               PROVE  /\ Left' <= Left
                      /\ Procedure \/ Handling(Awaited) => Left' < Left
    OBVIOUS
  <2>1. CASE sl_bt_on_event
    <3>1. PICK e \in Events :
            /\ Handling(e)
            /\ discovery_state_machine(e) \/ (UNCHANGED <<next_state, procedure>> /\ e # Awaited)
      <4>1. CASE CharacteristicValue
        BY <4>1 DEF CharacteristicValue, Events, Awaited
      <4>2. CASE ~CharacteristicValue
        BY <2>1, <4>2, OtherHandlers
      <4> QED BY <4>1, <4>2
    <3>2. Left' <= Left /\ (e = Awaited => Left' < Left)
      BY <3>1, HandlerComesCloser
    <3>3. ~Procedure
      <4>1. inbox \in Seq(Events) /\ inbox # << >> /\ inbox' = Tail(inbox)
        BY <3>1, HandledLeaves
      <4>2. \A d : inbox' # inbox \o <<d>>
        BY <4>1
      <4> QED BY <4>2 DEF Procedure, Found, Succeed, Fail, Post
    <3>4. Handling(Awaited) => e = Awaited
      BY <3>1 DEF Handling
    <3> QED BY <3>2, <3>3, <3>4
  <2>2. CASE Report \/ Procedure \/ Indicate
    <3>1. PICK e \in Events \ {Closed} : inbox' = inbox \o <<e>>
      BY <2>2 DEF Report, Procedure, Found, Succeed, Fail, Indicate, Post, Events, Closed
    <3>2. next_state' = next_state /\ (~Procedure => procedure' = procedure)
      BY <2>2 DEF Report, Procedure, Found, Succeed, Fail, Indicate, client, stack, gatt
    <3>3. ~Handling(Awaited)
      <4>1. inbox \in Seq(Events)
        BY DEF CInv, TypeOK
      <4>2. inbox # << >> => inbox' # Tail(inbox)
        BY <3>1, <4>1
      <4> QED BY <4>2 DEF Handling
    <3>4. Procedure => Left' < Left
      BY <3>1, <3>2, StackComesCloser
    <3>5. ~Procedure => Left' <= Left
      BY <3>1, <3>2, StackComesCloser
    <3>6. Left \in Nat /\ Left' \in Nat
      BY DEF Left
    <3> QED BY <3>3, <3>4, <3>5, <3>6
  <2>3. CASE Connect \/ Disconnect
    BY <2>3 DEF Connect, Disconnect
  <2> QED BY <2>1, <2>2, <2>3 DEF Next
<1>4. CInv /\ AtRest => DiscoveryIsDue
  BY RestIsDue
<1> QED BY <1>2, <1>3, <1>4, PTL DEF Spec, DiscoveryComesCloser
=============================================================================
