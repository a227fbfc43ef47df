--------------------------- MODULE BleClientProofs --------------------------
(***************************************************************************)
(* The client's discovery, for inboxes of every length: one procedure at a *)
(* time, and what happens when the end of one is lost.                     *)
(***************************************************************************)
EXTENDS BleClient, TLAPS

Completed == "gatt_procedure_completed"

(* The end of a procedure is on its way at most once, and only for a       *)
(* machine that waits for it.                                              *)
OneCompletion ==
  /\ inbox \in Seq(Events)
  /\ procedure \in {"none", "services", "service found", "characteristics",
                    "characteristic found", "notification"}
  /\ next_state \in States
  /\ procedure # "none" => Discovering /\ ~Pending(Completed)
  /\ Pending(Completed) => Discovering
  /\ \A i, j \in DOMAIN inbox : inbox[i] = Completed /\ inbox[j] = Completed => i = j

-----------------------------------------------------------------------------
(* The inbox after the thread took its first event, and after the stack    *)
(* added some.                                                             *)
LEMMA Taken ==
  ASSUME NEW s \in Seq(Events), s # << >>
  PROVE  /\ Tail(s) \in Seq(Events)
         /\ DOMAIN Tail(s) = 1 .. Len(s) - 1
         /\ \A i \in DOMAIN Tail(s) : i + 1 \in DOMAIN s /\ Tail(s)[i] = s[i + 1]
         /\ 1 \in DOMAIN s /\ Head(s) = s[1]
  OBVIOUS

LEMMA PostedOne ==
  ASSUME NEW s \in Seq(Events), NEW e \in Events
  PROVE  /\ s \o <<e>> \in Seq(Events)
         /\ DOMAIN (s \o <<e>>) = 1 .. Len(s) + 1
         /\ \A i \in DOMAIN s : (s \o <<e>>)[i] = s[i]
         /\ (s \o <<e>>)[Len(s) + 1] = e
  OBVIOUS

LEMMA PostedTwo ==
  ASSUME NEW s \in Seq(Events), NEW d \in Events, NEW e \in Events
  PROVE  /\ s \o <<d, e>> \in Seq(Events)
         /\ DOMAIN (s \o <<d, e>>) = 1 .. Len(s) + 2
         /\ \A i \in DOMAIN s : (s \o <<d, e>>)[i] = s[i]
         /\ (s \o <<d, e>>)[Len(s) + 1] = d
         /\ (s \o <<d, e>>)[Len(s) + 2] = e
  OBVIOUS

(* Handling an event takes it from the inbox.  With one completion pending *)
(* at most, none is left when it is the one that is handled.               *)
LEMMA HandledEvent ==
  ASSUME OneCompletion, NEW e \in Events, Handling(e)
  PROVE  /\ inbox' \in Seq(Events)
         /\ Pending(Completed)' => Pending(Completed)
         /\ e = Completed => Pending(Completed) /\ ~Pending(Completed)'
         /\ e # Completed /\ Pending(Completed) => Pending(Completed)'
         /\ \A i, j \in DOMAIN inbox' : inbox'[i] = Completed /\ inbox'[j] = Completed => i = j
<1>1. inbox \in Seq(Events) /\ inbox # << >> /\ inbox' = Tail(inbox) /\ Head(inbox) = e
  BY DEF OneCompletion, Handling
<1>2. /\ inbox' \in Seq(Events) /\ DOMAIN inbox' = 1 .. Len(inbox) - 1
      /\ \A i \in DOMAIN inbox' : i + 1 \in DOMAIN inbox /\ inbox'[i] = inbox[i + 1]
      /\ 1 \in DOMAIN inbox /\ inbox[1] = e
  BY <1>1, Taken
<1>3. DOMAIN inbox = 1 .. Len(inbox) /\ Len(inbox) \in Nat
  BY <1>1
<1>4. \A i, j \in DOMAIN inbox : inbox[i] = Completed /\ inbox[j] = Completed => i = j
  BY DEF OneCompletion
<1>5. Pending(Completed)' => Pending(Completed)
  BY <1>2 DEF Pending
<1>6. e = Completed => Pending(Completed) /\ ~Pending(Completed)'
  <2> SUFFICES ASSUME e = Completed, NEW i \in DOMAIN inbox', inbox'[i] = Completed
               PROVE  FALSE
    BY <1>2 DEF Pending
  <2> QED BY <1>2, <1>4
<1>7. ASSUME e # Completed, NEW k \in DOMAIN inbox, inbox[k] = Completed
      PROVE  Pending(Completed)'
  <2>1. k # 1
    BY <1>2, <1>7
  <2>2. k - 1 \in DOMAIN inbox' /\ inbox'[k - 1] = inbox[k]
    BY <1>2, <1>3, <1>7, <2>1
  <2> QED BY <1>7, <2>2 DEF Pending
<1>8. ASSUME NEW i \in DOMAIN inbox', NEW j \in DOMAIN inbox',
             inbox'[i] = Completed, inbox'[j] = Completed
      PROVE  i = j
  <2>1. i + 1 = j + 1
    BY <1>2, <1>4, <1>8
  <2> QED BY <1>2, <2>1
<1> QED BY <1>2, <1>5, <1>6, <1>7, <1>8 DEF Pending

(* An event the stack posts, other than a completion or with none pending. *)
LEMMA PostedEvent ==
  ASSUME OneCompletion, NEW e \in Events, inbox' = inbox \o <<e>>
  PROVE  /\ inbox' \in Seq(Events)
         /\ Pending(Completed)' <=> Pending(Completed) \/ e = Completed
         /\ e = Completed => Pending(Completed)'
         /\ ~(e = Completed /\ Pending(Completed)) =>
              \A i, j \in DOMAIN inbox' : inbox'[i] = Completed /\ inbox'[j] = Completed => i = j
<1>1. inbox \in Seq(Events)
  BY DEF OneCompletion
<1>2. /\ inbox' \in Seq(Events) /\ DOMAIN inbox' = 1 .. Len(inbox) + 1
      /\ \A i \in DOMAIN inbox : inbox'[i] = inbox[i]
      /\ inbox'[Len(inbox) + 1] = e
  BY <1>1, PostedOne
<1>3. DOMAIN inbox = 1 .. Len(inbox) /\ Len(inbox) \in Nat
  BY <1>1
<1>4. \A i \in DOMAIN inbox' : i \in DOMAIN inbox \/ i = Len(inbox) + 1
  BY <1>2, <1>3
<1>5. Len(inbox) + 1 \in DOMAIN inbox' /\ DOMAIN inbox \subseteq DOMAIN inbox'
  BY <1>2, <1>3
<1>6. \A i, j \in DOMAIN inbox : inbox[i] = Completed /\ inbox[j] = Completed => i = j
  BY DEF OneCompletion
<1> QED BY <1>2, <1>4, <1>5, <1>6 DEF Pending

(* The end of a procedure that the stack reports together with the end of  *)
(* the connection.                                                         *)
LEMMA PostedEnd ==
  ASSUME OneCompletion, ~Pending(Completed),
         inbox' = inbox \o <<Completed, "connection_closed">>
  PROVE  /\ inbox' \in Seq(Events)
         /\ Pending(Completed)'
         /\ \A i, j \in DOMAIN inbox' : inbox'[i] = Completed /\ inbox'[j] = Completed => i = j
<1>1. inbox \in Seq(Events)
  BY DEF OneCompletion
<1>2. DOMAIN inbox = 1 .. Len(inbox) /\ Len(inbox) \in Nat
  BY <1>1
<1>3. Completed \in Events /\ "connection_closed" \in Events /\ Completed # "connection_closed"
  BY DEF Completed, Events
<1>4. /\ inbox' \in Seq(Events) /\ DOMAIN inbox' = 1 .. Len(inbox) + 2
      /\ \A i \in DOMAIN inbox : inbox'[i] = inbox[i]
      /\ inbox'[Len(inbox) + 1] = Completed
      /\ inbox'[Len(inbox) + 2] = "connection_closed"
  BY <1>1, <1>3, PostedTwo
<1>5. \A i \in DOMAIN inbox' : i \in DOMAIN inbox \/ i = Len(inbox) + 1 \/ i = Len(inbox) + 2
  BY <1>2, <1>4
<1>6. \A i \in DOMAIN inbox' : inbox'[i] = Completed => i = Len(inbox) + 1
  BY <1>3, <1>4, <1>5 DEF Pending
<1>7. Len(inbox) + 1 \in DOMAIN inbox'
  BY <1>2, <1>4
<1> QED BY <1>4, <1>6, <1>7 DEF Pending

-----------------------------------------------------------------------------
(* The strengthening holds initially and every step preserves it.          *)
LEMMA InitEstablishes == Init => OneCompletion
<1> SUFFICES ASSUME Init PROVE OneCompletion
  OBVIOUS
<1>1. inbox = <<"system_boot">> /\ procedure = "none" /\ next_state = "STATE_CLOSE"
  BY DEF Init
<1>2. inbox \in Seq(Events)
  BY <1>1 DEF Events
<1>3. ~Pending(Completed) /\ \A i \in DOMAIN inbox : inbox[i] # Completed
  BY <1>1 DEF Pending, Completed
<1> QED BY <1>1, <1>2, <1>3 DEF OneCompletion, States

(* The machine on one event.                                               *)
LEMMA MachineStep ==
  ASSUME OneCompletion, NEW e \in Events, Handling(e), discovery_state_machine(e)
  PROVE  OneCompletion'
<1> USE DEF OneCompletion
<1>1. /\ inbox' \in Seq(Events)
      /\ Pending(Completed)' => Pending(Completed)
      /\ e = Completed => Pending(Completed) /\ ~Pending(Completed)'
      /\ \A i, j \in DOMAIN inbox' : inbox'[i] = Completed /\ inbox'[j] = Completed => i = j
  BY HandledEvent
<1>2. CASE DiscoverService(e)
  BY <1>1, <1>2 DEF DiscoverService, gatt_command, Discovering, States
<1>3. CASE DiscoverCharacteristics(e)
  BY <1>1, <1>3 DEF DiscoverCharacteristics, gatt_command, Discovering, States, Completed
<1>4. CASE SetNotification(e)
  BY <1>1, <1>4 DEF SetNotification, gatt_command, Discovering, States, Completed
<1>5. CASE NotificationSet(e)
  BY <1>1, <1>5 DEF NotificationSet, gatt, Discovering, States, Completed
<1>6. CASE ConnectionLost(e)
  BY <1>1, <1>6 DEF ConnectionLost, gatt, Discovering, States
<1>7. CASE Ignored(e)
  BY <1>1, <1>7 DEF Ignored, gatt, Discovering
<1> QED BY <1>2, <1>3, <1>4, <1>5, <1>6, <1>7 DEF discovery_state_machine

(* What every handler does to the machine: it runs on the event, or, for   *)
(* an indication, ignores it.                                              *)
LEMMA HandlerStep ==
  ASSUME sl_bt_on_event
  PROVE  \E e \in Events :
           /\ Handling(e)
           /\ \/ discovery_state_machine(e)
              \/ e = "gatt_characteristic_value" /\ UNCHANGED <<next_state, procedure, subscribed>>
  BY DEF sl_bt_on_event, Events, Boot, ServerReport, OtherReport, ConnectionOpened,
         ConnectionClosed, ServiceFound, CharacteristicFound, ProcedureCompleted,
         CharacteristicValue

LEMMA StepPreserves == OneCompletion /\ [Next]_vars => OneCompletion'
<1> SUFFICES ASSUME OneCompletion, [Next]_vars PROVE OneCompletion'
  OBVIOUS
<1> USE DEF OneCompletion
<1>1. CASE sl_bt_on_event
  <2>1. PICK e \in Events :
           /\ Handling(e)
           /\ \/ discovery_state_machine(e)
              \/ e = "gatt_characteristic_value" /\ UNCHANGED <<next_state, procedure, subscribed>>
    BY <1>1, HandlerStep
  <2>2. CASE discovery_state_machine(e)
    BY <2>1, <2>2, MachineStep
  <2>3. CASE UNCHANGED <<next_state, procedure, subscribed>>
    BY <2>1, <2>3, HandledEvent DEF Discovering
  <2> QED BY <2>1, <2>2, <2>3
<1>2. CASE Report
  <2>1. PICK e \in {"server_report", "other_report"} : inbox' = inbox \o <<e>>
    BY <1>2 DEF Report, Post
  <2>2. e \in Events /\ e # Completed
    BY DEF Events, Completed
  <2>3. UNCHANGED <<next_state, procedure>>
    BY <1>2 DEF Report, client, stack, gatt
  <2> QED BY <2>1, <2>2, <2>3, PostedEvent DEF Discovering
<1>3. CASE Connect
  <2>1. inbox' = inbox \o <<"connection_opened">> /\ UNCHANGED <<next_state, procedure>>
    BY <1>3 DEF Connect, Post, client, gatt
  <2>2. "connection_opened" \in Events /\ "connection_opened" # Completed
    BY DEF Events, Completed
  <2> QED BY <2>1, <2>2, PostedEvent DEF Discovering
<1>4. CASE Disconnect
  <2>1. procedure' = "none" /\ next_state' = next_state
    BY <1>4 DEF Disconnect, client
  <2>2. CASE inbox' = inbox \o <<"connection_closed">>
    <3>1. "connection_closed" \in Events /\ "connection_closed" # Completed
      BY DEF Events, Completed
    <3> QED BY <2>1, <2>2, <3>1, PostedEvent DEF Discovering
  <2>3. CASE procedure # "none" /\ inbox' = inbox \o <<Completed, "connection_closed">>
    BY <2>1, <2>3, PostedEnd DEF Discovering
  <2> QED BY <1>4, <2>2, <2>3 DEF Disconnect, Post, Completed
<1>5. CASE Procedure
  <2>1. CASE \E kind \in {"services", "characteristics"},
                result \in {"service found", "characteristic found"},
                e \in {"gatt_service", "gatt_characteristic"} : Found(kind, result, e)
    <3>1. PICK e \in {"gatt_service", "gatt_characteristic"} : inbox' = inbox \o <<e>>
      BY <2>1 DEF Found, Post
    <3>2. e \in Events /\ e # Completed
      BY DEF Events, Completed
    <3>3. next_state' = next_state /\ procedure # "none"
          /\ procedure' \in {"service found", "characteristic found"}
      BY <2>1 DEF Found, client
    <3> QED BY <3>1, <3>2, <3>3, PostedEvent DEF Discovering
  <2>2. CASE Succeed \/ Fail
    <3>1. /\ inbox' = inbox \o <<Completed>> /\ next_state' = next_state
          /\ procedure # "none" /\ procedure' = "none"
      BY <2>2 DEF Succeed, Fail, Post, client, Completed
    <3>2. Completed \in Events
      BY DEF Events, Completed
    <3> QED BY <3>1, <3>2, PostedEvent DEF Discovering
  <2> QED BY <1>5, <2>1, <2>2 DEF Procedure
<1>6. CASE Indicate
  <2>1. inbox' = inbox \o <<"gatt_characteristic_value">> /\ UNCHANGED <<next_state, procedure>>
    BY <1>6 DEF Indicate, Post, client
  <2>2. "gatt_characteristic_value" \in Events /\ "gatt_characteristic_value" # Completed
    BY DEF Events, Completed
  <2> QED BY <2>1, <2>2, PostedEvent DEF Discovering
<1>7. CASE UNCHANGED vars
  BY <1>7 DEF vars, client, stack, gatt, Discovering, Pending
<1> QED BY <1>1, <1>2, <1>3, <1>4, <1>5, <1>6, <1>7 DEF Next

(* The end of a procedure is on its way at most once, and only while the   *)
(* machine waits for it and no other procedure runs.                       *)
THEOREM OneCompletionHolds == Spec => []OneCompletion
<1>1. Init => OneCompletion
  BY InitEstablishes
<1>2. OneCompletion /\ [Next]_vars => OneCompletion'
  BY StepPreserves
<1> QED BY <1>1, <1>2, PTL DEF Spec

-----------------------------------------------------------------------------
(* A step of the stack, as the machine sees it: a procedure only ends with *)
(* its completion pending or the link going down.                          *)
LEMMA StackStep ==
  ASSUME OneCompletion, Report \/ Connect \/ Disconnect \/ Procedure \/ Indicate
  PROVE  /\ next_state' = next_state
         /\ subscribed' => subscribed \/ procedure # "none"
         /\ procedure = "none" =>
              procedure' = "none" /\ (Pending(Completed)' <=> Pending(Completed))
         /\ procedure # "none" =>
              procedure' # "none" \/ Pending(Completed)' \/ (link = "connected" /\ link' = "standby")
<1>1. CASE Report \/ Connect \/ Indicate
  <2>1. PICK e \in {"server_report", "other_report", "connection_opened",
                    "gatt_characteristic_value"} : inbox' = inbox \o <<e>>
    BY <1>1 DEF Report, Connect, Indicate, Post
  <2>2. e \in Events /\ e # Completed
    BY DEF Events, Completed
  <2>3. Pending(Completed)' <=> Pending(Completed)
    BY <2>1, <2>2, PostedEvent
  <2> QED BY <1>1, <2>3 DEF Report, Connect, Indicate, client, stack, gatt
<1>2. CASE Disconnect
  <2>1. /\ next_state' = next_state /\ procedure' = "none" /\ subscribed' = FALSE
        /\ link = "connected" /\ link' = "standby"
    BY <1>2 DEF Disconnect, client
  <2>2. ASSUME procedure = "none" PROVE Pending(Completed)' <=> Pending(Completed)
    <3>1. inbox' = inbox \o <<"connection_closed">>
      BY <1>2, <2>2 DEF Disconnect, Post
    <3>2. "connection_closed" \in Events /\ "connection_closed" # Completed
      BY DEF Events, Completed
    <3> QED BY <3>1, <3>2, PostedEvent
  <2> QED BY <2>1, <2>2
<1>3. CASE Procedure
  <2>1. CASE Succeed \/ Fail
    <3>1. /\ inbox' = inbox \o <<Completed>> /\ next_state' = next_state
          /\ procedure # "none"
      BY <2>1 DEF Succeed, Fail, Post, client, Completed
    <3>2. Completed \in Events
      BY DEF Events, Completed
    <3> QED BY <3>1, <3>2, PostedEvent
  <2>2. CASE ~(Succeed \/ Fail)
    BY <1>3, <2>2 DEF Procedure, Found, client
  <2> QED BY <2>1, <2>2
<1> QED BY <1>1, <1>2, <1>3

(* A step of the machine: it moves, in a discovery, only on the end of the *)
(* procedure before, and a procedure begins only then.                     *)
LEMMA ClientStep ==
  ASSUME OneCompletion, sl_bt_on_event
  PROVE  /\ subscribed' = subscribed
         /\ next_state' # next_state => procedure = "none" \/ ~Discovering'
         /\ next_state' # next_state => ~Pending(Completed)'
         /\ next_state' = next_state =>
              procedure' = procedure /\ (Pending(Completed)' <=> Pending(Completed))
         /\ next_state' # next_state => ~Discovering \/ Pending(Completed)
<1>1. PICK e \in Events :
         /\ Handling(e)
         /\ \/ discovery_state_machine(e)
            \/ e = "gatt_characteristic_value" /\ UNCHANGED <<next_state, procedure, subscribed>>
  BY HandlerStep
<1>2. /\ Pending(Completed)' => Pending(Completed)
      /\ e = Completed => Pending(Completed) /\ ~Pending(Completed)'
      /\ e # Completed /\ Pending(Completed) => Pending(Completed)'
  BY <1>1, HandledEvent
<1>3. /\ procedure # "none" => Discovering /\ ~Pending(Completed)
      /\ Pending(Completed) => Discovering
      /\ next_state \in States
  BY DEF OneCompletion
<1>4. CASE DiscoverService(e)
  BY <1>2, <1>3, <1>4 DEF DiscoverService, gatt_command, Discovering, Completed
<1>5. CASE DiscoverCharacteristics(e) \/ SetNotification(e)
  BY <1>2, <1>3, <1>5
     DEF DiscoverCharacteristics, SetNotification, gatt_command, Discovering, Completed
<1>6. CASE NotificationSet(e)
  BY <1>2, <1>3, <1>6 DEF NotificationSet, gatt, Discovering, Completed
<1>7. CASE ConnectionLost(e)
  BY <1>2, <1>3, <1>7 DEF ConnectionLost, gatt, Discovering, Completed
<1>8. CASE Ignored(e)
  <2>1. UNCHANGED <<next_state, procedure, subscribed>>
    BY <1>8 DEF Ignored, gatt
  <2>2. e = Completed => ~Discovering
    BY <1>8 DEF Ignored, Awaited, Discovering, Completed
  <2> QED BY <1>2, <1>3, <2>1, <2>2
<1>9. CASE e = "gatt_characteristic_value" /\ UNCHANGED <<next_state, procedure, subscribed>>
  BY <1>2, <1>9 DEF Completed
<1> QED BY <1>1, <1>4, <1>5, <1>6, <1>7, <1>8, <1>9 DEF discovery_state_machine

(* A GATT command is only issued when no procedure is under way and the    *)
(* end of the last one has been delivered.                                 *)
THEOREM OneProcedure == Spec => OneProcedureAtATime
<1>1. OneCompletion /\ [Next]_vars
        => [next_state' # next_state /\ Discovering'
              => procedure = "none" /\ ~Pending("gatt_procedure_completed")']_vars
  BY ClientStep, StackStep DEF Next, Completed
<1> QED BY <1>1, OneCompletionHolds, PTL DEF Spec, OneProcedureAtATime

(* The end of a procedure is lost only with the link, or with the command  *)
(* that should have begun it.                                              *)
THEOREM StallsHaveCauses == Spec => StallHasCause
<1>1. OneCompletion /\ [Next]_vars
        => [~Stalled /\ Stalled' =>
              \/ link = "connected" /\ link' = "standby"
              \/ next_state' # next_state /\ procedure' = "none"]_vars
  <2> SUFFICES ASSUME OneCompletion, Next, ~Stalled, Stalled'
               PROVE  \/ link = "connected" /\ link' = "standby"
                      \/ next_state' # next_state /\ procedure' = "none"
    OBVIOUS
  <2>1. CASE sl_bt_on_event
    BY <2>1, ClientStep DEF Stalled, Discovering, Completed
  <2>2. CASE Report \/ Connect \/ Disconnect \/ Procedure \/ Indicate
    BY <2>2, StackStep DEF Stalled, Discovering, Completed
  <2> QED BY <2>1, <2>2 DEF Next
<1> QED BY <1>1, OneCompletionHolds, PTL DEF Spec, StallHasCause

(* A client that stalled never leaves its state and never subscribes.      *)
THEOREM StallsAreForever == Spec => StallIsForever
<1>1. OneCompletion /\ [Next]_vars
        => [Stalled => Stalled' /\ (subscribed' => subscribed)]_vars
  <2> SUFFICES ASSUME OneCompletion, Next, Stalled
               PROVE  Stalled' /\ (subscribed' => subscribed)
    OBVIOUS
  <2>1. CASE sl_bt_on_event
    BY <2>1, ClientStep DEF Stalled, Discovering, Completed
  <2>2. CASE Report \/ Connect \/ Disconnect \/ Procedure \/ Indicate
    BY <2>2, StackStep DEF Stalled, Discovering, Completed
  <2> QED BY <2>1, <2>2 DEF Next
<1> QED BY <1>1, OneCompletionHolds, PTL DEF Spec, StallIsForever
=============================================================================
