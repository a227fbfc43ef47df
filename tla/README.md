# TLA+ verification of the ECEN5823 thermometer

The repository is the firmware of a Bluetooth Low Energy health thermometer on an
EFR32 with Silicon Labs' Gecko SDK 4.3.2. One source tree gives two builds: the
*server* (`DEVICE_IS_BLE_SERVER 1`), which measures the temperature of an Si7021
every three seconds, indicates it and the state of push button PB0 to a client, and
pairs with it; and the *client*, which looks for that server, discovers its health
thermometer service and confirms the indications. This directory holds the TLA+
modules of the program's own logic, the TLC runs that check them and the theorems
TLAPS proves about them. The SDK, vendored in the tree, is some 99 % of its lines. Two
parts of it run between the application's steps and are modelled from their source: the
I2C transfer driver of emlib and the power manager's sleep. The Bluetooth stack is a
binary, modelled from its contract; the rest of the SDK is left aside.

## 1. Inventory

### How the program runs

There is one thread. The main loop hands each event of the Bluetooth stack to
`sl_bt_on_event` (app.c), which calls `handle_ble_event` (ble.c) and then the state
machine of the build (scheduler.c), to completion. Interrupt handlers preempt it at
any point: LETIMER0 (period and waits), I2C0 (the sensor's bus) and GPIO (PB0). They
talk to the thread by `sl_bt_external_signal` only: the stack keeps **one bitmask** of
the signals raised since it last delivered them, and delivers the whole mask in one
event. The stack, and the device at the other end of the link, are the second source
of concurrency: an event says what was true when it was queued, not when it is handled.

### Components

| Part | State it keeps | Operations | What makes it correct |
|---|---|---|---|
| Indication queue (ble.c 58-90) | `wptr`, `rptr`, `buffer_full`, 16 slots | `write_queue`, `read_queue`, reset at boot | first in, first out; full and empty told apart over every wrap |
| Temperature machine (scheduler.c 138-198) | `next_state`, sensor power, EM1 requirement, `read_data` | one transition per awaited signal | EM1 balanced, no transfer over another, no stale wake-up or stale reading, progress |
| Interrupt handlers (irq.c, i2c.c) | interrupt enables and flags, `rollover_count` | LETIMER0, I2C0, GPIO handlers | no flag lost between read and clear, each wait woken once |
| LETIMER0 waits (timers.c) | COMP1, flags, the counter | `timerWaitUs_irq`, `letimerMilliseconds` | a wait ends on its tick; time is time |
| Server event handler (ble.c) | `connection_open`, `ok_to_send_*`, `indication_in_flight`, `bonded`, the queue, LEDs, display | a branch per stack event, `ble_send_temp_value`, `ble_send_button_state` | flags follow the stack, one indication at a time, always reachable again |
| Client event handler (ble.c) | handles, `connection_open`, display | a branch per stack event | always searching or connected |
| Client discovery (scheduler.c 205-264) | `next_state` | one GATT command per end of the last | one procedure at a time, ends subscribed |
| Temperature encoding (ble.h, ble.c, i2c.c) | none | `get_temp_value`, `INT32_TO_FLOAT`, `FLOAT_TO_INT32` | decodes to what was measured |
| I2C transfers (em_i2c.c, i2c.c) | `transfer`, flags and interrupt enables, the bus | `I2C_TransferInit` in the thread, `I2C_Transfer` in the handler | every transfer ends, signalled once or not at all; the bytes are the sensor's; no byte too many |
| Power manager and main loop (sl_power_manager.c, main.c) | requirement counters, `current_em`, whether the clocks are off | sleep, early wake-up, requirements from thread and interrupts | no clock stopped that is needed, no signal slept on |
| LCD, LEDs, GPIO, oscillators, log | registers | writes | formatting and I/O |
| Bluetooth stack | external | calls and events | its documented contract |

`PROJECT.json` lists every part with its status, and under `hazards` what is hard to
test, each at its line with the properties that cover it.

### What is hard

* Signals of two interrupts, or of an interrupt and the button, arrive merged in one
  mask, while the machines compare the mask with `==`.
* A measurement is five events long; the client may disconnect, unsubscribe or let an
  indication time out between any two, and the machine then ignores what it waited for.
* An I2C transfer that fails is only logged.
* The I2C handler runs while the thread is still inside the call that starts the
  transfer, on the same `transfer` record; it must answer a byte before the next comes.
* Between the main loop's last look at the events and the processor's sleep, and between
  two sleeps of one call of `sl_power_manager_sleep`, interrupts signal the application,
  add requirements and let timers expire.
* A temperature below zero passes through an undefined conversion.
* `ble_data` is a copy of what the stack knows, kept up by events that can be behind.
* The direct path and the queue share `indication_in_flight`, set by one of them only.
* The timer's clock, its handler and `timerWaitUs_irq` access the same registers.
* The client's discovery looks neither at results nor, until its last state, at the
  end of the connection.

## 2. Modules

| Module | Kind | Models |
|---|---|---|
| `IndicationRing` | operators | the ring of ble.c: `write_queue`, `read_queue`, `nextPtr` |
| `IndicationQueue` | specification | any sequence of calls on the ring |
| `IndicationFifo` | abstract specification | a bounded first-in first-out queue |
| `TemperatureMachine` | specification | the server's state machine and interrupt handlers |
| `BleServer` | composition | `handle_ble_event` (server), queue, temperature machine, stack and client |
| `TemperatureCodec` | operators | sensor code, degrees, the bytes of an indication, degrees again |
| `I2cDriver` | actions | `I2C_TransferInit`, `I2C_Transfer`, the controller, the bus, the sensor |
| `SensorReading` | composition | the temperature machine over `I2cDriver` and `TemperatureCodec` |
| `PowerManager` | composition | the main loop and `sl_power_manager_sleep` around `SensorReading` |
| `Letimer` | specification | LETIMER0, its handler and its waits, tick by tick |
| `BleClient` | composition | `handle_ble_event` (client), discovery machine, stack and server |
| `IndicationQueueProofs`, `TemperatureMachineProofs`, `BleServerProofs`, `SensorReadingProofs`, `PowerManagerProofs`, `LetimerProofs` | proofs | of the module each is named after |
| `BleClientProofs`, `BleClientConnectionProofs` | proofs | of `BleClient`: one connection's procedures; any number of connections |
| `MC*` | model checking | constants for TLC |

`IndicationQueue` implements `IndicationFifo` (property `ImplementsFifo`), and
`BleServer` implements `TemperatureMachine` (`ImplementsMachine`): the machine is
specified once with an environment that opens, closes and subscribes at will, and the
server, where each of those is a handler of a stack event, is shown to be such an
environment. So what is proved of the machine holds in the server. In the other
direction `TemperatureMachine` takes a transfer for one step of its handler;
`SensorReading`, where it is a dozen steps of handler, thread and bus, implements it
(`ImplementsMachine` again), and `PowerManager` implements `SensorReading`. So what is
proved of the machine also holds over the driver and with the processor asleep between
events.

Definitions named `X_Something` next to `X`, marked *Mutant*, are plausible bugs in
`X`: put in its place, each makes a property of the runs fail. They are not part of
the specifications.

### IndicationRing, IndicationQueue, IndicationFifo

The ring is a record with the fields of `ble_data_struct_t`. Data that `write_queue`'s
parameter check refuses are those whose `bufferLength` is out of range. `Contents` reads
the ring, oldest entry first, across the wrap; with it and the slot a returned pointer
leads to, the ring is mapped to the abstract queue.

### TemperatureMachine

* `signals` is the stack's bitmask; `ExternalSignal` delivers it whole, as the stack
  does. Each state's transition is an action of its own, and includes every call of the
  `case`: `StartMeasurement` powers the sensor and arms COMP1, `SendCommand` adds the EM1
  requirement and starts the write, and so on. `Ignored` is every other event, and there
  is no way out of a state but its own signal.
* `comp1` says that the COMP1 interrupt is enabled; its match, and the underflow of the
  free-running timer, may come at any time and may come together (`LETIMER0_Flags`).
* A transfer (`i2c`) ends well or with an error. The error path of `I2C0_IRQHandler`
  logs and neither signals nor disables the interrupt.
* `read_data` keeps how far a measurement got, so that "fresh" can be stated.
* The button's handler may raise either signal at any time, which covers edges the
  handler merged by reading the pin late. `PB0_pressed` is written there and never read:
  it is left out.

### TemperatureCodec

Operators on integers. The double arithmetic is taken as exact, which it is for every
code of the sensor after the truncation. `get_temp_value` returns a set: converting a
`double` of -1 or below to `uint32_t` is undefined, and the builds at hand saturate at 0
or wrap. Only the lower 24 bits of the mantissa are kept, so a wrapped value arrives with
its sign.

### I2cDriver, SensorReading

`thread` names the step of `send_I2C_command` or `read_I2C_response` the thread is at:
interrupt enabled in the NVIC; flags cleared and enabled; the state read; the start sent;
the end checked. The handler is one action per state and flag of `I2C_Transfer`, the path
to the next wait included: `Acknowledged` goes on through `i2cStateDataSend`. `IF_`, `IEN`
and `NVIC` decide whether it is called. The wires are `bus`: what the controller does with
them, `reply` the answer commanded ahead of a byte. The sensor acknowledges when powered
and not converting, and the bus may disturb any acknowledgement, lose arbitration or show
a bus error at any time (`Disturbed`), which a busy bus after a reset is a case of.

`SensorReading` repeats the machine's steps with the calls in place of the transfer.
`next_state` is set in the action that starts the call, before the code does so after it:
only the thread reads it. `measured` is a history variable, the progress
`TemperatureMachine` calls `read_data`. A transfer is under way from the call until the
driver is done or the interrupt is no longer enabled (`UnderWay`).

### PowerManager

`main` is where the processor is: running, asleep with interrupts disabled, or woken and
still in the loop of `sl_power_manager_sleep`, where interrupts are taken. `SleepIn` is one
round of that loop: take back the requirement of the last round, choose the mode, look at
the time to the next timer, and add a requirement of its own or start the timer for the
early wake-up. Interrupts then may restore the clocks (`process_timer_irq`,
`delta_list_insert_timer`), add requirements (`OthersRequirement`: the radio, the UART) and
signal the application. In EM2 the I2C controller stands still, which is why EM1 is
required. On this part the oscillators are ready as soon as they are asked for
(`sli_power_manager_is_high_freq_accuracy_clk_ready` returns true), so the states of
waiting for them are left out; a timer is reduced to expiring now, soon or late.

### BleServer

Events of the stack go through `inbox`, a queue in order; external signals bypass it. A
handler is one action for the whole of `sl_bt_on_event`, what it does to the machine
included. The stack is `link`, the client's subscriptions `cccd`, one `outstanding`
indication, `att_dead` (after an indication timeout the stack carries no GATT
transactions on the connection) and `pairing`. `send_indication` is refused for the
reasons sl_bt_api.h gives. Choices:

* `read_queue` returns NULL for an empty queue and the confirmation handler reads
  `charHandle` through it. What is at address 0 depends on the build: the step either
  does nothing or stops the processor (`halted`).
* The display is kept as the connection row, whether a passkey prompt is shown, and
  whether a temperature is. The rows for names, addresses and the button are left out.
* One pairing attempt per connection; its value and passkey are left out.
* The client connects, subscribes, unsubscribes, confirms, pairs and leaves at any time.

### Letimer

The thread is inside `timerWaitUs_irq` at the access `call` names; the clock ticks in
between, and the handler is two steps: read the flags, and the rest. The thread does
not run during the handler, but may take the step it was at after a flag was raised:
an interrupt is taken a few cycles later. The macro `ACTUAL_CLK_FREQ` has no
parentheses, so the product before it is formed first (`TimesClkFreq`). A compare value
is effective when it is written; the synchronisation into the low-frequency domain is
not modelled. `COMP1 = 0`, `CNT = 0` after reset: the first tick underflows.

### BleClient

Every handler is followed, in the same action, by `discovery_state_machine` on the same
event. The stack is the scanner, the link and the GATT procedure under way; a command is
refused without a link, after a timeout, or while a procedure runs. Whether the stack
reports the end of a procedure when the link goes down is undocumented: both happen.
Advertisements may still be queued when the scanner has stopped. Service and
characteristic handles survive a connection, as in `ble_data`. `gatt_procedure_inprogress`
is written and never read: it is left out.

## 3. Runs

Passing runs:

| Run | Constants | States | What it shows |
|---|---|---|---|
| `indication_queue` | depth 4, data of length 0, valid, and too long | 1 029 | the ring is the abstract queue over several wraps, refusals and NULL included |
| `temperature_machine` | none | 384 | EM1, transfers and wake-ups stay consistent under every interleaving; a lost wake-up has one of three causes and lasts for ever; otherwise measurements go on |
| `sensor_reading` | three sensor codes: below zero, zero, above | 226 000 | over the driver's flags and bytes, and through every sleep, a measurement is one of `TemperatureMachine`; transfers end, signals are delivered, the client gets the temperature measured, or 0 for one below zero |
| `server_pairing` | depth 2, inbox 3, button interrupts, pairing | 211 000 | the flags follow the stack, LEDs and display the flags, prompt and pairing stay together; a failed pairing ends the connection |
| `server_temperature` | depth 2, inbox 2, sensor interrupts | 85 000 | the server is an environment of `TemperatureMachine`; `indication_in_flight` is set only while something clears it, or after a handled timeout, when nothing is sent or queued until the disconnection; the server advertises again |
| `letimer` | period 9 ticks, waits of 0, 3, 4, 9 and 11 ticks | 27 000 | a wait ends on its tick whatever clock, handler and thread do; underflows are counted |
| `ble_client` | inbox 5 | 8 900 | the client always searches, keeps to one procedure, and loses its way only for two reasons |

Runs that are expected to find a violation, each of something the repository says of
itself (`PROJECT.json`, `findings`):

| Run | Violated | What happens |
|---|---|---|
| `signals_merged` | `AwaitedSignalActedOn` | a button press arriving with the awaited COMP1 or I2C signal makes the machine ignore both; the signal does not come again, and the machine waits for ever with the sensor on. (An underflow lost in the same way costs one period and is not asked about) |
| `awaits_confirmation` | `AwaitsConfirmation` | an indication sent from the queue does not set `indication_in_flight`, so the next temperature is sent while it is unconfirmed; the stack refuses it and the value is lost |
| `null_is_checked` | `NullIsChecked` | the confirmation of the last indication reads through NULL |
| `wait_microseconds` | `WaitLastsItsMicroseconds` | `timerWaitUs_irq(10800)` waits for 81 or 82 ticks, at most 10.0 ms |
| `milliseconds` | `MillisecondsFollowTheClock` | the log's time stamp advances by 8 ms with a tick of 0.122 ms |

Two more faults of the code are stated as the exceptions of properties that hold, not as
runs of their own. The handler of the indication timeout leaves `indication_in_flight` set
with nothing outstanding or pending (`ble.c` 435-438): `InFlightIsExplained` names that
state and says that nothing is sent or queued in it until the disconnection. A temperature
of -1 degree or less is converted to `uint32_t`, which is undefined (`i2c.c` 91): the model
allows the wrapped value and 0, and `TemperatureArrives` accepts either.

### Bounds, and why they are enough

* `QUEUE_DEPTH` is 16 in the code. The ring is checked with 4, where pointers wrap
  several times and meet in every position, and **proved** for every depth. In `BleServer`
  one or two entries are enough to be empty, neither, and full.
* `MaxInbox`: the events the stack has not delivered. With 2 an event can overtake a
  change of the stack; with 3 a pairing step, a disconnection and a reconnection can wait
  together. All interrupts together with an inbox of two exceed 13 million states, so
  `Interrupts` and `ClientPairs` split the question: pairing and the button only meet
  through `bonded` and the queue, measurements and the client's comings and goings
  through the gate and `indication_in_flight`.
* `Codes` has a code whose temperature is below -1, one between -1 and 0, which truncates
  to 0, and one above; the two bytes of each differ, so that a swap shows. The driver's
  properties are **proved** for every set of codes. Requirements of the radio and the UART
  are one that comes and goes; the counter is proved to be their sum.
* `Temperatures` has one member: no handler looks at the value.
* `Waits` and the period in `letimer` are small, with waits below the range, within it
  with and without a wrap, the longest, and above it; `WaitsAreExact` is proved for all.
  `MaxLatency` bounds the ticks that pass during one call of `timerWaitUs_irq`. The
  shortest wait the code can ask for is 8 ticks (1 ms), about a millisecond for some
  forty instructions; beyond that bound a wait would miss its match and last a period
  longer. `MaxWaited` stops the count of a wait that is beyond a period. `ROLLOVER_MODULUS` stands for 2^32.

### Fairness

* The main loop always returns to the stack: weak fairness of event delivery
  (`InboxEvent`, `ExternalSignal`, `sl_bt_on_event`).
* The timer runs free and an enabled match comes: weak fairness of `Underflows`,
  `Comp1Matches`, `Tick`. A transfer ends, well or not: weak fairness of the two
  outcomes together, never of success.
* A connection the application closed is closed (`BleServer`), a GATT procedure ends or
  times out (`BleClient`). These are strong because the bound on the inbox, which is none
  of the stack's, disables them again and again while the other device keeps talking.
  That an indication is confirmed or times out is not assumed: no property of the server
  needs it.
* In `PowerManager` the thread goes on while it is in a call, an enabled interrupt wakes
  the processor and is taken, the loop of `sl_power_manager_sleep` decides, and the I2C
  controller finishes what it was commanded while it has a clock. Nothing is assumed of
  which interrupts wake the processor otherwise, nor that the bus is left in peace:
  `TransferEnds` has the disturbance as its other outcome.
* Nothing is assumed of the user, of the client or of the sensor.

`MeasuresPeriodically` and `DiscoveryCompletes` are conditional
on the gate, or the link, staying open and on no stall; what a stall is and its only
causes are safety properties of the same run (`StallHasCause`, `StallIsForever`).

## 4. Proofs

| Theorem | Says |
|---|---|
| `IndicationQueueProofs!QueueInvariant`, `QueueTypes` | typing, and `buffer_full` only when the pointers meet, with nothing unwritten between them |
| `IndicationQueueProofs!QueueImplementsFifo` | for every depth and all data the ring implements the abstract queue |
| `TemperatureMachineProofs!MachineInvariant`, `MachineTypes`, `WakeupsBelong` | typing, EM1 held exactly for the I2C waits, every wake-up belongs to its wait |
| `TemperatureMachineProofs!TransfersDoNotOverlap` | no transfer is started over another |
| `TemperatureMachineProofs!ReportsAreFresh` | what is reported was read after this measurement's command |
| `TemperatureMachineProofs!StallsHaveCauses`, `StallsAreForever` | a wake-up is lost only to an I2C error, a closed gate or a merged event, and then for good |
| `TemperatureMachineProofs!MeasurementsComeCloser` | what a measurement waits for is due, exactly once; each delivery of it takes the measurement one state on, and nothing else moves it |
| `SensorReadingProofs!DriverTypes`, `FlagsTaken` | typing, no byte beyond the buffer; a raised flag is one the state takes |
| `SensorReadingProofs!LastByteNacked`, `TemperaturesArrive` | a read ends with a NACK; the client decodes what was measured, or 0 below zero |
| `SensorReadingProofs!DriverImplementsTransfers`, `EM1WhileUnderWay` | the machine over the driver is `TemperatureMachine`; EM1 is required whenever a transfer is under way |
| `SensorReadingProofs!TransfersGoOn`, `TransfersShrink` | an undisturbed transfer has at most twelve steps left, always one that can be taken, and none that goes back |
| `SensorReadingProofs!CalledAtRestOnly` | the thread writes what it shares with the handler only while the handler cannot be called |
| `SensorReadingProofs!DriverMachineSteps`, `DriverMeasures` | over the bytes the machine keeps the action properties and the progress of `TemperatureMachine` |
| `PowerManagerProofs!PowerImplementsReading`, `PowerImplementsTransfers` | with sleep in between it still is |
| `PowerManagerProofs!PowerTypes`, `NothingIsStopped` | the EM1 counter is the sum of what is held; no sleep in EM2 on a transfer or another's requirement |
| `PowerManagerProofs!PowerKeepsReading` | with sleep in between, all that is proved of transfers and of the machine's steps holds |
| `PowerManagerProofs!NoSignalSleptOn`, `TransfersAreServed` | a signal raised at any point of going to sleep or waking is not slept on; what moves a transfer next is awake, clocked, or an interrupt that wakes |
| `BleServerProofs!FlagsAreCopies`, `OutputsFollow` | the flags of `ble_data` are what the stack and the client hold, up to the events on their way; LEDs and display say what the flags say |
| `BleServerProofs!InFlightExplained`, `PromptEnds` | `indication_in_flight` is set only while an indication is outstanding or the event that ends it or its link is pending, or after a handled timeout, when it stays set until the disconnection and neither value may be sent or queued; a prompt ends with its pairing, a failed pairing with the link |
| `BleServerProofs!ServerTypes`, `ServerQueueConsistent` | typing; the ring stays consistent although boot resets only its pointers |
| `BleServerProofs!ServerImplementsMachine`, `ServerMachineInvariant` | the server is an environment of `TemperatureMachine`, whose invariant therefore holds in it |
| `BleServerProofs!ServerMachineSteps`, `ServerMeasures` | in the server the machine keeps the action properties and the progress of `TemperatureMachine` |
| `BleServerProofs!QueueOrderKept` | between all handlers, indications enter the queue behind those that wait and leave it at a confirmation, oldest first; no other step, the reset at boot included, adds, drops or reorders |
| `BleServerProofs!AdvertisingComes`, `FailureCloses` | a server without a link has the event that makes it advertise on its way, a failed pairing the one that closes the link, and each event handled brings it one closer |
| `LetimerProofs!WaitsAreExact`, `LetimerTypes` | for every clock, period and wait longer than `MaxLatency`, a wait takes its ticks or one more |
| `LetimerProofs!UnderflowsCount` | an underflow is dropped uncounted only by `timerWaitUs_irq`'s clear |
| `LetimerProofs!WaitsComeCloser` | for every clock and period what is left of a wait is bounded; a match is not lost to a handler at work, and the run that read it ends the wait |
| `BleClientProofs!OneProcedure` | a GATT command is issued only when no procedure runs and the end of the last was handled |
| `BleClientProofs!StallsHaveCauses`, `StallsAreForever` | the end of a procedure is lost only with the link or a refused command, and then for good |
| `BleClientConnectionProofs!ClientTypes`, `ClientSearches` | typing; a client without a link scans, or an event waits that makes it scan or connect |
| `BleClientConnectionProofs!DisplayFollowsLink`, `WaitsSubscribed` | the display follows the link and shows no temperature of a connection that ended; a discovery that is over has subscribed or failed |
| `BleClientConnectionProofs!ConfirmationsCome` | the indication the server waits for is in the inbox once and moves up to the handler that confirms it |
| `BleClientConnectionProofs!DiscoveriesComeCloser` | on a link that lasts a discovery that does not stall has at most eleven steps left, none of which is undone, and at rest the event that begins it is on its way |

*The queue.* The invariant is typing and `Consistent`; with it `Count` determines the
abstract length, and each of write (accepted, refused) and read (empty, not) is shown to
be the abstract step. The lemmas give `SlotAt` over the wrap by cases instead of `%`.

*The machine.* `EM1HeldForTransfer` and `WakeupBelongsToWait` strengthen each other: no
second COMP1 or I2C signal can be on its way because there is one per wait, and the
state cannot change without it. `IInv` adds `MeasurementProgress`, which ties
`read_data` to the state, for freshness. The action properties follow from the same
invariant, one step per action.

*The server.* A flag is a copy of what the stack held when an event was queued, so the
invariant speaks of the inbox. `Order` says that it holds events of one connection, from the
one that opens it to the one that closes it, and that a stack without a connection holds
nothing of a client; `Fresh` and `Opened` say where the flags stand at boot and between
those two. `Explained` says what each event on its way tells of the stack, unless a later
one revises it, and `Copies` that a flag is the stack's value unless such an event waits.
`Explained` is what makes `Copies` inductive: when an event is handled, the flag takes the
event's value, and that must be the stack's. After an indication timeout the stack stays `att_dead` until the link is gone, and
`TimedOut` says that then the timeout event is pending or both subscriptions are off: no
configuration of the client can wait behind it, because a stack in that state accepts
none. That is what `InFlightExplained` needs for the time when the flag stays set.
The queue's part is proved with the lemmas of the ring. The refinement is one case per handler; with it the machine's invariant is cited,
not proved again. All of it holds for every depth, every inbox and all interrupts together,
which TLC checks only half at a time.

*The driver.* `Phase` is a table: for each state of the transfer, what the bus does, which
flags are up, how far the buffer is and what the sensor sent. It is needed because the
next step of each property depends on all of them together: that a stop follows a NACK
depends on the answer commanded a byte ago, that a flag is taken depends on which the bus
can raise in that state. A disturbance breaks the table, so it is stated up to one, and
an error flag stays up until the handler ends the transfer. The refinement is then one
case per action. `EM1WhileUnderWay` is not proved again: it is the machine's invariant,
read through the refinement mapping.

*The power manager.* Steps of `PowerManager` are steps of `SensorReading` or leave it
alone, so its invariants hold. `Balance` says that the counter is the sum of the
requirements held, `Modes` that `current_em`, the clocks and the place of the main loop go
together, `Measurement` that an EM1 requirement of the application is held for a transfer.
Going to sleep chooses EM2 only for a counter of zero, so by the sum nobody holds one.

*The timer.* `WaitProgress` says where the counter is, `waited` ticks after it was read
(`Position`), that COMP1 holds the match from the compare on, that no stale flag
survives the clear, and that the flag of an armed wait is raised exactly when due.

*The client.* `OneCompletion`: the end of a procedure is pending at most once, only in
the states that wait for it, and never while another procedure runs. Without the first
part the machine could skip a state on the second copy; without the second a completion
left from one connection could start the next command too early. Over several
connections, `connection_open` and the link differ by whatever waits in the inbox.
`Timeline` says that there is a sequence of Booleans, one per position of the inbox, that
begins with `connection_open`, ends with the link and alternates as the events say. That
the sequence stays constant between such events would need an induction over the inbox; it
is part of `Timeline` instead, and kept by appending an event and by taking one. `Outcome`
ties the state `STATE_WAIT`, and the end of the last procedure on its way to it, to this
connection's subscription, unless the event that closes the connection waits behind it;
`Kinds` says which procedure each state can have under way.

*Progress.* The provers have no fairness and no `ENABLED`, but a liveness property fails for
one of three reasons, and two are safety: that nobody will ever raise what is waited for,
that the waiting goes round in circles, or that a step which can be taken is never taken.
For the liveness properties of the runs the first two are excluded by theorems of
the form `Spec => []IsDue /\ ComesCloser`: an invariant that says what is waited for is on
its way (or which step comes next), and an action property that says which steps bring the
end nearer and that no other puts it off. Only the third is left to the fairness the runs
assume.

| Checked by TLC | Safety half proved | What decreases |
|---|---|---|
| `MeasuresPeriodically` | `MeasurementsComeCloser`, over the server `ServerMeasures`, over the driver `DriverMeasures` | the states up to the report |
| `TransferEnds` | `TransfersGoOn`, `TransfersShrink`, asleep `TransfersAreServed` | `StepsLeft`, at most 12 |
| `SignalsAreDelivered` | `NoSignalSleptOn` | nothing: the main loop is never asleep on a signal |
| `AdvertisesAgain`, `FailedPairingCloses` | `AdvertisingComes`, `FailureCloses` | the place of the event in the inbox |
| `WaitEnds` | `WaitsComeCloser` | the ticks up to the match, then the runs of the handler |
| `IndicationsAreConfirmed` | `ConfirmationsCome` | the place of the indication in the inbox |
| `DiscoveryCompletes` | `DiscoveriesComeCloser` | `Left`, at most 11 |

The measures are tables over what `Phase`, `OneCompletion` and `Timeline` list, so the
theorems rest on the invariants above. The client's needed more of `Line`, the one sequence
of Booleans behind `Timeline`: that a value lies where its connection is open, and that
between a closed point and an open one there is the event that opens it. The latter is an
induction over the inbox; like the rest of `Line` it is part of the invariant instead. When
a link comes up, the machine may still be in a state of an older connection, with the end of
its procedure (`OldEnd`) and the event that closes it in the inbox: those are handled first,
which is why `Left` begins at 11 and not at the 9 steps of one discovery.

*The order of the queue.* `QueueOrderKept` is the abstract queue's step read over the whole
server. The boot event resets the pointers and not `buffer_full`; that it loses nothing is
`Fresh`: the boot event is the first the inbox ever held, and until it is handled nothing
can have been queued.

The assumptions are those of the modules (`RingAssumption`, `IndicationAssumption`,
`LetimerAssumption`, ...), which TLC evaluates in the runs. Only model-checked: the liveness
properties themselves, for fairness and `ENABLED` are out of the prover's reach (their safety
halves are in the table above), and the runs that find a violation.

## 5. What is not modelled

* Formatting, the LCD driver, GPIO and clock set-up, logging: writes without logic.
* `getNextEvent` and `timerWaitUs_polled` have no caller left.
* Of I2C: 10-bit addresses, WRITE_READ sequences and reads of one byte, which no call
  reaches. Of the power manager: EM3 and EM4, EM1P, subscribers to transitions and the
  wait for an oscillator, none of which this build has. Of the sleeptimer: its list.
* The time: LETIMER0's ticks are in `Letimer` only, and the composition of `Letimer` with
  the machine, which would say which signals can merge at the real periods, is left out.
* The rest of the SDK, some 300 000 lines of headers, drivers and libraries the
  application does not depend on step by step: it is the bulk of the tree.
* The identity of connections and bonding keys: there is one connection at a time.
* Statuses that are only logged, other than those of the indications and GATT commands:
  the setters of advertising, scanning and security are taken to succeed.
* Results that the models show but no document of the repository speaks of: the queue is
  not emptied when a client leaves, so the next one that subscribes to the button may get
  what the last did not confirm; the queue is drained only while the button is
  subscribed; a direct send may overtake it. `QueueOrderKept` says what is kept all the
  same: within the queue the order is that of the writes.

## 6. Plan

Done, in this order, the behaviour that matters most first: the queue and its abstract
specification; the temperature machine; the server that composes both; the theorems of
the first two; the timer and its theorem; the client and its theorems; the encoding of a
temperature, the I2C driver and the measurement over both, with their theorems; the main
loop and the power manager, with theirs; the theorems of the server, and of the client over
its connections; the safety halves of the liveness properties, the order of the queue between
the handlers, and the machine's steps carried to the server, the driver and the main loop. What could follow is the composition of `Letimer` with the machine, which
would say which signals merge at the real periods.
