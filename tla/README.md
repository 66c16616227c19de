# TLA+ verification of the fire-fighting project

The repository holds a demonstrator of fire fighting: sensors report the intensity of
fires over a radio link, a web server keeps the state of sensors and trucks, an emergency
manager decides which trucks go to which fire, and a simulator lights fires and drives the
trucks. This directory holds TLA+ modules that model these parts, TLC configurations that
check them on small instances, and proofs that hold for every value of the constants.

Parse with `tlasany M.tla`, check with `tlc -config X.cfg M`, prove with `tlapm M.tla`.

## 1. Inventory

    Simulator --(40 ms samples)--> simu_server --> web server <--GET /api/trucks-- Emergency
        ^                                            |   ^                          manager
        |          send_truck / truck_available      |   |  fire_update / send_truck  |
        +--------------------------------------------+   +----------------------------+

    UART --> Sensor board ))) radio ((( Gateway board --> UART --> (web server)

| Part | State | Operations | Hard because |
|---|---|---|---|
| Emergency manager (`src/EmergencyManager`) | burning sensors, the Truck objects sent to each | handle `fire_update`; `GET /api/trucks`; send `send_truck` | its snapshot of the trucks is stale when it is used; objects without `equals` are shared and duplicated; a request that fails half-way; it may connect late or crash |
| Web server (`src/server`) | sensors and trucks in memory, open interventions in the database, one global socket per peer | sensor readings, orders, `truck_available`, (dis)connections, crash, restart, shutdown | a global socket replaced while an old handler still uses it; steps of a handler that fail after others took effect; availability rebuilt from the database |
| Simulator (`src/Simulator`) | sensors, trucks, a thread per fire and per drive, listeners | light a fire, grow or shrink it, drive, release, report | unsynchronised threads, sets of objects with a mutable hash code, changed without a lock, fields read again after they were checked, listeners added late or twice |
| Sensor board (`src/IoT/apps/ProjTrans/Sensor`) | ring of bytes, last message, `wait_acq`, CC1101 | UART interrupt, main loop, send, resend, acknowledgement | an interrupt between any two steps; an overrun that nobody checks; retransmission |
| Gateway board (`src/IoT/apps/ProjTrans/Gateway`) | CC1101 | receive, acknowledge, print | duplicates, FIFOs that overflow, edges of GDO0 that do not come |
| CC1101 driver (`src/IoT/extdrv/cc1101.c`) | mode of the chip and its FIFOs | change mode, send, receive, flush, reset | busy waits on the state of the chip |
| Buses and ticks of the boards (`src/IoT/drivers`, `core`, `lib/time.c`) | buffers, indexes and flags shared with an interrupt, registers of the hardware | UART, I2C, SPI, timers, pins, converter, clock, tick, sleeps, watchdog, clocks, flash | an interrupt between any two steps; FIFOs that fill; locks; waits on a flag |
| External drivers (`src/IoT/extdrv`) | what they last wrote to a chip that they share with its power supply | sensors, clock chip, eeprom, SD card, displays, KNX, LEDs | a transaction cut anywhere; a board that restarts without the chip, or the chip without the board; a shared bus |
| DTPlug link (`lib/protocols/dtplug`, `host/udpbridge`) | two packets and a table of errors; a decoder and a queue of requests | packets in both directions | an interrupt that fills a packet, or notes an error, while the main loop handles the other or notes one; lost bytes, debug text, sums of 8 bits |
| Library (`src/IoT/lib`, `include/lib/list.h`) | buffers and links of its callers | formatting, checksums, bits, lists | bounds, aliasing, removal during a walk |
| Browser clients, database access, simulation server, routes, launch script | little or none of their own | display, SQL, forwarding, HTTP, start and stop | a closed browser socket breaks other handlers; a pool of four connections |

What makes each part correct, in words:

* dispatching: the manager acts on the current state of the fires; a truck that is held
  back is accounted for in the database; a fire gets what it needs and not much more;
* ring: what is sent is what arrived, in order, in whole pairs, all of it;
* radio: no message is skipped or printed out of order; each is acknowledged in the end; a
  frame spoilt on its way is not read;
* drivers: what a caller hands over goes out once, whole and in order, whatever the interrupt
  does meanwhile; a call that reports success has had its effect and one that fails has had a
  part of it; what the driver remembers of a chip is what the chip has; every wait ends;
* library: the functions compute what their comments say, within the buffers they are given.

`PROJECT.json` lists the components with what is modelled of each, and the hazards of the
code with the properties that watch over them.

## 2. Modules

| Module | Models | Builds on |
|---|---|---|
| `FireDomain` | sensors, trucks, messages, sockets' states | |
| `EmergencyManager` | `Manager.java` and its model classes | `FireDomain` |
| `WebServer` | controllers, models and sockets of the server | `FireDomain` |
| `Dispatch` | the two composed, with the simulator as the server sees it; the properties | `EmergencyManager`, `WebServer` |
| `MCDispatch` | instances for TLC | `Dispatch` |
| `DispatchProofs` | theorems | `Dispatch`, `TLAPS` |
| `Simulator` | the simulator's threads, sets of trucks, listeners and drives | |
| `MCSimulator` | instances for TLC | `Simulator` |
| `SimulatorProofs` | theorems | `Simulator`, `TLAPS` |
| `SensorBuffer` | the ring of the sensor's board | |
| `RadioLink` | both boards, the driver and the chips, a frame at a time | |
| `RadioProofs` | theorems | `RadioLink`, `Remainders`, `TLAPS` |
| `RadioFrames` | the bytes of the frames: header, encryption, checksums | |
| `Cc1101` | the chip's driver, an SPI transaction at a time | |
| `Serial`, `Ssp` | the UART and SPI drivers against their hardware | |
| `I2cBus` | what the I2C driver promises | |
| `I2c` | the I2C driver, shown to implement it | `I2cBus` |
| `Systick`, `Usleep`, `SysTime` | tick, callbacks and sleeps; short waits; time of day | |
| `Watchdog`, `Clocks`, `Flash` | watchdog and its locks; main clock and dividers; flash commands | |
| `CounterTimers`, `Gpio`, `LpcRtc`, `Adc` | timers, pins, on-chip clock, converter | |
| `Tmp101`, `RtcPcf85363a`, `Eeprom`, `I2cSensors` | devices of the I2C bus | |
| `SdMmc`, `Ncn5120` | memory card and thermocouple, KNX transceiver | |
| `Displays` | the OLED, the character display, the e-paper | |
| `Ws2812` | addressable LEDs | |
| `DtPlug`, `HostLink` | the two ends of the DTPlug link; theorems about the first | `TLAPS` |
| `ListSequences` | what the lists promise | |
| `LinkedList` | `list.h`, shown to implement it | `ListSequences` |
| `Library` | formatting, bits, checksum, numbers, as functions, and what they should compute | |
| `BoardProofs` | theorems about `SensorBuffer`, `Watchdog`, `SysTime`, `Usleep`, `Ssp`, `Systick`, `Serial` and `Flash` | those, `Remainders`, `TLAPS` |
| `DeviceProofs` | theorems about `RtcPcf85363a`, `Eeprom`, `Ncn5120`, `SdMmc`, `Cc1101`, `Displays` and `Ws2812` | those, `Remainders`, `TLAPS` |
| `DriverProofs` | theorems about `I2c`, `LinkedList`, `Gpio`, `LpcRtc`, `CounterTimers`, `Tmp101`, `Adc`, `I2cSensors` and `Clocks` | those, `Remainders`, `TLAPS` |
| `Remainders` | lemmas about remainders and quotients | `TLAPS` |
| `MCBoard` | instances of the boards' modules for TLC | all the modules from `SensorBuffer` on but `RadioLink` and the modules of proofs |

### FireDomain, EmergencyManager, WebServer, Dispatch

State. `emIntensity` and `emTrucks` are the manager's map of sensors (an intensity of 0 is a
sensor that is not in the map) and the set of Truck objects of each. A Truck object is a
truck and a copy number, since every `GET /api/trucks` makes new objects and the sets compare
them by identity. `intensity`, `available` and `interventions` are the server's sensors,
trucks and the rows of table `intervention` without an ending. `toEM`, `toServer`, `toSim`
and `fromSim` are messages in flight. `emConn` and `simConn` are the module variables
`websocket` seen with what the server does not know: a peer that has gone (`dead`), or the
handler of an older connection that will close the new one when it wakes (`shadowed`).
`simSensor` is the sensor a simulated truck is assigned to. `emHandler` and `simHandler` are
the handlers of the two Java clients, which are set after their socket is open: what comes before
is dropped (`WebSocketClientEndpoint.java:65`). `unheard` and `unrecorded` are history: the fires
the manager does not know of (lit before it connected, or whose last update came before its
handler), and the orders that raised before their row was inserted.

Actions and code.

| Action | Code |
|---|---|
| `EMHandles`, `EMHandlesInPart` | `Manager.manageFireUpdate`, whole, with the request that succeeds or raises |
| `EMConnects`, `EMAddsHandler`, `EMIgnores` | `App.main`: the socket opens, then the handler is set; an update in between is lost |
| `EMCrashes`, `EMDropped` | death and lost socket of the manager |
| `ServerReads` | `handle_sensor_data`, with the `NameError` of its last line |
| `ServerSends`, `ServerSendFails` | `send_truck`, its three effects in order, with an error in the second or third |
| `ServerFrees` | `update_available` |
| `ServerCrashes`, `ServerShutsDown` | restart from the database; `SIGUSR1` of `run.sh` first |
| `SimulatorTakesOrder`, `SimulatorReleases` | `TruckManager.handleSendTruck`, `SensorHandler` and the listener |
| `SimulatorConnects`, `SimulatorAddsHandler`, `SimulatorIgnores`, `SimulatorCrashes`, `SimulatorDropped` | `TruckManager.run`, in two steps too, and its sockets |

Atomicity. The manager has one thread, and a handler of the server runs in a greenlet that
switches only where it waits for a message, so a handler is one step. What interleaves is
the messages. The manager's handler reads the trucks once, so it is placed at the instant of
that reading; orders of earlier handlers may still be on their way, which is what makes the
snapshot stale. Where the code sorts by distance, the model lets any order happen.

### Simulator

The shared objects are variables (`available`, `intensity`, `crew`, `place`, `sensor`,
`listeners`, `destination`, `running`), and each thread has a record with its place in the code
and its locals: `fire[s]` is the `SensorHandler` of a fire at s, `drive[t]` the threads started
for a truck (`TruckHandler.run`), `ws` the thread that handles orders (`handleSendTruck`).
`FireLiter` is one step. Both the orders and the fires call `Truck.setSensor`, perhaps of the
same truck at once: `call[c]` is the call that thread c is in, with a step for each read or write
of `this.sensor`, for each of the two halves of a change of a set, and for each listener.
The code locks nothing.

| Code | Model |
|---|---|
| `HashSet<Truck>` with `Truck.hashCode` | `crew[s]` holds each truck with the place and sensor it had when it was added; a removal finds it only under these, so it may stay |
| a `HashSet` that two threads change at once | `HashTruck` reads the set and `ChangeSet` writes it; when another change came between them (`torn`), any part of what was in the set since may be in it (`Found`), and the sensor joins `raced` |
| `this.sensor` read again after its check | `CheckOldSensor` then `LeaveOldSensor`, `CheckNewSensor` then `JoinNewSensor`: null meanwhile is a `NullPointerException` (`throw`), which ends the order before `thread.start()` (`OrderFails`) or the thread of the fire (`ReleaseFails`) |
| iterators that fail when the set has changed | `touched`, and the actions `ModifiedConcurrently`, `ListenersModified` |
| the list of sensors without a fire, an `ArrayList` without a lock | an addition that overlaps another change may be lost (`StartAdd`, `SetAvailable`) |
| `join()` on the first thread of a truck | `Join` waits for `drive[t][1]` |
| a listener for each arrival, called by whoever changes the availability | `listeners[t]` counts them; `TellAvailable` drives home inside the calling thread |
| a route that cannot be had; a drive of less than ten seconds, whose last index is -1; an order that throws | the drive does not begin (`stranded`); the second ends the calling thread |

The station a truck is created at is not on a road, so a drive home ends at another place, `Home`.

### SensorBuffer

A byte is the number of its arrival. `AddData` is the interrupt; `StartFrame`,
`CheckReadable`, `get_data` and `SendFrame` are the steps of `send_uart_on_rf` between which
it can fall; `Acknowledged` is the radio's answer. `pointeur_ecriture` is not volatile and the
build optimises, so `CheckReadable` may use its value of the start of the frame. A byte of the
frame that is never written is `Garbage`. `arrived`, `taken`, `sent` and `overrun` are history.

### RadioLink

A frame carries the number of its message; the code sees the number modulo `IdMod`. `chip`,
`fifo`, `gdo0` and `air` are each CC1101; `check_rx`, `loops` and `pc` each board. The driver's
functions are `SendPacket` (with the busy wait, `Spin` and `SpinEnds`), `ReceivePacket`,
`HandleNothing` and `Poll`; the boards' own actions name the functions they model. The chip
is not in the repository: `Delivered`, `Unheard`, `Spoilt`, `ForeignFrame` and `Receive` model
it from the configuration `cc1101.c` writes: it stays in RX after a frame and goes to RX after
a transmission, flushes its FIFO on a bad CRC, raises GDO0 on a good one, and refuses to
transmit from RX while the channel is busy.
When a frame fits and its status bytes do not, GDO0 may rise or not.

### The boards' drivers

Each module has one component: the steps of its calls, which an interrupt or a device may
separate, and the hardware or device, external, as the code uses it. A call that cannot be
interrupted in a way that matters is one action; the loops that wait on hardware are a place
(`*_pc`) in which the call stays. History variables say what was asked and what came of it.

| Module | Between which steps something happens | What is shown |
|---|---|---|
| `Serial` | the TX and RX interrupt between any two steps of `serial_write`, `serial_flush` | `WrittenInOrder` |
| `I2c` | refusals, faults and the interrupt's state machine; blocking and other calls | `ImplementsBus`: success means all bytes acknowledged and read |
| `Ssp` | any number of frames shifted between two steps of the loop | `RepliesInOrder` |
| `Systick` | the tick between two stores of a slot, and in a sleep | `CalledEveryPeriod`, `SleepsItsTicks` |
| `Usleep` | counts between two polls, the counter's flag, `msleep` inside | `SleepsAtMost` (proved) |
| `SysTime` | the tick between the two fields of a time | `LockedTimeIsWhole`; `DifferencesAreRight` (proved) |
| `Watchdog` | locks, clock sources and `stop_watchdog`, write by write | `StoppedIsStopped` |
| `Clocks` | changes of the main clock with blocks on, at other rates | `RatesFollow` (proved) |
| `Flash` | prepared sectors, refusals, restarts in a command | `FlashHolds` (proved) |
| `CounterTimers`, `Gpio` | flags that rise while the handler works | `RaisedIsTold`, `CountedInputIsFree`, `EdgeReachesItsPin` (proved) |
| `LpcRtc`, `Adc` | a deferred alarm; a conversion under way when another is asked | `AlarmIsAhead`, `ConvertsWhatWasAsked` (proved) |
| `Tmp101`, `I2cSensors` | failed transactions, lost power, a restart without the chip | `PointerKnown`, `ConfiguredSensorsMeasure`, `LuxIsBounded` (proved) |
| `RtcPcf85363a` | the three transactions of a `time_write` | `ClockKept` |
| `Eeprom` | pages, a busy chip, refusals, a restart | `OnlyItsPlace` |
| `SdMmc` | the thermocouple's interrupt on the same bus; errors of every command; a card swapped | `ReadsWhatWasWritten`; `BusIsShared` (proved) |
| `Ncn5120` | bytes of the KNX bus among the answers to commands | `OwnAnswers` |
| `Displays`: OLED | the I2C interrupt sending byte after byte, in the asynchronous mode while the picture is drawn; cuts; tiles and whole screens | `ShownIsDrawn` |
| `Displays`: characters | restarts between two nibbles | `NibblesInStep` |
| `Displays`: e-paper | power sequences, busy waits, stages of a drawing, restarts | `EpaperIsSafe` |
| `Ws2812` | leds set in any order, partial frames | `FrameShowsAll` (proved) |
| `Cc1101` | bytes that arrive between two transactions of a call | `ReceivedIsWhole` |
| `RadioFrames` | a byte changed or two swapped on the air | `FramesAreRead` |
| `DtPlug` | the uart's interrupt between any two steps of the main loop, the two stores of an error included | `PacketStays`, `AnsweredOnce`; `ErrorsFit` (violated) |
| `HostLink` | lost bytes, debug text, starts in data and text, sums that agree by chance | `HostLinkHolds` |
| `LinkedList` | calls inside a walk that may remove | `ListsAreSequences`; `LinksAgree`, `WalkStaysLinked` (proved) |
| `Library` | nothing: pure functions; a buffer too small, all 256 bytes of the table | `LibraryIsRight`, an assumption of `MCBoard` that TLC evaluates |

Refinements. `I2c` implements `I2cBus`: a transfer's result, the bytes acknowledged and the
number read are hidden (busy, nothing, 0) until the interrupt ends it; every other step is a
stutter, and the step that ends it is `BusEnd`. The modules of the I2C devices use what `I2cBus`
promises: a transaction is done, or a part of it is. `LinkedList` implements `ListSequences`:
the sequence of a list is what its `next` links reach from the head, and each call is one of the
operations on sequences.

Modules that state a weaker property than one would like say why in the property's comment: the
code does not do better. Among these: the first byte of `serial_write` overtaken by a TX interrupt
that a quick byte left (`early`), a byte received with the interrupts masked hiding the TX cause
from `serial_flush`, a picture of the OLED that is cut and shifts the next one (`ssd_torn`), a tile
of the asynchronous mode whose address and control bytes are put back before the interrupt has
read them, the call returning 0 (`TileOvertaken`: nothing is claimed of what it shows), an error
of DTPlug that is stored behind its table, on its own index (`dt_overrun`), bytes of the DTPlug
line that do not belong together and have the right sums (delivered as a packet that was never
sent, so that after a loss only packets heard whole are spoken of), a `set_time`
packet refused and never released (`DtPlugWaits`), a number cut by the buffer of `snprintf`, a
clock chip left stopped by a failed `time_write`, `usleep` called with the counter near zero (it
passes zero before the flag is cleared, or before `msleep` begins to count), the lux of a light
sensor in a CS package above 8192 counts, where the difference wraps, and sensors that lose their
configuration with their power.

`MCBoard` puts one instance of each side by side. A behaviour is one of its parts, chosen in
`BoardInit`; the variables of the others do not change. Their composition is through what the
abstract modules say (a transaction, a frame, a tick) and not by shared variables. `BoardTypeOK`
is a conjunction guarded by the part; so are the waits of `CallsReturn`. The modules marked
(proved) above are in it for their types and their waits; what they are for is shown by TLAPS alone,
for every value of their constants.

## 3. Runs

| Run | Shows |
|---|---|
| `dispatch_safety` | `TypeOK`, `EmViewIsDelayed`, `UnavailableHasIntervention`, `DispatchIsRecorded` with every process failing at any time |
| `dispatch_liveness` | `EmCatchesUp`: the manager's view settles on a settled intensity |
| `dispatch_capacity` | `NoOverbooking`: at most one truck over the largest need |
| `dispatch_fan_out` | violated: a truck object is sent to one fire |
| `dispatch_waiting` | violated: a fire that waits is given the truck that becomes available |
| `simulator_orders` | `AssignedTruckIsSeen`, `NotLeftOnTheRoad`, `SecondOrderWaitsForFirst`, `TypeOK` with two fires, two trucks and two orders, of one truck or of both; `EveryTruckComesHome`: a truck whose fire is out is released, reports and gets home |
| `simulator_released` | violated: the end of a fire releases its own trucks only |
| `simulator_sets_out` | violated: a truck that is sent sets out (the order dies of a `NullPointerException` when a fire that goes out takes the truck's sensor meanwhile) |
| `radio_link` | `AcknowledgedIsPrinted`, `PrintedInOrder`, `EveryMessageIsAcknowledged`, `TypeOK` |
| `radio_tx_wait` | violated: the driver's wait for the TX state ends |
| `dtplug_errors` | violated: an error for which the table has no room is dropped (an interrupt between the check and the stores of another sends these behind the table) |
| `board` | the ring (`SentIsReceived`, `PairsStayTogether`, `EverythingIsSent`) and the properties of the table above that are not marked, with `BoardTypeOK` (in which `InBuffers` keeps the I2C interrupt inside its caller's buffers); `CallsReturn`: every wait of the drivers ends |

Bounds, and why they are enough.

* Dispatch: two sensors and one truck give every interaction between a fire that is out and
  one in need, and of a truck that is ordered again; three sensors are needed for a truck
  passed on twice (`dispatch_capacity`, `dispatch_fan_out`). `MaxPending` bounds the messages
  in one direction, at 2 where their order matters. `MaxCopies` bounds the Truck objects alive
  at once for one truck: handlers that would need more do not happen, and the values leave
  room for one per sensor and more. Intensities up to 2 let a fire need two trucks. The
  simulator is left out of `dispatch_liveness`, whose property it cannot influence, and answers
  at once in `dispatch_capacity`, where its delays are not seen by the manager.
* Simulator: two sensors, two trucks and two orders in all: both trucks at one fire, so that a set
  is changed while it is read and by two threads at once; or one that is ordered from a fire to
  another while the first ends. A second fire at a sensor finds the trucks the first left in its
  set, which are like those an order left there. A third order of a truck is a known failure of
  `join()`, excluded by `SecondOrderWaitsForFirst` itself; the invariants are proved for any number
  of orders and of fires. `MaxIntensity` 2 for 10 lets a fire reach its limit and go out; a fire
  begins at 1. A drive has two ticks, on the road and at its end.
* Ring: 6 bytes for 2048 and frames of 4 for 54: frames that do not divide the ring, more than
  one lap (8 bytes), an overrun in the middle of the copy.
* Buses: a UART buffer and SPI FIFOs of 2, with more bytes than that in a call and up to two
  calls, so that buffers and FIFOs fill, wrap and are found empty; I2C transactions of each shape
  the drivers of `extdrv/` ask for, two in a row, so that one follows another's failure.
* Devices: an eeprom of two pages, so that a write crosses a boundary, ends at one or wraps; a card
  of two blocks of two units, so that a wrong address falls on another block; a display
  of two tiles; two lines of e-paper, a tick that wraps within two stages.
* Ticks and clocks: counters of a few values, so that they wrap; periods and sleeps of one, two
  and three ticks; two callbacks for two slots. `Usleep`: 8 counts to a millisecond, waits on
  both sides of it, past it and of two ticks, polls one count apart.
* Links: the host's packets are bytes, sums of 8 bits included: two packets of the module from four
  (an error, one that holds a start character, a reply without data whose size was never set, data
  that look like a start), one byte lost, one character of text. The slave has a table for one error.
  Lists: two heads, three entries.
* Frames: up to two pairs of readings, every change of a byte by the lowest or the highest bit
  and every swap of two. Library: words on both sides of each power of two, all bytes,
  buffers shorter than the text.
* Radio: ids modulo 2, so that the acknowledgement of a message is taken for that of the one
  after the next if it can be; three messages; FIFOs of 64 bytes that overflow at the third
  frame; a loop limit of 1 for 10; one frame of another transmitter.

`dispatch_safety` and `dispatch_capacity` permute the sensors, which nothing distinguishes; no
temporal property is checked with symmetry. Deadlock is checked in every run but `board`, where
a component with nothing to do stops (its bounds reached, its calls made): there an idle loop
and the busy wait of the driver are steps that change nothing, and `CallsReturn` tells a wait
from rest.

Fairness. `Dispatch`: a process that is up sets its handler and reads its socket (weak fairness of
`EMAddsHandler`, `SimulatorAddsHandler`, `EMHandles`, `ServerSends`, `SimulatorTakesOrder`): threads
and greenlets blocked in a receive wake up. `EmCatchesUp` is about changes that come while the
manager has its handler: one that comes before is lost for good, unless the intensity changes again.
`dispatch_waiting` adds that a truck whose fire is out is released and that the report arrives,
so that the violation is not due to a simulator that stops. `Simulator`: each thread runs, since
no lock or priority keeps one from it, and a request for a route ends; orders and fires may never
come. `SensorBuffer`: the main loop runs,
and a frame is acknowledged in the end (the radio's business, `RadioLink`). `RadioLink`: both
loops run and a transmission ends; that frames are not spoilt for ever and that no board hangs
are premises of the property and not fairness. `MCBoard`: for each of `Serial`, `I2c`, `Ssp`,
`Systick`, `Eeprom`, `DtPlug` and `Ncn5120`, the main loop goes on when it can, the interrupt is
taken when it is pending, and the hardware shifts, ticks and answers; a device may refuse for
ever and the other side need never send. In a behaviour of another part these actions are
disabled, and their fairness holds by itself.

## 4. Findings

* Trucks of a fire that is out are offered unchanged to every fire in need
  (`OneFirePerTruckObject`).
* A fire that waits for trucks is not told that one is available (`WaitingFireGetsTrucks`).
* The end of a fire releases trucks that have been sent to another since, because the set of a
  sensor does not find a truck that has moved (`OnlyItsOwnTrucks`).
* An order for a truck whose old fire goes out meanwhile ends in a `NullPointerException`, and the
  truck, stopped for it, is not started again (`OrderedTruckSetsOut`).
* A board whose TX strobe is refused hangs (`WaitForTxEnds`).
* An error noted by the uart's interrupt while the main loop notes one is stored behind the table
  (`ErrorsFit`).

Met while modelling `Dispatch`: the interventions of a fire that is out do not end, since the last
line of `handle_sensor_data` raises a `NameError` (`gateway.py:25`); `ServerReads` has it so.

Met while modelling `Simulator`, and part of its behaviour, but with no line of the repository
that says otherwise: a truck whose fire goes out before it arrives never reports, since its
listener is added after the drive; a truck that has arrived at two fires has two listeners, and
the second drive home, which has no ticks, kills the thread of the fire before its sensor is
made available; a third order does not stop the second drive; two threads that change the set of a
sensor at once may lose any truck of it (`raced`). `EveryTruckComesHome` holds
because of the wrong hash code: with one that depends on the truck alone, the loop that releases
the trucks would change the set it iterates over, which is the mutant of that property.

Met while modelling the drivers, with no line of the repository that says otherwise, so that the
properties take them as premises or the models exclude the case (each at its line): the shapes
listed under the drivers above; `i2c.c:137`, a fault during a repeated start leaves the start
flag set and the command starts over behind its caller's back; `ssp.c:156`, the loop for words
stops reading when its FIFO is full while the one for bytes does not; `countertimers.c:285`, the
input that resets the counter overwrites its mode; `gpio.c:209`, an edge that comes between a
pin's callback and the clearing of its flag is lost; `adc.c:216`, a conversion leaves the burst
mode of the one before; `tsl256x_light_sensor.c:259`, a test for a negative number of an unsigned
type; `system.c:286`, the tick's length is not updated when the clock changes; `vsprintf.c:104`,
a number cut by the end of the buffer moves the position back; `ws2812.c:138`, a frame of all LEDs
sends three bytes too many;
`dtplug_protocol_host.c:155` and `slave.c:281`, a packet
without data is sent with the size and checksum that were on the stack, so that its reader may wait
for data that do not come (the module's are in `HostLink`, as `Misleads`; what the module makes of
the host's is not modelled); `sdmmc.c:250`,
`sdmmc_init_end` called before the card is ready takes a large card for a small one, and nothing
in the driver keeps a caller from it (`sd_ready`).

## 5. Proofs

From the named assumptions on the constants only (finite sets of sensors and trucks, bounds
that are natural numbers, `NoSensor` outside `Sensors`):

* `TypeCorrect`: `TypeOK` is inductive. The work is in the handlers: what
  `findSuitableTrucks` can return is part of what it is given, and every sequence of orders that
  leaves is well typed.
* `ViewCorrect`: `EmViewIsDelayed` alone is not inductive, since a manager that connects must
  find no update left from before. `ViewInv` adds `NothingWaits`, without a live manager `toEM`
  is empty, and `KnowsNothing`, a manager without its handler has no fire. The cases that matter are
  a reading (the new update is the last of its sensor), a handler (the update taken was the last of
  its sensor or another is behind it) and an update that is ignored, which makes its fire unheard of
  on the same condition.
* `UnavailableCorrect` and `RecordedCorrect` are inductive with `TypeOK`; both rest on
  `StartRecords`: whatever the outcome of `send_truck`, its order joins the interventions or the
  history of those that raised. In `RecordedCorrect` what is in flight to the simulator is
  covered too, since it is what the simulator assigns next.

* `OverbookingCorrect`: what was sent to a fire, less one of its trucks, is below the largest need
  (`MaxIntensity`). What was chosen for what is lacking covers it, and without one of its trucks does not; added to what had been sent it
  leaves the same. The capacity of a set of Truck objects is defined by taking one away at a time,
  so the sums have their own lemmas: whichever is taken first, the sum is the same, and it is the
  sum of two parts. They are inductions over the subsets of a finite set, from the
  well-foundedness of strict inclusion, which the prover has for a property given as a set.

The simulator (`SimulatorProofs`), for any sensors, trucks, intensities and numbers of fires and
orders:

* `SimInv` is one invariant, since its parts need each other. `CallsInv` says which thread is where
  in `setSensor` and with what (`OrderInv`, `CallInv`), and that a truck is in the set of its sensor
  unless an order is about to add it or a fire is about to take its sensor from it (`SeenInv`);
  `LitInv` that a sensor that can be lit has no thread; `JoinedInv` that the thread of the orders is
  past `join()` only when the first drive of its truck is over; `StoppedInv` that a truck that is
  stopped waits for the thread of the order that stopped it, unless that order has failed.
* `SeenCorrect` (`AssignedTruckIsSeen`), `JoinCorrect` (`SecondOrderWaitsForFirst`) and
  `RoadCorrect` follow, for every interleaving inside `setSensor`. What they except is what the code
  does: a set that two threads have changed at once (`raced`) may have lost a truck, and an order
  that ended in an exception leaves its truck where it was stopped (`stranded`). `RoadCorrect` rests
  on `RoadInv`: a truck on a road has a thread that has not made its last tick, or an order on its
  way, or is stranded; the interrupted drive, the drive home inside another thread and the second
  order each hand it on.

The radio link (`RadioProofs`), for FIFOs, frames and spins of any size, ids modulo any number from 2
on, and any number of messages:

* `AcknowledgedCorrect` and `PrintedCorrect` follow from `RadioInv`: along a message's way and its
  acknowledgement's way back the numbers do not decrease (the last one the sensor knows acknowledged,
  the last acknowledgement in its FIFO and in the air, the last one printed, the one the gateway holds,
  those in its FIFO and in the air, the last one sent), and the two ends are at most one apart. Ids
  that are equal modulo 2 or more are then of the same message or of two that cannot both be waited
  for: a late acknowledgement is that of an older message only when the newer one is printed too.

From `RingSize` and `MaxFrame` even and at least 2, and any number of bytes
(`BoardProofs`, on the lemmas of `Remainders`):

* `BufferTypeCorrect`: with `CopyInv`, which says that each pointer is its count modulo the
  ring, and that a byte is read only into a frame with room for it.
* `SentCorrect`: `SentIsReceived` needs that the slots between the two pointers hold the bytes
  not taken (`RingHoldsUnread`), and that what is left of the frame had arrived when its length
  was computed (`RestHasArrived`), so that the stale pointer the compiler may keep still finds
  the ring readable. The interrupt's write disturbs the first; it goes to another slot because
  two counts less than a lap apart have different remainders (`ModDistinct`).
* `PairsCorrect`: `PairsStayTogether` holds through overruns, since the parity of a slot is the
  parity of every byte it ever holds (`ModParity`) and what was sent has an even length.

The drivers (`BoardProofs`, `DeviceProofs`, `DriverProofs`, `DtPlug`), for every value of their constants:

* `WatchdogStops`: the promise of `stop_watchdog` is inductive with the types; the lemmas say
  that no operation takes the internal oscillator from the chip (`IrcStays`) and that the detour
  by it is what frees the watchdog's own (`DetourFreesOscillator`).
* `RtcIsKept`: `RtcInv` adds that a clock that stands still inside a call belongs to a
  `time_write` that has not ended, and that the control registers are received before the marker.
* `BusIsKept`, `BuffersAreKept`: every step of the driver, of its interrupt and of the
  bus is `BusBegin`, `BusEnd` or a stutter of `I2cBus`. `I2cInv` says, for each status of the
  hardware, where the transfer stands: which byte is in the data register, how much of the command
  is acknowledged, how many bytes are read, and whether the acknowledge flag announces another.
  The result is right when the transfer ends because `write_index` and `acked` have gone in step
  until then. It rests on `TransactionsType`, the shape of what the drivers of `extdrv/` ask for:
  an address and bytes to write, a read alone or behind the only repeated start.
* `LockKeepsTime`: `SysTimeInv` adds what is known at each step of a call: while the lock is held
  the tick leaves both fields alone, so that what has been copied so far is still the time.
  `DifferenceIsExact` is arithmetic on the two fields, borrow included.
* `NoSecondAnswer`, `PacketIsKept`: `DtInv` adds that the interrupt never fills the packet in hand
  (`PacketsApart`: what it fills is the other one, as long as one is held) and that a packet that
  comes back to the main loop after its answer no longer asks for one, and is of a type whose
  handler does not set the bit again (`AnswersCounted`). All of it is until an error has been stored
  behind the table, which the run `dtplug_errors` shows to happen. `InterruptKeeps` and `MainKeeps` prove
  the two halves of the next-state relation.

* `RepliesCorrect`: `SspInv` says that the frames in the TX FIFO and in the shift register are the
  last ones given, and that the replies stored and those that wait increase, and are all that have
  come unless the RX FIFO overflowed.
* `EepromCorrect`: `EepromInv` says what is stored as the write goes on: the beginning of the buffer, at
  addresses that wrap, up to the page in progress, or with it while the chip is polled.
* `CallbacksCorrect`, `SleepCorrect`: `CallsInv` and `SleepInv`. The ticks that a registered
  callback has seen and those it still waits for make its period, except for the slot that is being
  filled; a main loop that sleeps counts the same ticks as the interrupt.
* `OwnAnswersCorrect`: `NcnInv` says that while the bus is silent the answers to come, on the line
  and in the buffer are those of the command in progress, and that the driver's count is theirs.
* `BlocksCorrect`, `BusCorrect`: `SdInv` relates the address sent to the place of the block on a
  card addressed by blocks or by bytes (`MultiplesApart`), and gives each step of an operation the
  chip that is selected and the holder of the bus. It needs the order in which callers use the
  driver (`sd_ready`).
* `SerialCorrect`: `SerialInv` says that the bytes on the wire, in the FIFO, in the output buffer and
  in the hands of the call are, in this order, one sequence with the numbers of the calls once each.
  A step moves a byte from the head of one to the end of the one before, or puts an unnumbered
  one between two of them. The premises of the property are those of the code: one `uart_on`, and no TX
  interrupt between `sending++` and the first byte.
* `NibblesCorrect`: `LcdInv` follows the four transfers of `lcdc_init` that bring the chip from any
  width and half to nibbles and to the first of two; no later instruction begins with a 3 (`NoThree`),
  and a 3 the chip holds is half of a byte of data (`HeldThree`), so nothing sets the width back
  while the board counts in nibbles. The characters written are any bytes (`CharBytes`).
* `ScreenCorrect`: `SsdInv` says where the chip's pointer is as the interrupt sends byte after byte
  (`InPlace`: unless a picture was cut or a tile overtaken, as far in the window as the transfer is in
  its part of the picture), and that when the driver believes the window to be the whole screen it is,
  with the pointer at its start between transfers. That a whole picture puts each byte on its own cell
  and brings the pointer back is from the quotient and the remainder of a byte's place by the columns.
  The asynchronous mode is in it: `ssd_async` is either, drawing may come between two bytes, and a
  cell drawn over is no longer one that must be shown.
* `ReceiveCorrect`: `RfInv` says which place of the frame is first in the FIFO before each
  transaction of `cc1101_receive_packet`. It assumes what the boards do, a buffer at least as long
  as the FIFO, and that a frame has a length that is not 0 and fits in the FIFO with it (`RfSizes`).

* `ListsImplementSequences` (a refinement: `ListSpec => ListsAreSequences`), `LinksAgreeHolds`: the
  links are `InOrder` of one sequence for each head, an entry being in one of them once or linked to
  nothing. `AddKeepsOrder` and `DelKeepsOrder` say, place by place of each ring, what the four writes of
  `__list_add` and `__list_del` make of it. The abstract list is what `next` reaches from the head;
  `ReachedIs` shows that this is the sequence the links are in the order of, so each call is the
  abstract one. `WalkInv` keeps the second cursor of a walk linked and apart from the first over every
  call its body may make. It needs entries in finite number (`ListConstants`).
* `RatesKeepFollowing`: each divider is the quotient of the main clock by its rate, which
  `propagate_main_clock` computes again before `clock_config` is over. It holds for UART rates from 58
  and SPI rates from 923 on (`ClockConstants`): at 60 MHz the divisor of a lower one does not fit in the
  latch's 16 bits, and the search for a prescaler in `ssp_clk_on` does not end. No caller asks for less.
* `DifferencesStayRight`: with `LockKept`, the step of `LockKeepsTime`'s invariant; what
  `set_time_and_get_difference` has read before it writes is the time it replaces.
* `SleepStaysShort`: `InCall` gives, for each step of `usleep`, how far the counter can have got: what
  has been counted, the counter and the turns it made make the time (`Turned`), and the ticks of
  `msleep` and the flag tell the turns (`OneTurn`, `FlagTells`). A call is in time because no second
  turn fits before its bounds (`TurnsOnce`). Its premises are the property's, which the proof showed to
  have been too weak: a counter that reaches zero between the call and the first tick `msleep` counts
  costs a whole turn, so the start must be more than two delays above zero. It assumes that two delays
  take at most a millisecond (`UsleepAssumption`).
* `EpaperStaysSafe`: `PowerInv` gives pins, PWM and pumps at each step of the two power sequences, with
  the display's own pull-ups, and `DrawInv` what the lines of a stage show by each line sent and how
  much of its time has passed, modulo the wrap of the tick counter.
* `FramesShowAll`, `FlashKeepsItsParts`: a colour that is the last of its led is in the buffer and at or
  below the highest led set (`WsInv`); the sector prepared is that of the call's address, the driver's
  formula and the chip's table of sectors being the same function, and a part is known from the last
  command that succeeded on it (`FlashInv`).
* `EdgesReachTheirPins`, `TimersTellWhatTheyRaise`, `AlarmStaysAhead`, `LastRequestIsConverted`,
  `PointerStaysKnown`, `SensorsMeasure`: the invariants are small (`GpioInv`, `TimerInv`, `RtcInv`,
  `BmeInv`, `TslInv`) and say where an interrupt's handler or a call of several transactions stands.
* `LuxStaysBounded`: on each segment of the curve the second term is at most the first, from its bounds
  on the ratio; in a CS package the last segment breaks this above 8192 counts, where
  the difference wraps, so the property is bounded there.

The invariants above strengthen properties that a run checks: they say what a step must preserve
inside a call, where the property itself says nothing yet.

Only model-checked:

* the liveness properties (`EmCatchesUp`, `EveryTruckComesHome`, `EverythingIsSent`,
  `EveryMessageIsAcknowledged`, `CallsReturn`), which are out of the prover's reach;
* `FramesAreRead` and `LibraryIsRight`: `RadioFrames` and `Library` use bitwise operators, powers and
  folds, for which the prover has no theory;
* `HostLinkHolds`: that a sum of bytes is what it was when it was sent is an induction over them;
* `BoardTypeOK`, which is stated in `MCBoard` over all the boards' modules, those among them.

## 6. Not modelled

Geolocations and routes, the display in browsers, and the parts the plan below still has to
reach. Of the boards: start-up code, the vector table, the checksum engine (no driver here uses
it), the string library, the drawing of lines and characters, the compensation formulas of the
BME280 (their bounds are the data sheet's), the DHT11, whose bits are lengths of pulses, `bits_set`
(it reads beyond its table), the overflow of the light sensor's product above 32 bits, and the copies of the host's protocol in
`lighthouse` and `dtplug_protocol`. A frame whose status bytes alone exceed the FIFO of the radio
(`Sensor/main.c:59`), a sensor that reboots and starts its ids again (`Sensor/main.c:254`), and
the array of the gateway that is too short for its copy (`Gateway/main.c:267`), whose overrun
depends on the compiler's layout of the stack. Of the server: the browsers' sockets, whose failures
end other handlers (`ws/client.py:52`), and the pool of four connections, from which a failed query
takes one for good (`db.py:18`). Of the simulator: the list shared without a lock
(`SensorHolder.java:19`) is there, but nothing says that an addition must not be lost.

## 7. Plan

1. `FireSystem`: `Simulator` in the place of the simulator of `Dispatch`, shown to refine it.
2. `ServerSockets`: greenlets, the list of browsers, the global sockets; that an error on one
   socket closes no other; the pool of connections.
3. Abstract specifications: a link that delivers each message at least once and in order, which
   `RadioLink` implements; a queue of pairs, which `SensorBuffer` implements until it overruns.
4. `RadioLink`: a sensor that reboots and starts its ids again.
5. Proofs: the types of the boards' modules; the actions of the simulator's threads that only
   liveness sees.
