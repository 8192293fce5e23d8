# Verification of the CO2 / humidity / pressure transmitter firmware

The program in `src/` is the firmware of a family of room sensors (CO2,
humidity, pressure, PM2.5) on an STM32F103 under FreeRTOS.  One image serves all
models; `PRODUCT_ID`, read from the EEPROM, selects the tasks that run.  This
directory holds TLA+ models of its concurrent core, the TLC runs that check
them on small instances, and TLAPS proofs for every value of the constants.

    tlc -config port_core.cfg MCModbusPort.tla     # one run
    tlapm ModbusPortProofs.tla                     # the proofs of a module

## 1. The system

Tasks share plain global variables; there are two mutexes (EEPROM bus, RS485
master) and three queues, everything else is unprotected.  The scheduler is
preemptive with a tick of 1 ms.

| Part | Where | State | Talks to |
|---|---|---|---|
| RS485 slave port | `USART1_IRQHandler`, `vCOMMTask`, `xPortSysTickHandler`, `modbus.c` | receive buffer, count, expected size, timeout, tag; send buffer, index, hold-off; direction pin | menu (re-initialises it), register map |
| Register map | `Data_Deal`, `internalDeal`, `responseCmd` | struct `modbus`, write-once flags | COMM, NET |
| Network configuration | `vFlashTask`, `vNETTask`, UDP scan, TCP server | ghost and live addresses, `write_ghost_system`, `IP_Change`, `update` | EEPROM, reboot |
| Flash point store | `store.c` | RAM tables, three flash pages with markers, dirty flags | BACnet server, flash task |
| Internal CO2 sensor | `co2.c`, `sub_net.c`, USART2 | request type, failure counter, reply buffer, reading | alarm task |
| CO2 alarm | `co2.c` | alarm state, pre-alarm counter, node database | NET task, scan |
| Subnet scan | `scan.c`, `subnet_scan.c` | device database, occupancy bitmap, one write mailbox | task not started in this build |
| Humidity / temperature | `humidity.c`, `temperature.c` | sensor presence, command mailbox, heater | NET task |
| Pressure, PM2.5 | `pressure.c`, `pm25.c` | filtered readings, frame parser | outputs |
| Outputs, PID, keypad, menu | `analog_output.c`, `pid.c`, `key.c`, `MENU/` | outputs and feedback, integrators, key queue | all |
| EEPROM and flash drivers | `24cxx.c`, `stmflash.c` | I2C bus | all tasks |

What is hard here: interrupts between the load and the store of a shared
counter; buffers that are read again after a task has blocked; timeouts that
race the packet they guard; replies cut by a re-initialisation; lost bytes that
shift a packet under its own parser; configuration committed by one task while
another changes it; a reset between two writes; byte counters at 0 and 255.
PROJECT.json lists each hazard with its line.

What makes the parts correct: the *port* executes a request at most once,
answers whole replies from their first byte, never stays deaf and never keeps
the line; the *configuration* that survives a reboot is the last one accepted,
never a mixture; the *store* recovers either the old or the new table; the
*alarm* follows the reading with its hysteresis and its manual override; a
*reading* is never used when the sensor did not answer; the *database* of the
subnet has one entry per device.

## 2. Plan

1. `ModbusPort` (done): the port with its four actors; abstract specification
   `HalfDuplexSlave`; proofs in `ModbusPortProofs`.
2. `NetConfig` (done): ghost registers, flash task, network task, UDP command,
   lease, factory reset, reboot; abstract specification `OfferedStore`; proofs of
   what is durable in `NetConfigProofs`.
3. `PointStore` (done, without `io_control`): dirty flags, erase / write /
   marker, restarts; abstract specification `DurableTable`; proofs in
   `PointStoreProofs`.
4. `Co2Sensor`, `Co2Alarm` (done): the poll with lost, garbled and late bytes and
   the search for the type of the module; the alarm with concurrent remote writes;
   abstract specifications `WatchedSensor` and `ObedientBeeper`.
5. `Humidity` (done but for the filters): search and loss of the sensor, the slot of
   orders, heater and offsets; `WatchedSensor` again.
6. `Keypad` (done): keys, queue, password, block timer, one menu with settings;
   abstract specification `SettingsEditor`.
7. `PidLoop` (done for two of the three loops): computation and saving of settings.
8. Left to prove: nothing of what the runs check but the liveness properties, which
   this prover cannot reach.  Left to model: `io_control` in `PointStore`; the shared CRC and the write-once registers
   (`RegisterMap`); `AnalogOutput`; `Pm25`; `SubnetScan`, whose task this build does
   not start.

An abstract specification says what a component promises without its buffers, counters
and program positions; the component's module instantiates it with a refinement mapping,
its run checks it as a property, and a theorem `Implements...` proves it for every value
of the constants:

| Abstract specification | Implemented by | Promise |
|---|---|---|
| `HalfDuplexSlave` | `ModbusPort` | takes a request, answers it, releases the line |
| `OfferedStore` | `NetConfig` | fields written by several writers without a lock hold what a writer brought |
| `DurableTable` | `PointStore` | a restart finds the last picture saved, or the factory names |
| `WatchedSensor` | `Co2Sensor`, `Humidity` | a sensor is there from an answer on, for a limited number of unanswered questions |
| `ObedientBeeper` | `Co2Alarm` | sounds after the delay and not before; orders decide |
| `SettingsEditor` | `Keypad` | settings change only by a confirmed draft taken from them, behind a lock |

Each component module has a module `...Proofs` with its theorems; TLC's values for the
constants are in the `.cfg`, larger ones as definitions in the `MC...` module.  A
comment `Variant:` marks a definition that no specification uses: the definition
after it, with a plausible mistake, which the run of the component must notice.

The modules use no RECURSIVE operator, so that each can be proved about.

## 3. The RS485 port: `ModbusPort`

**State.**  The variables carry the names of the globals they model
(`USART_RX_BUF`, `revce_count`, `rece_size`, `serial_receive_timeout_count`,
`dealwithTag`, `TXEN`, `send_count`, `uart_send`, `reply_done`).  `txe` is the
transmit interrupt enable, `pc`, `reg`, `cur`, `item` the control point and the
locals of the COMM task, `menu` and `changes` the baud rate item of the menu,
`waiting`, `onWire`, `offset`, `lost` the bus.  `handled` and `stored` are
history.  A byte is abstracted to the request it belongs to: position `p` of the
buffer holds `f` exactly if it holds byte `p` of `f`.  A byte that is out of
place is one of `Garbage`, whose meaning as address, function code and byte
count the run chooses, because the handler interprets positions 0, 1 and 6
whatever has got there.

**Actions.**  One per step that can be interleaved with another actor:

| Action | Code |
|---|---|
| `ReceiveByte`, `ReceiveOverflow` | `USART1_IRQHandler`, RXNE branch |
| `TransmitByte` | `USART1_IRQHandler`, TXE branch |
| `SysTick` | `xPortSysTickHandler` |
| `PollTag`, `StoreTag` | test, load and store of `dealwithTag--` |
| `DealAccept`, `DealReject`, `DelayOver` | `dealwithData`, `checkData` |
| `ScanDelay`, `ScanAccept`, `ScanReject` | `checkData` for a plug-and-play request: the header before the random delay, the CRC after it |
| `RespondBroadcast`, `RespondBuild`, `SendDataString` | `responseCmd`, `USART_SendDataString` |
| `DealNothing`, `DealWrite`, `DealMulti`, `DealReinit` | `internalDeal`, which looks at the function code once; `Data_Deal` for the baud rate |
| `StoreName` | one turn of the loop over the panel name: the wait for the EEPROM, then `panelname`, the byte count and the next byte, all read from the buffer again |
| `CountDown`, `StoreCount`, `CheckCount` | the timeout of `vCOMMTask` |
| `MenuUartInit`, `MenuModbusInit` | baud rate item of the menu |
| `StartRequest`, `LoseByte` | the master and the line (external) |

`Interruptible` chooses whether the two decrements of the COMM task are atomic.
They compile to load, subtract, store; with `TRUE` every handler may run in
between, and of the invariants only `CompleteIsWhole` and `LineReleased` survive: the
other runs and the proofs that need it take the decrements as atomic.

**Runs.**

| Run | Instance | Shows |
|---|---|---|
| `port_core` | read + multiple write, garbage looking like a multiple write and like an unknown code, one lost byte, hold-off 1 | at most one execution, whole replies, line held, refinement of `HalfDuplexSlave` |
| `port_reopen` | online check (with delay) + baud rate write, garbage with byte count 247, one lost byte, one menu change | recovery and release with re-initialisation at every blocking point and during the own reply, expected size 0, overflow; no bytes are left that nobody is going to clear (`NotDeaf`) |
| `port_interrupts` | plug-and-play read + broadcast + multiple write, interruptible decrements | a complete packet is whole |
| `port_store` | read + multiple write | disagreement 1 of section 12: the multiple write is accepted, answered and half stored when the read fills the buffer |

The buffer has 12 or 13 positions instead of 200, just longer than the longest
request, so that it overflows after one lost byte and after two requests; a
reply has two bytes, so that it has a middle; timeouts of two turns can be
running, expiring or off.  Two requests suffice for one to overtake, overwrite or
follow the other.  A run sends each request once, so the bus falls silent and a
forgotten byte would stay forgotten.

**Fairness.**  Weak fairness of the COMM task (woken every 5 ms), of `SysTick`
(a timer interrupt), of `TransmitByte` (an enabled TXE interrupt stays pending).
Strong fairness of `MenuModbusInit`: the menu task has a lower priority and runs
whenever the COMM task is blocked, which it is again and again.  The bus and the
user owe nothing.

## 4. Proofs about the port: `ModbusPortProofs`

All theorems hold for every set of requests, buffer size above 7, timeout,
hold-off, reply length and number of lost bytes, from `PortAssumption` alone and
the assumptions named in the theorem.

* `TypeCorrect` (no further assumption).  Inductive with `RegInv`: a decrement in
  progress holds a positive value.
* `WholePackets` (short multiple writes, no scan write).  `SizeInv` gives the
  expected size as a function of the bytes received; `PlaceInv` says that a
  byte in the buffer has been on the wire and sits below the size of its request.
* `ExecutedAtMostOnce` (atomic decrements, no plug-and-play requests).
  `OnceInv`: a request that was executed is off the bus, and an announced
  request was not executed; `PlaceInv` gives that an accepted request is off
  the bus.
* `LineIsReleased` (a buffer shorter than 250 bytes, the size that stands for an
  unknown one; the code has 200).  It holds with interrupted decrements, random delays,
  scans and re-initialisation.  What could leave the line driven is a request that is
  accepted, overwritten during a random delay, and then found to have no reply.
  `LetGoInv` excludes it: a packet with an unknown function code is never complete
  (`OtherSize`), and one that has replaced an accepted packet has started the timeout
  (`OtherTimed`), which releases the line.
* `NeverDeaf` (as before, atomic decrements, no byte count of 248): on top of
  `LetGoInv`, bytes in the buffer are about to be cleared (`NotDeaf`), because the
  first byte starts the timeout, and only the announcement of a packet or its own end stops it.  A byte count of 248 gives
  a timeout of 0 and an interrupted decrement of the tag loses a packet; with either
  the port may stay deaf until the buffer overflows.
* `PacketHasStoppedTimeout`, `DriverIsHeld`, `RepliesFromStart` (`Undisturbed`).  `AnnounceInv` ties the tag to the size and
  the stopped timeout, `LineInv` ties the direction of the line to the stage of
  the reply.  `Undisturbed` excludes what makes them false (section 12): interrupted
  decrements, re-initialisation, random delays, a byte count of 247.
* `ImplementsSlave`: initial states and steps map to those of
  `HalfDuplexSlave`.  Its fairness is left to TLC (`SlaveSpec` in `port_core`).

The liveness properties `Cleared` and `Released` are only model-checked.

## 5. The point tables and their flash pages: `PointStore`

**State.**  `ram` stands for `outputs`, `inputs` and `var`, a row for the names of
one point; `write_page_en` are the marks of the tables to be saved; `page` and
`written` are the flash pages and their first half-word; `unlocked` is the state of
the flash controller; `pc`, `cur`, `row`, `tempbuf` are the position and the
buffer of `Flash_Write_Mass` or, while `booting`, of `mass_flash_init`, whose
default branch takes the same steps.  `since` and `unpromised` are history: the
values a row has had since its save began, and the changed rows no save is due
for.  The values of the points, which other tasks keep changing, are left out:
only the names are what a user expects to find after a restart.

| Action | Code |
|---|---|
| `write_bacnet` | `write_bacnet_name_to_buf`, `write_bacnet_description_to_buf`: row and mark |
| `write_user_data_by_block` | the Modbus block write: row without mark |
| `Wake`, `TestMark`, `SaveErase`, `ClearMark` | `Flash_Write_Mass` once per second; outputs and inputs lose their mark before the save, variables after it |
| `CopyRow`, `WriteRow`, `WriteMarker` | `memcpy` to `tempbuf`, `iap_write_appbin`, marker and `STMFLASH_Lock` |
| `LoadPage`, `LoadDefaults` | `mass_flash_init`; the inputs' branch does not unlock the flash |
| `Restart` | `SoftReset`, watchdog, power failure, between any two steps |

The erasure is one step because the controller stalls while its flash is erased;
a power failure that leaves a half-erased page is outside the model.  A row is
copied and written in one step.  The second page erased for the variables is
never written and left out.

**Run `store_core`.**  Two rows, so that a table can be half copied, half written
and mixed; three renames, so that one starts a save and two fall on either side
of the copying; one restart at any step.  It shows that a page with the marker is
complete (`WholeTables`), that a table without a mark is stored
(`StoredWhenClean`), that everything due is stored in the end
(`EventuallyStored`), and that `DurableTable` is implemented (`DurableSpec`): a restart
finds a picture taken during the last finished save or, when it cuts a save
off, the factory names.  *What the code does not promise* is in `unpromised`: rows
changed by a Modbus block write without a rename, and variables renamed while
the variables are being saved, whose mark `ClearMark` takes away.

**Fairness.**  Weak fairness of the program steps: the flash task is scheduled
again and again because the clients wait for their requests; renames and restarts
are bounded and owe nothing.

**Proofs: `PointStoreProofs`**, from `StoreAssumption`, for any number of rows,
names, changes and restarts.  `IInv` adds to the types: where the task can be and
that the variables stay marked until `clear` (`ControlInv`), that the buffer holds
names (`BufferInv`), that the page is erased but for the rows put (`PageInv`), that
loaded tables are what a restart would load (`LoadInv`), that a row due to be stored
is in the buffer or on the page (`StoreInv`), and that it was in the table during
the save (`SinceInv`).  `TypeCorrect`, `TablesAreWhole` and `CleanIsStored` follow;
`ImplementsTable` is the whole of the refinement, since `DurableTable` states no
fairness.  `EventuallyStored` is only model-checked.

## 6. The network configuration: `NetConfig`

**State.**  `live`, `ghost` and `eeprom` are the registers in use, the ghost registers
and the stored bytes; field 0 is `ip_mode`, field `o` octet `o` of the address (mask
and gateway take the same way right after it).  `write_ghost_system`, `IP_Change`,
`update` are the flags between the tasks, `count` the turns of the network task.
`pc`, `field`, `byte` are the position and the byte of `EEP_Dat_Init`, then of
`vFlashTask`; `net`, `netField`, `netByte` those of the UDP command in `vNETTask`;
`wiped` that of the reset to factory settings in the COMM task.  Passing a byte to
`AT24CXX_WriteOneByte`, which waits for the mutex of the bus and for the chip, and
the write are two steps.  `since`, `before` and `unstored` are history.

| Action | Code |
|---|---|
| `BootLoad`, `BootDefault`, `BootMode` | `EEP_Dat_Init`, `tapdev_init` |
| `FlashStart`, `CommitBegin`, `CommitCopy`, `CommitFetch`, `CommitStore`, `CommitFinish` | `vFlashTask` |
| `NetTurn` | `vNETTask`: ten turns after `IP_Change` or `update` it restarts |
| `UdpCommand`, `UdpFetch`, `UdpStore` | `UDP_SCAN_APP`, command 0x66 |
| `dhcpc_configured` | the DHCP lease |
| `WriteGhost`, `WriteGhostSystem`, `AskRestart` | Modbus registers, the TCP update command |
| `MenuMode`, `MenuDisable` (and `WriteGhost`, `WriteGhostSystem`) | menu items of the network |
| `UpdateRestart`, `FactoryBegin`, `FactoryStore` | `MODBUS_UPDATE_STATUS` |
| `PowerFailure` | between any two steps |

The loop of `Misc_init` that restores the ghosts, and the assignments of the UDP
command before its first EEPROM write, block nowhere and are one step each.  The
factory reset is a task of its own: over TCP it would run in the network task,
which allows less.

**What the code promises.**  There is no lock around a commit, so a configuration
may be stored as a mixture; what can be mixed is exactly what was offered.
`OfferSpec` says it: the EEPROM implements `OfferedStore`, whose writers come and go, each
with a value for every field.  It changes only while one of them is at work and only to
what one of them brought; the last one to leave must find nothing else in it; a restart
leaves, at worst, what was there before.  The mapping takes these values from `since`
(what the tasks that store were given since the first of them began) and `before`:
without interference `since` has one value per field, and the commit is exact.  `LiveIsStored` lists in `unstored` where RAM and
EEPROM differ by design: a lease, the mode and an untested address of a UDP command,
and an address that UDP command and flash task stored at once (TLC finds the
counterexample when this exception is dropped).  `Agreed` adds that all but the
lease is settled in the end, because the UDP command restarts the controller.

**Run `config_core`.**  Two octets, one of them tested by the UDP command; bytes 0, 1
and 255 (zero, something, erased); a restart in the second turn; three things done by
clients, so that one may start a commit and two may disturb it, and one power
failure.  A quiet controller takes no step, so deadlock is not checked.

**Fairness.**  Weak fairness of the boot, the flash task, the network task and a
factory reset in progress: each runs again and again because tasks of higher
priority sleep between their turns.  Clients owe nothing.

**Proofs: `NetConfigProofs`**, from `ConfigAssumption`, for any number of octets,
turns, changes and power failures and any set of tested octets.  `PlaceInv`: nobody
else stores during the boot.  `StoredWasOffered` needs that every byte on its way, and
the ghosts and live octets it will come from, are in `since` (`CommitInv`, `UdpInv`,
`WipeInv`, `BootInv`), and that fields already passed hold such a byte.  `UsedIsStored`
needs that passed fields are as in RAM (`CommitLive`, `UdpLive`, `BootLive`) and that
two tasks that store at once have given up the octets.  `ImplementsOffered` is the whole of
the refinement: every step of every task is, for the EEPROM, nothing, an offer, another
value for a task at work, a byte, the end of a task, a restart or the repair of the mode
(`Stutters`, `Begins`, `Extends`, `Writes`, `Finishes`, `Crashes`), and `StoredInv` gives
that a byte was offered and that the last task leaves nothing foreign behind
(`Recoverable`, the invariant of `StoredWasOffered`).  `Restarted` and `Agreed` are
only model-checked.

## 7. The internal CO2 sensor: `Co2Sensor`

**State.**  `type` and `stored` are `internal_co2_module_type` in RAM and in the
EEPROM, `rate` the kind of module USART2 has the bit rate of, `status` and `silent`
the search for the type, `fail`, `reading` and `data` the judgement, the value and the
bytes it was computed from.  `queue` is `qSubSerial`, into which the bytes go while
the type is an OGM200; `recv`, `size`, `tag`, `odd` are `subnet_response_buf` and its
parser for TEMCO modules.  `flight` is what the module has still to send.  `id`,
`online`, `ctr` are the address of the controller and the list of sensors that are
online.  A byte is its place in an answer and the age of that answer; a garbled byte
is `Junk`, and is taken never to look like the function code of a read.  `unanswered`,
`gone`, `goneThen`, `crossed`, `tested` and `strays` are history: the last two are the address whose
bit was tested, and how many bits were set or cleared at another address.

| Action | Code |
|---|---|
| `Poll`, `Manual` | `co2_request`, `set_subnet_parameters`: one pass of `Co2_task` |
| `Byte` | `USART2_IRQHandler`: to the queue, to the buffer, lost or garbled |
| `TakeQueue`, `TakeBuffer` | `wait_subnet_response`, `receive_internal_co2_ppm`, `dealwithData1` |
| `GiveUp`, `NoModule` | the end of the wait, and a type without a module |
| `SetBit`, `CountUp` | after an answer whose test of the bit found it clear: the bit is set, then the sensor counted, each at the address of that moment |
| `ClearBit`, `CountDown` | after a miss too many, if the test found the bit set: it is cleared, then the count goes down |
| `Cycle`, `SetRate`, `Store` | after twenty silent polls the next type and its bit rate; the EEPROM once it answers |
| `ClientType`, `ClientStore`, `ClientRate` | `MODBUS_CO2_INTERNAL_EXIST`: type, EEPROM, bit rate |
| `ClientManual`, `ClientAddress`, `Restart` | output mode, address (register, or the menu), restart; the address changes also between test, bit and count |

A poll begins every two seconds; an answer, and a register write, take less, so a poll
finds the line silent and no client half way (`Asleep`).  The address is read for index and for bit number of one
expression; the model reads it once for both.

**Run `co2_core`.**  Answers of three bytes (two of the header, the end)
and room for four, so that one lost byte shifts the queue and fills it; one failure
forgiven and one silent poll before the next type, so that the search goes round; two
addresses; one lost or garbled byte, one late answer, one thing done by clients; either
kind of module, and any stored type.  It shows that a reading is never put together from
two answers (`Whole`, `Fresh`), that the task watches over the module as `WatchedSensor`
does (`WatchSpec`: a measured value is shown from an answer on and taken away by just as many
silent polls as are forgiven, or by a manual value), that the count of
online sensors is that of the bits, modulo 256, but for the one being counted and one more or
less for each address that changed between test and update (`Counted`), that the search finds
the module (`Detected`) and that a TEMCO module is read again and again
(`BufferReadsOn`).  The queue of the other receiver does not promise the last: run
`co2_shifted` is disagreement 2 of section 12.  `Whole` has one exception, `goneThen`: when the
queue has missed a whole answer's worth of bytes since it was last empty, the first and
last byte of two different answers can stand an answer apart.  With one change of a client the run
reaches a count too small; one too large needs two changes, and is covered by the proof only.  `crossed` is the exception
of `Detected`: a client that sets the type just before the task stores what it had fetched.

**Fairness.**  Weak fairness of the task (every two seconds), of `Byte` (a module that has
begun an answer sends it) and of a client's write in progress.

**Proofs: `Co2SensorProofs`**, for any length of an answer, room, limit, set of addresses
and number of faults.  `CountInv` relates `fail` and `unanswered` for `SilenceExpires` and, step by step, for
`ImplementsWatch`;
`OnlineInv` adds to `Counted` that the tested bit still is what the test found, as only the task
changes it, and gives `OnlineIsCounted`; `BufferInv` says that during a poll the buffer
only holds bytes of its answer, announced when their number is reached, for `ReadingsAreFresh`.
`ReadingsAreWhole` needs more, as the queue mixes answers: `StreamInv` numbers every byte
the module ever sent.  The numbers of the bytes in the queue increase and skip no more
than the queue misses (`Numbered`), and number and answer give place and age (`Dated`).
If the first byte begins an answer, the byte an answer further ends one, and fewer than an
answer are missing, both numbers are in the same answer (`OneIsWhole`), and so is
everything between.  `Detected` and `BufferReadsOn` are only model-checked.

## 8. The CO2 alarm: `Co2Alarm`

**State.**  `alarm_state` and its bit `manual`, `judged` the state of the internal sensor,
`alarm_status` the beeper, the two counters and three times.  The reading is one of four
levels, which is all `co2_alarm` distinguishes.  `order`, `by`, `passes`, `delay` are
history.

| Action | Code |
|---|---|
| `Judge`, `WriteBack`, `Beep` | `co2_alarm` once a second: judgement, the write to `alarm_state`, the beeper; a client may come in between |
| `Measure` | the reading and the setpoints, written by other tasks |
| `SetManual`, `SetAuto`, `SetTimes` | the registers of the alarm, over RS485 (`COMM`, which only runs while the alarm task sleeps) or the network (`NETWORK`, which interrupts it) |

**Run `alarm_core`.**  Times and delays up to two passes, orders for no alarm, the
continuous one and a value without a case.  `BeeperSpec` says that the alarm implements
`ObedientBeeper`: in whatever order states and times change, passes with an alarm let the
beeper sound as soon as the delay is over and not before, a pass without alarm silences it,
and an order over RS485 decides which of them every pass is; `ManualKept` that what
was set by hand over RS485 stays (an order over the network between judgement and write is
lost); `Follows` that the beeper ends up doing what the reading asks for.  Clients may go on
for ever.

**Fairness.**  Weak fairness of the alarm task, which wakes every second.

**Proofs: `Co2AlarmProofs`**, for all times and orders; the types are only proved.  `TypeCorrect` (the counter
of the pre-alarm is below the largest time because it is compared with `>=`),
`DelayIsKept` (`Owing`: what is left of the delay and the passes since make at least the
delay), `ManualIsKept` (a write to come was judged while the alarm was automatic, or the
order came over the network), `ImplementsBeeper` (`Exact`: the counter of the delay is the
delay less the passes since, until it is 0).  `Follows` is only model-checked.

## 9. Humidity and temperature: `Humidity`

**State.**  `display_state`, `hum_exists`, `ctr` the search; `flag` and `value` the slot
`external_operation_flag`, `external_operation_value`, through which clients order a
calibration or the heater; `heat_status`, `read_count`, `auto` the heater as the task knows
it, `heater` as it is; `offset` and `saved` the offsets in RAM and their bytes in the EEPROM;
`todo` the writes a client's handler has yet to do.  An integer has two bytes of one bit, so
that the two writes of the EEPROM matter; the sensor always measures 1.

| Action | Code |
|---|---|
| `Search`, `Read` | the test of the sensor at the start of a pass |
| `OperateTemp`, `TempTaken`, `OperateHum`, `HumTaken`, `OperateHeat`, `HeatTaken`, `SaveLo`, `SaveHi` | `external_operation`: an order is carried out, its bytes stored, the slot freed, with clients in between |
| `Update`, `SoftReset`, `Refresh` | `update_temperature`; a sensor that is back restarts the controller; `refresh_sensor` waits for it |
| `AutoHeat` | `auto_heating`: on after damp air, off after a time |
| `Call`, `Step` | a client's register write, one assignment or EEPROM byte at a time |
| `Swap`, `Restart` | the sensor is taken off or put on, perhaps another one; a restart |

Scheduling follows the priorities: `COMM` only runs where the task blocks, `NETWORK`
interrupts it and only the EEPROM blocks that (`Runs`, `At`).

What the search and the readings make of the sensor is `WatchedSensor` once more
(`WatchSpec`), with two limits: no fewer failed passes than the limit of the search give it up,
and no more than that of the readings.

**Run `humid_core`.**  Two failed searches or three failed readings make the sensor missing;
the heater goes on at the first damp pass and off after one; two events of any kind, so
that an order may meet another, a lost answer, a swap or a restart.  Deadlock is not
checked: a sensor taken off just before it is read for the first time keeps the task in
`refresh_sensor` for ever, which is a real stop (`Present` names it).  What the code does not
promise is in the history variables: `lost` (the answer to a heater order was lost, its value
changed while it was carried out, or the controller restarted with the heater on),
`crossed` (two orders met in the slot or in the EEPROM) and `stale` (mode or offset had
changed since the reading a calibration is computed from).

**Fairness.**  Weak fairness of the task, which runs every five seconds.  Strong fairness of
the steps of a handler that has begun: the task sleeps again and again, long enough for the
others.

**Proofs: `HumidityProofs`**, for all limits and bounds.  `LossIsNoticed`
and `ImplementsWatch`: `CounterInv` says that while the sensor is taken for there, `ctr` is the number of failed
passes in a row, below the limit of the search as long as that goes on, so that no limit,
which is tested for equality, is jumped over.  `HeaterIsKnown`: `HeatInv` ties the slot and a heater order in progress to the heater.  `TypeCorrect`:
orders under way carry a channel and bytes of the right width (`OrdersT`).  `Present`,
`HeaterOff` and `Obeyed` are only model-checked.

## 10. Keys and menus: `Keypad`

**State.**  `held` the key under the finger, `pre_key` and `long_press` of `vKEYTask`, `qKey`;
`menu` and `waited`, the block timer; the password under entry; the item and value under
edit; two settings.  Of the menus that edit settings one stands for all: they share
`update_menu_state`, the block timer and the way a value is selected, changed and stored.

| Action | Code |
|---|---|
| `Press`, `Scan` | the user; `vKEYTask`, which sends without waiting and counts the key as sent |
| `Handle` | `MenuTask` takes a key: `KeyCope` of the menu, with `Idle_init`, `Main`, `Conf_init` |
| `Wait` | a pass without a key: the block timer, back to `MenuIdle` |
| `ClientPassword` | `MODBUS_PASSWORD_ENABLE` |

**Run `keypad_core`.**  Three keys, since `down` undoes `up`; a queue of one, full at the
second event; a password of two digits out of 0 and 1; two passes until the display goes
back.  The user and the client may go on for ever.
`EditorSpec` says that the menus implement `SettingsEditor`: only who may enter opens them, a
setting changes only by the confirmation of a draft that started from it, or by the client,
and a draft is gone when it is abandoned or the timer closes the menu, although `in_sub_menu`
and the value keep what they held.

**Fairness.**  Weak fairness of both tasks, which run every tenth of a second.

**Proofs: `KeypadProofs`**, for every password, queue, time and range.  `Inv` is the typing with
`Guarded` (a menu with settings, or a password that counts as given, has `proven`; at
`MenuIdle` no password counts as given),
`EditInRange` and `EditFresh`; `TypeCorrect`, `SettingsAreLocked` and `EditsAreFresh` follow,
and `ImplementsEditor` takes from it that a draft is there only in an open menu, belongs to
the item it is written to and is within its range.
`Home` and `Responds` are only model-checked.  Of the writers of a setting only the Modbus client is
modelled, for the items in `Remote`; values that measuring tasks show and change themselves are not
among the settings of the model.

## 11. A control loop: `PidLoop`

**State.**  `con` is `controllers[i]`, `sample_time` included, `measured` the input of the task,
`old_err` and `error_area` are `con_aux[i]`, `EEP_SetPoint`, `Set_Flag` and `eeprom` the stored
side of the settings.  `todo` holds, for each of the two tasks that handle registers (COMM for the
serial port, NETWORK for Modbus/TCP), the EEPROM bytes its handler has yet to write: each waits in
every byte, so the two interleave with each other and with the save.  History: `asked` the output of
the last block write, `overtaken` that it came in the middle of a computation, `stretched` that the
integral was last made with another sample time than the task's, `crossed` the stored fields that
two wrote at once.  Two turns of the task, the time of a sample, are one in the model.

| Action | Code |
|---|---|
| `Turn`, `TestFlag`, `SaveSetpoint`, `Save` | `vStartPIDTask`: the input, then the settings of a block write, byte by byte |
| `Begin` | `pid_controller` sets the sample time in the settings |
| `Test`, `Integral`, `Output` | the rest of `pid_controller`; each reads the settings, and the sample time, as they are then |
| `BlockWrite` | `write_user_data_by_block`: the whole structure, sample time included |
| `Register`, `Store` | the `MODBUS_PID...` registers: RAM, then byte by byte the EEPROM |
| `Restart` | `pid_intial` |

Four steps of a computation are the points between which a client may write; within a step the
settings are read together, the copy of a block write is one step, and so are the reading and the
writing of one saved byte.  Products and sums are words of the processor and wrap (`Int32`);
divisions go towards zero, and one by zero gives 0, which is what the processor does unless told to
trap.

`AreaBounded`.  The integral is cut off only on the side where it was before the sum, so it may
pass the limit of the other side by a step: two errors with the sample time of the task, and up to
127 times that if a block write replaced the sample time in the middle (`stretched`); the next
sample cuts it off.  Unless stretched, its product with the reset is a word.  Both need errors that
are small enough, which `ErrorsFit` states: with the real numbers, 255 * 8388607 just fits 32 bits,
and so two errors must stay below 8421504, which holds for setpoint registers up to 42107 (inputs are
not negative in the model; of an input only its difference to the setpoint counts).  A
setpoint of 65535 gives a step of -13.1 million, and its product with a reset above 163 overflows
(section 12).

Not modelled: the CO2 loop, whose stored setpoint has another unit and whose errors are ten times
larger, `prop_high`, `repeats_per_min`.

**Run `pid_core`.**  Two inputs, 0 at the start, with setpoints below, between and above them; two
block writes (a manual output with the sample time 0; an automatic one with other action, reset and
rate and the sample time 7, three times as long a step); registers with the values 0 and 3 by two
clients; three events; words of
-90 .. 89, which the products just fit as `ErrorsFit` asks.  The integral saturates within three
samples.  `Kept` speaks of the fields outside `crossed`: what a register and the save, or two
registers, write together may end as a mixture, or as the older value in the EEPROM and the newer
in RAM, until one alone writes the field again.  `ManualHolds` has `overtaken`: a manual output
written during a computation is replaced by its result.

**Fairness.**  Weak fairness of the task and of each handler in progress.

**Proofs: `PidLoopProofs`**, for all gains, limits, sample times and settings.  `TypeCorrect` is inductive,
with lemmas on the division and on words; `AreaIsBounded`, under `ErrorsFit`, follows from the step
the errors and the sample time of that moment add.
`ManualIsHeld` needs that a computation in progress on a manual output was overtaken.
`SettingsAreKept`: `SavedInv` says of each stored field that it is as in RAM, or crossed, or will be
written by a handler in progress, or by the rest of the save.  `IntegralGivesWay` is the
step that the argument for `Unwinds` repeats: below the limit of the side of the errors the integral
does not move away from it, and with the sample time of the task it moves towards it in each sample; its share of
the output has its sign.  (A sample time of 0 or 1 written in the middle of a pass leaves the
integral where it is, for that sample.)  `Unwinds` itself is only model-checked.

## 12. What the code does against its own words

Shown by a run:

1. `port_store`: the panel name is stored from a buffer that is already being refilled
   (`modbus.c:5817`): the write is accepted and answered, its first byte stored, the next request
   fills the buffer during the wait for the EEPROM, and `panelname` gets a byte of that request.
2. `co2_shifted`: the queue of the CO2 receiver is no longer cleared, and after one
   lost byte no answer of an OGM200 need ever be accepted again (`sub_net.c:109`).

Met while modelling, within what the models allow or an exception of a property names:

* The size of a scan command, set at byte 4, is overwritten at byte 7 (`modbus.c:93`).
* A baud rate write re-initialises the port during its own reply, and the next reply begins in
  the middle of the send buffer (`modbus.c:55`).
* A byte count of 248 turns the receive timeout off (`modbus.c:99`).
* A lost update revives a timeout that was switched off (`main.c:176`).
* After its random delay a plug-and-play request may be replaced by one for another slave
  (`modbus.c:5750`).
* The sensor is counted once for each address the controller had while it was online
  (`modbus.c:506`).  If the address changes between the test of the bit and its update or the count
  (`co2.c:133`, `co2.c:144`), the count also differs from the bits that are set; at 0 it wraps to 255.
* Two register handlers, or one and the save of a block write, leave a mixture in the EEPROM, or one
  value there and another in RAM (`modbus.c:2413`, `pid.c:251`).
* A manual output ordered during a computation is replaced by its result (`pid.c:133`).
* The sample time of a controller may be replaced in the middle of a pass (`pid.c:70`): the step
  becomes up to 127 times as long, or 0, and the derivative may be divided by 0.  The product of the
  integral with the reset overflows then, and also when the setpoint register is above 42107.
* A manual alarm ordered over the network is lost when it arrives within a pass (`co2.c:495`).
* A manual state with bits 1 and 0 clear is described as stopping the beeper
  (`registerlist.h:461`); with another bit set it matches no case and leaves the beeper
  as it is (`co2.c:501`).
* A heater or calibration order is overwritten or cleared by another (`humidity.c:1125`), and an
  offset written by a register and by a calibration at once is stored as a mixture.
* A sensor taken off before its table is read stops the task, and all below its priority.
* The derivative is taken of an error that has already been cleared, against the formula in the
  comment (`pid.c:103`).
* The setpoint of the CO2 loop is stored divided by 1000 (`pid.c:254`) and loaded times 100
  (`pid.c:156`).

## 13. Not modelled

`io_control`, which moves calibration values to the EEPROM; the shared CRC and the contents of
the registers; the erasure of the point pages by a reset to factory settings; `tcp_server`,
`listen_port` and the MAC address; the BAC_MSTP branch of the USART handler; the filters, the
light sensor, and the table of points of a new humidity sensor; the offset and filter of the CO2
reading; the speed of a repeated key, drawing, and the other menus; the pressure and PM2.5
sensors, whose tasks are a frame parser and floating-point conversions; the analog outputs;
parsing and formatting in the TCP server and the UDP discovery; the mapping of BACnet objects; the
subnet scan, whose task `main.c:116` does not start.

Most of `src/` is not the program's own: RTOS, TCP/IP and BACnet stacks, FAT file system
with its code pages, USB, chip library, LCD fonts, SD card.  They are outside this project, and
they are the greater part of the lines of the repository.
