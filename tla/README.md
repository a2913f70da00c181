# A TLA+ model of the CONPROSYS LINUX-SDK drivers

These modules model the kernel drivers of the CONTEC CONPROSYS MCS341
controller (`src/cps-drivers`) as TLA+ specifications. TLC checks them on small
instances, and TLAPS proves many of their safety properties for all instances. The
source code is the reference. `PROJECT.json` maps every definition to the lines that
it models.

## 1. The system

The controller carries an FPGA, mapped at 0x08000000, and up to 40 stacked
devices that the FPGA numbers and shows as register windows of 0x100 bytes.
`cps-driver.c` owns the FPGA: it initialises the stack, watches it from a 20 ms
timer, and exports the register access that the device drivers use. A device
driver (`cpsaio`, `cpscnt`, `cpsdio`, `cpsssi`, `8250_cpscom`) initialises the
bus again when it is loaded, creates one node for each device of its kind, and
serves `open`, `ioctl`, `close` and one shared interrupt line. The processor has
one core.

Line numbers below are those of `src/cps-drivers/system/cps-driver.c` unless a
file is named.

| Component | Source | State it keeps | Operations | Interacts with |
|---|---|---|---|---|
| Stack bus | 1075–1421, 1857–2010, 3660–3790 | device count, mapped windows, shadow of the system-init and reset registers, recovery state and counters, button count, LED | initialise the stack, timer tick, bus reset, load, unload | FPGA by registers and the `FPGA_RESET` GPIO; called by every device driver that loads |
| Register access | 373–447, 2562–2732, `cps_common_io.h` | access lock, two GPIO pins for the byte lanes, selected page of a device | `inpb`, `outb`, `inpw`, `outw`, extension values | called by everything |
| Child unit programs | 748–818, 1433–1838, 2897–3108 | number and state of the unit, power, reset and modem bits of the shadow | init and exit of each unit, sysfs files that run them or set a pin | run by the load, the unload, the timer's restart and sysfs; share the shadow with the stack bus |
| Controller registers | 595–740, 2795–2890, 2950–3035, 3110–3655 | LED, DIO direction and filter, watchdog, interrupt groups | exported setters, `show` and `store` | share registers with the timer |
| Discovery | 2160–2350 | none | `IsCategory`, `FindCategory`, `FindDevice` | read the devices' windows |
| EEPROM | 2355–2732 | the ROM of a device | write command, logical id, extension values | sysfs, `cpsaio`, `cpsssi` |
| Device nodes | `open` and `close` of the device drivers | `notFirstOpenFlg`, `i_private`, `private_data`, `ref`, window, handler | first open, later opens, close, last close | processes, the interrupt line |
| Digital I/O | `dio/cpsdio.c` | nodes, interrupt mask, callback process | ioctls, handler | signals a process; shares the interrupt line with every device |
| Analog I/O | `aio/cpsaio.c` | command channel, settings kept twice, sampling state, calibration | ioctls, `read`, `write`, handler | EEPROM |
| Counter | `cnt/cpscnt.c` | a list of channel settings, which START and STOP write to the device | ioctls, start, stop | |
| Sensor input | `ssi/cpsssi.c` | wiring, offsets, last status | ioctls | EEPROM |
| I/O library | `io/cps-iolib.c` | mapping, reference count | load, open, close, raw register access | register access |
| Stand-alone I/O library | `src/cps-iolib` | the same, and a lock for each file | the same | excludes cps-driver |
| Serial ports | `com/8250_cpscom.c` | state of a port and its UART, interrupt chain, windows of the lines, two registers of a radio module | tty operations, handler, backup timer, detection, sysfs files | Linux serial core, the shared interrupt line |
| SPI digital I/O | `spi/dio/cpsdio_spi.c` | one mutex | ioctls | SPI bus |

What is hard in this code:

* A process may sleep in the middle of the bus initialisation and the timer may
  reset the bus under it. Both change the same shadows and count failures
  towards the same limit.
* The reset sequence is a state machine with counters spread over ticks, with
  the button's shutdown sequence, the failure limit and a re-initialisation
  that may itself fail.
* A byte access of the FPGA depends on two GPIO pins that every other access
  sees and that settle late; an extension access changes a page that every
  other access sees.
* The programs of the child units last for seconds, are run by four callers and
  overlap: nothing tells one of them that another is asleep in its middle.
* `open` and `close` share their data without a lock across calls that sleep,
  and the interrupt handler uses the same data.
* Registers shared by several bits' owners are read, changed and written
  without a lock; command sequences to the EEPROM and to the analog devices are
  locked one register at a time.

* Settings live in the driver, in a list entry that outlives the open, and in the
  device, and each operation brings another pair of them together.
* A serial port waits for an interrupt that its UART may not repeat, and reads a
  status that shows each error once.

`PROJECT.json` lists each of these hazards at its line, with the properties that
cover it, or the reason why none does.

What makes each component correct:

* Stack bus: the line follows the state machine, a reset is long enough, one
  failure causes one reset at most and none past the limit, the bus comes back
  or recovery is given up visibly, the devices are numbered with their
  interrupt off, and the child unit has its power.
* Child units: what is reported as on has its power and is started, what is
  reported as off has no power, and the shadow is the register but for the time
  in which interrupted changes of it overlap.
* Register access: every access is atomic on the byte lanes it names.
* Device nodes: one counted object per node, nothing freed is used, the last
  close gives everything back.
* Controller registers, EEPROM, radio module: no store is lost and no sequence of
  commands mixed, as far as the callers do not overlap, and nothing is left open.
* Digital I/O: an event reaches the process that asked for it, memory is there
  when the handler uses it, and one device does not cost the others their line.
* Analog I/O: what the driver answers is what the device is set to, data reaches
  the command it is meant for, loops end, and no value is read from an empty FIFO.
* Counter and sensor input: the device is as it was asked to be, through every
  order of settings, starts and opens; a correction is the right arithmetic.
* Serial ports: the interrupts that a port waits for are on, it does not stop with
  something to send, every line error is counted once, the chain holds the open
  ports, and a line has its window.
* I/O libraries: no access without a mapping.

## 2. Modules

| Module | Stands for | Uses |
|---|---|---|
| `BusRecovery` | abstract: what the timer promises about resets | |
| `StackBus` | bus initialisation, timer, button, LED, load and unload | refines `BusRecovery` |
| `StackBusProofs` | theorems about `StackBus` | |
| `AtomicRegisters` | abstract: atomic accesses of byte lanes and pages | |
| `FpgaAccess` | lock, GPIO pins, read-back, page selection | refines `AtomicRegisters` |
| `FpgaAccessProofs` | theorems about `FpgaAccess` | |
| `DeviceNode` | open, close, ioctl and interrupt handler of one node | |
| `DeviceNodeProofs` | theorems about `DeviceNode` and `DioInterrupt` | |
| `ChildUnit` | programs of the child units and the files that run them | |
| `ChildUnitProofs` | theorems about `ChildUnit` | |
| `ControllerRegisters` | LED and digital I/O registers, their files, the blinking timer | |
| `DeviceRom` | sequences of EEPROM commands, the verified reads and writes of two drivers | |
| `DioInterrupt` | the digital I/O driver from its load to the signal to a process | |
| `AioCommands` | command channel, data lock and settings of an analog device | |
| `AioSampling` | start, stop, status, FIFO, read, calibration | |
| `SensorInput` | the sensor driver, with its 24-bit arithmetic | |
| `AnalogProofs` | theorems about `AioCommands`, `AioSampling` and `SensorInput` | |
| `Counter` | the counter driver | |
| `IoLib` | both I/O libraries | |
| `RegisterProofs` | theorems about `Counter`, `ControllerRegisters`, `DeviceRom` and `IoLib` | |
| `SerialPort` | one port and its UART | |
| `SerialChain` | the ports behind one interrupt, their list and the handler's rounds | |
| `SerialLines` | which lines exist, detection, windows, load and removal | |
| `SubunitPower` | files of a serial board with a radio module | |
| `SerialProofs` | theorems about `SerialLines`, `SerialPort`, `SerialChain` and `SubunitPower` | |
| `DriversProofs` | theorems about the compositions `MCDeviceNodes` and `MCDrivers` | the other proofs |
| `MCStackBus`, `MCFpgaAccess`, `MCDeviceNode`, `MCChildUnit` | instances for TLC | one component each |
| `MCDeviceNodes`, `MCDrivers` | instances for TLC of several components | see section 3 |

Operators named in a comment "Wrong: ..." are the definitions after them with a
plausible mistake. No action of a specification uses them: each shows that some
property would notice that mistake.

### StackBus

The variables keep the names of the code: `deviceNumber`, `systeminit_reg` (the
set of bits that are 1), `failed_count`, `bus_state` and `bus_count`
(`bus_reseting_state`, `bus_reseting_count`), `keepcheck_count`, `reset_count`,
`shutdown_sequence`. `mapped` is the set of slots with a window, `led` the entry
of the ERR LED. The FPGA is `line`, `status`, `hw_init`, `hw_count`, `numbered`
and `hw_ok`; it is not under `src`, and its actions (`HwNumber`, `HwInterrupt`,
`HwFault`, `HwRepair`) follow from how the driver waits for it.

Three kinds of actors run the initialisation
(`_contec_mcs341_controller_cpsDevicesInit`): the load of the module, each
device driver that is loaded, and the timer. `pc` tells each one's place; there
is one action for each stretch between two sleeps (`ReadStatus`, `SetReset`,
`Poll`, `PollTimeout`, `ReadCount`, `MapDevices`, `SetInterruptLine`,
`CheckAlive`, ...). While the timer runs nobody else does (`Running`), because a
softirq is not preempted by a process on one core; the FPGA goes on.

A tick is one action that performs the LED, button and recovery parts of the
handler in their order: `ButtonDown`, `TickIdle` (recovery off), `TickGivenUp`,
`TickLower`, `TickWait`, `TickRaise`, `TickSkip`, `TickAlive`, `TickDead`, or
`TickRestart`, which starts an initialisation that `RestartEnds` finishes.

Two outcomes are nondeterministic because the code leaves them open: a device
slot that has no window is compared with an uninitialised byte (line 2303), and
the device counter of a bus that is not steady may read anything in `Counts`.

`low_ticks` and `resets` are history variables. `MaxFaults` bounds the faults of
a behaviour and `MaxFailures` the calls of drivers after failures.

### FpgaAccess

Each context that accesses registers is a user. An access is a short program
(`Program`): a byte access sets a mode, touches the data and restores the word
mode; an access of an extension page selects the page, touches the data and
restores the common page. Each step sets the two outputs one at a time
(`SetLow`, `SetHigh`), reads the pins back (`Check`) until they agree, and
panics after `PanicLimit` times (`Panic`). `Settle` lets an output reach its pin
at any time. A lane that is not enabled reads as anything; a lane that is
enabled by mistake is overwritten with anything.

### DeviceNode

`open` is cut at the calls that may sleep: the allocation, the claim and the
mapping of the window, the product lookup, `request_irq`, and the last stretch
(`Finish`) that sets `ref` and `notFirstOpenFlg`. Each of them may fail, and the
error labels of the code follow (`Unmap`, `Undo`). The last close is cut at
`free_irq`, the release of the window and `kfree`. `Ioctl` and `Isr` are the
uses of the device data and of its registers. `faulted` is set when freed data
or an unmapped window is used; the system stops there. `raced` is a history
variable: two processes met in the first open of the node, or one opened it
before the module's init had ended.

`cpsaio_open` reads registers between its look at `i_private` and its look at
`ref`, which `cpsdio_open` does not; the model is that of `cpsdio.c`.

### ChildUnit

`systeminit_reg` and `hw_init` are the bits POWER, RESET, 3G3 (PWR_ON of a
modem) and 3G4 (its LDO) of the shadow and of the register; the bits of the bus
are `StackBus`'s. A program (`InitProgram`, `ExitProgram`) is a list of
stretches: what is set and cleared between two sleeps, and whether the register
is written. `job` and `step` say which program each actor is in. An actor is a
process at a sysfs file, the load and unload of the module, or the timer, whose
program runs to its end before anything else does (`Running`).

A stretch may be one step (`Perform`), but need not be: the code loads the
shadow, stores it with other bits and writes it to the register, and only the
write takes a lock, after `setSystemInit` (560) loaded the shadow again. So an
actor may be interrupted with the shadow loaded (`LoadWord`) or stored
(`StoreWord`), `stage` and `word` say where and with which value, and when it goes
on it stores what it loaded, or writes what it stored or finds there (`WriteWord`):
the timer may have cleared the shadow meanwhile (1966), or another file have
changed it. Several changes without a sleep between them are one change. The timer
itself is interrupted by nobody.

`Begin` runs the first stretch in the step that decides on the program, since
the code does not sleep between them; `Advance` runs a later one or goes on with
an interrupted one, and with the last one sets `child_unit_enable` and
`child_unit` (`Result`). `GiveUp` is the
early return in the program of an EC25 whose unit is on already. `BusReset`,
`Restart` and `RestartFails` stand for what the stack bus does to the same
register; the restart clears the shadow and starts the program.

Nothing in the code keeps two programs apart. `mixed` is a history variable: two
programs overlapped, one was interrupted (where nobody acts during an interruption
it might as well not have been), or a pin, the parameter or the number was changed
under a unit with power. What is said of the unit itself holds as long as nothing
was mixed.

That the shadow is the register is false of this code once changes meet. If the
timer restarts the bus while a process is between its store and its write, the
process writes a stale word over what the timer's programs wrote. `torn`, another
history variable, is true from such a meeting on, until the next change during
which nobody else has stored without writing. `ShadowWritten` says that the two
agree whenever `torn` is false, nobody is between store and write and no exit of
unit 40 sleeps there (1791-1793), with any overlap of the programs in their other
sleeps: the harm of a race is limited, by every change writing all of the shadow. The modem (`ModemAfter`) is external:
it follows from the comments at 1510–1531 and 1738–1745. `powered_by` is the
unit whose program switched POWER on.

### ControllerRegisters

`ctlRegister` is the bits of the LED register and of the digital I/O register. A
store is cut where the timer or another store can come between: the check of the
LED (`LedStore`, `LedSet`), the read of the register (`ReadRegister`) and the
write of the whole word (`WriteRegister`). The timer's blinking is one step: it
is a softirq. `ctlRaced` holds the parts whose store met another one of the same
register; for all others `PartsAsAsked` says that the register is as asked.

### DeviceRom

`romCall` says which program of commands each caller is in and how far
(`Program`); each command sleeps, so any two programs mix at every step.
`romRegister` is the value register, `romCell` the EEPROM, `romOpen` and
`romAddress` what the commands before have prepared. A verified write compares
and tries again. What the device does with a command is external, and follows
from the order in which the driver gives them. `romMixed` are the callers that
overlapped another.

### DioInterrupt

`DeviceNode` has the steps of open and close; here they are whole calls, and the
subject is what they and the ioctls leave for the handler: `dioDev` (the count and
the callback process of each node), `dioMask` and `dioStatus` (registers of the
devices), `dioFlags` (the length of `notFirstOpenFlg`). `Dispatch` runs all
handlers of the line: each reads, and by that acknowledges, its status
(`Handled`), and signals (`Signalled`). When no handler answers for
`UnhandledLimit` dispatches in a row, Linux switches the line off (`lineOff`).
`taskHeld` are the tasks that the driver keeps a reference on and never drops.

### AioCommands and AioSampling

`AioCommands`: a command is selected (`cmdSelected`), then its data is written
between an unlock and a lock (`cmdUnlocked`). What is done with `dev->lock` held
is one step; START, INIT and the EEPROM ioctls hold none and are cut between their
accesses. `aioClock` and `aioDevClock` stand for each setting that the driver and
the device both keep. `cmdAlone` says that since the first open no second process
and no interrupt came; only then does data always reach its command.

`AioSampling`: `smpGate`, `smpFifo` and `smpFlags` are the device, which samples,
overflows and stops by itself. `StopLoop` is the loop of `cpsaio_get_status`: it
runs with the interrupts off, so nobody but the device goes on (`SmpRuns`). `read`
polls, looks at the FIFO and takes a value in separate steps; `smpTorn` says that
somebody else emptied it in between. `smpCnt` is the 16-bit `cnt`, which wraps
at `CountSpan`.

### Counter and SensorInput

Every ioctl is one step, under `dev->lock`. In `Counter`, `cntData` is the list
entry, `cntDevice` the registers; the settings that only wait in the list for
START are `cntPending` and `cntPulse`. In `SensorInput`, `ssiWire` is
`ChannelData`, which lives from the first open to the last close, `ssiOffset` the
corrections, which live as long as the module, and `ssiDevWire` the device.
`AddSub` is the code's arithmetic on 24 bits; `ReadCorrected` compares it with the
definition, adding 32 times a signed byte modulo 2^24.

### IoLib

One module for both libraries (`ioKind`). The load is cut at each call that can
fail (`LoadNode`, `LoadClass`, ...); the node can be opened from the first one on,
steps before the registers are mapped. "gone" is a failed load that leaves open
files or the node behind; what they do then is not modelled. An address is the area
of 0x100 bytes it lies in (`IoAddresses`); `ioDevs` is the count of the devices that
the load of the library inside cps-drivers reads and that bounds its addresses
(`IoNumbers`, which need not fit the mapping), and `DriverAreas` and `AloneAreas` are
what the two libraries map. `ioWild` collects the open files that used
`map_baseaddr` while it was not mapped, `ioPast` those that went past its end.

### SerialPort, SerialChain, SerialLines, SubunitPower

`SerialPort`: `uartIer`, `uartBugs` and the rest of the port beside the UART's own
`chipIer`, `chipThr` (the transmitter), `chipThre` (its interrupt) and `chipRx`.
The interrupt of an empty transmitter may be raised again when it is enabled, or
not (`chipReasserts`, chosen at the start): startup tests for that and starts the
backup timer. What runs under `port.lock` is one step, but the receive loop takes
one for each character (`ReceiveNext`), in between which the UART goes on.

`SerialChain`: linking is cut between the mutex of the hash table and the lock of
the list, and around `request_irq`; the handler's walk (`walk`) goes round the
list until every port was found idle. `chainRace` is the gap between the mutex
and the lock in which the last port may give up the `irq_info` that another one
has just found.

`SerialLines`: `ConfigPorts` is the detection of a set of lines, `comHeld` the
windows, `comType` the lines whose chip is known. `comStale` are known lines whose
window could not be mapped again, which the driver keeps as known.

`SubunitPower`: an index register and a data register, written without a lock from
variables that are changed without one; `subMixed` are the registers whose last
writes overlapped.

## 3. Runs

| Run | Question | Instance |
|---|---|---|
| `timer` | Does the timer alone bring the bus back, with a full reset, the child unit on and the interrupt off while the devices are numbered? `ResetLineInv`, `ChildUnitOn`, `InterruptOffWhileNumbering`, `FullResetPulse`, `Recovers`, `ResetEnds` | 2 slots; the device counter reads 1, 3 (too many) or none; 2 ticks a second; limit of 1 failure; 1 fault; windows may fail to map; the button may be pushed |
| `callers` | Does it keep the promise while a driver loads at any moment? `ImplementsRecovery`, `ResetsAnswerFailures` | 1 driver, 1 device, limit of 2 failures, 1 fault |
| `busreset` | How far do the failures go when processes reset the bus themselves? `FailuresBounded` | `DriverResetHardware` = 2, 1 driver |
| `fpga` | Is every access atomic, and does it return? `ImplementsRegisters`, `Returns` | 2 users, 1 register of two lanes in 2 pages, 7 requests, panic after 2 |
| `childunit` | Is a unit in the state that its file shows? `EnabledReady`, `DisabledOff`, `ShadowWritten`, `NoWildWrite` | all kinds of units and a number no unit has, 1 sysfs process, 1 reset of the FPGA, 1 interruption, after which the units NONE, 40 and A0 are followed |
| `node` | Are the device drivers safe to share, true to their settings, and do their interrupts and loops come to an end? `NodesTypeOK`; node: `NoFault`, `NothingLeft`, `OneWindow`; digital I/O: `MemoryReached`, `LineKept`, `EventTold`, `EventServed`; analog I/O: `SettingReported`, `WritesLand`, `FifoChecked`, `LoopsEnd`; sensor input: `ReadCorrected` | node: 3 processes, 3 objects; digital I/O: 2 slots, 2 processes, line off after 2; analog I/O: 2 processes, 2 EEPROM attempts, a FIFO of 1, `cnt` of 3 values, 1 poll; sensor input: 2 processes, 1 channel, offsets 1, 127, 128, 255, temperatures 0, 4063, 2^24 - 1 |
| `drivers` | Do shared registers, command sequences, counters, libraries and serial ports keep what they were asked for? `DriversTypeOK`, `PartsAsAsked`, `RomKept`, `CountsAsAsked`, `RegistersMapped`, `UartArmed`, `ErrorsCounted`, `NotIdle`, `PortsHeard`, `LineReleased`, `WindowOfKnown`, `SubunitAsAsked` | 2 processes at the files, 2 LEDs, 2 direction bits and a filter; 2 EEPROM callers, 2 values, 2 attempts of 1 read; a UART that takes 1 character, 2 to send, a receive FIFO of 2, 1 line error; 3 ports, 2 `irq_info`, 1 round; 1 board with 1 light; 1 process with 2 counter channels; 3 library files, mappings of 3 and of 2 areas, addresses in 4 areas, 0 to 3 devices; 3 serial lines |
| `lvds`, `button`, `reboot`, `node_racing`, `modem` | Statements of comments, of a parameter's description, of the Readme and of a note that the code does not keep | see below |

`node` and `drivers` instantiate several components. A behaviour is one of the
component (`driver` in `MCDeviceNodes`, `which` in `MCDrivers`); the others stay where they began. These components share no
variable and no state that their properties speak of (a device has one kind; what
they do share, the bus and the register access, is `StackBus` and `FpgaAccess`,
which promise them numbered devices and atomic accesses), so the state graph is
the union of theirs, and every property is checked on its component's own
behaviours. Fairness is each component's own.

Why the bounds are enough. The timer's counters only compare with multiples of
`Hz`, so two ticks a second give each wait more than one tick and distinguish
"one too few" from "one too many". Two slots tell "all mapped", "one failed" and
"too many devices" apart. One fault can strike at any point, with any wrong
value of the counter, and the uninitialised byte gives further failures without
a fault, so the limit of failures is passed in these runs. One driver that may
load again and again, with the timer and the module's own load, gives every pair
of actors in the initialisation. Two users give every pair in the register
access, and 7 requests include every kind, lane and page. Three processes give a
race in the first open with a bystander; three objects let each hold its own.
In `ChildUnit` one sysfs process, the unload and the timer give every pair of
programs an overlap, and a program that follows another one at any distance. One
interruption (`MaxCuts`) leaves one stale word, which any number of later programs
may meet; `CutBound` (a CONSTRAINT) follows such behaviours while the unit is NONE,
40, whose program has that of 00 in it, or A0. `ShadowCorrect` has no such bounds.

In the other components, two processes (or two programs, two files) give every
pair of overlapping calls, and calls may follow each other without end: nothing
counts them. Two slots of `DioInterrupt` give a device of another kind before and
after one of this kind, two nodes that share the line, and two that are active at
once; two dispatches tell "in a row" from "in all". In `AioSampling` a FIFO of one
value is empty, full and overrun; three values of `cnt` give a read that ends, one
that goes on and one whose count wraps to 0; one poll more than `PollLimit` ends a
wait. The offsets of `SensorInput` are the least and the largest of each sign and
the temperatures make the sum wrap on both sides; the arithmetic looks at nothing
else. In `SerialPort` two characters to send need the interrupt a second time
when one is loaded at once; a receive FIFO of two and a pass of one after the
first reach the limit of a pass; one error can be with any character and be read
by any reader. Three ports of `SerialChain` give a list with a middle, and a port
that joins while another leaves; the second `irq_info` lets a device get a new one
while the old one is in use. Three lines give a board with both channels and one
with one. In `IoLib` the counts leave an area of the mapping unused (0 and 1),
reach its end (2) and pass it (3). With two attempts a verified write fails once and for good.

The bounds named in the modules and not in the code are `MaxFaults`,
`MaxFailures`, `MaxResets`, `XmitMax`, `RxFifo`, `RxErrors` and `UnhandledLimit`.
The proofs cover every value of the constants of the modules they are about.

`CHECK_DEADLOCK FALSE` is set where the system stops: after the module is
removed or the board reset (`pout`), after a panic, after a fault of `DeviceNode`
or `ChildUnit`. `node` and `drivers` check for deadlock; there the two ends (a
process that faulted, a load that left something behind) stutter explicitly. No
run uses symmetry.

### Statements the code does not keep

* `lvds`: the first tick with the button down is commented "LVDS OFF"; the mask
  at line 1885 keeps the LVDS bit and clears the others.
* `button`: the description of `push_reset_button_shutdown_enable` says it is
  for the check mode only; the code shuts down only outside of it (lines
  1880–1910).
* `reboot`: the Readme says that a controller that is not repaired is rebooted;
  the timer makes the ERR LED blink and stops recovering (line 1995).
* `node_racing`: the note of `cpsdio_open` gives a node one `i_private`. Of two
  processes in the first open, the one that fails clears the `i_private` of the
  other (`dio/cpsdio.c:979`).
* `modem`: the comment at line 1530 promises the devices of an EC25 seconds after
  its program. A restart of the bus takes the power away and runs the program
  again, but `child_unit_enable` is still 1, so the check at line 1513 ends it
  before the modem is started.

Four more have no run, because nothing of what they state changes in time:

* `FindDevice` and `FindCategory` are said to return 0 when they find nothing; the
  loop then ends with a count that the test after it takes for found (line 2183).
* The Readme says that `cps-iolib` resets the controller when it reads abnormal
  data; the check comes before the address of the request is known
  (`cps-iolib.c:129`).
* `write` of an analog output is said to return the size; it copies to the user
  instead of from the user, and fails (`aio/cpsaio.c:2601`).
* The serial driver passes the arguments of `setInterrupt` the wrong way round
  (`com/8250_cpscom.c:2816`, and line 1171).

### What else the models make visible

None of these contradicts a text of the repository; each is a behaviour of the
models, and the property beside it says what holds all the same.

* `dio/cpsdio.c:1009`: the last close leaves the interrupt of the device enabled.
  An event then keeps the shared line active with no handler to answer, and Linux
  switches it off for every device. `LineKept`: nothing else does.
* `dio/cpsdio.c:899`: `notFirstOpenFlg` has one entry for each device of the kind,
  and its index is the slot. `MemoryReached`: it is within bounds when no device of
  another kind sits in a lower slot.
* `aio/cpsaio.c`: SETCHANNEL_AO, SET_SAMPNUM_AO and DIRECT_COMMAND_OUTPUT change
  the device and not the copy that the getters answer from; START's data may go to
  another command when an interrupt comes in between. `SettingReported` and
  `WritesLand` say when both are right.
* `cnt/cpscnt.c:463, 987`: the selection of the common input is kept for one channel
  only, and START reads it back from the device instead of writing it: it never
  takes effect. `CountsAsAsked` is about the rest of a channel.
* `io/cps-iolib.c:249, 351`: a file that is opened while the library loads finds no
  mapping; files after the first get no `private_data`, in which the ioctls look for
  their lock. A load that fails may leave the class or the node behind.
  `RegistersMapped`: only those early files use a base that is not mapped.
* `io/cps-iolib.c:82, 351`: an address is bounded by the number of devices that the
  controller reported (0 to 63, line 305), and the mapping has `CPS_DEVICE_MAX_NUM`
  = 40 areas. A count of 40 or more lets any file go past its end, and with 39 a
  word that begins at the last byte does. `RegistersMapped`: with a smaller count
  none does. (The kernel maps whole pages; the models go by the size the code asks
  for.)
* `cps-iolib/cps-iolib.c:173, 192, 206, 228, 395`: the library that stands alone
  bounds no address, so any file can go past the end of the 0x2100 bytes it maps, at
  any time. `RegistersMapped` says of it only that the base is mapped.
* `com/8250_cpscom.c:1894`: a port may join an `irq_info` that the last other port
  is giving up. `PortsHeard`: without that gap the chain is right.
* `com/8250_cpscom.c:2936`: a known line whose window cannot be mapped again
  stays known, and a load that fails late leaves the lines registered.
* Line 3742: the timer starts before the lock that its accesses take is
  initialised, and stays on when `platform_driver_register` fails.

## 4. Fairness

* Timer: the handler re-arms itself (`mod_timer`) and a softirq runs to its end,
  so ticks and the initialisation inside a tick are weakly fair. `TickDead` is
  strongly fair: the byte that line 2303 compares for an unmapped slot is not
  initialised, and a run in which it happens to look right for ever is left out.
* Processes: a process asleep inside the initialisation wakes up. Nothing makes
  a driver load or unload.
* FPGA: it answers when it is asked to number the devices or to enable the
  interrupts, and a broken bus is repaired. Faults may come again up to
  `MaxFaults`; `Recovers` is about what happens after the last one.
* Register access: a pin settles, the holder of the lock runs on because
  interrupts are off, and a waiting user gets the lock when it is free again and
  again.

* Digital I/O: an active line is dispatched (`Dispatch`), as long as Linux has not
  switched it off. No process is made to do anything.
* Analog I/O: a device that was told to stop does so; the stop loop, which runs with
  the interrupts off, goes on; a reader that polls gets the processor again and
  again (strong: another process in the stop loop keeps it away for a while). The
  device need not sample and no process need come back.
* Serial port: a character shifts out and the transmitter becomes idle, an interrupt
  that is up is handled, the receive loop goes on, and the backup timer, which
  re-arms itself, comes again. Nobody has to send, to receive or to close.

`DeviceNode` and `ChildUnit` state no liveness: every step of an open or a close
can fail or end, every program ends with its last sleep, and nothing waits. The
remaining components are about what is kept, not about what must come.

## 5. What is proved

TLAPS proves these theorems for all values of the constants allowed by the
assumptions in the modules.

**StackBusProofs.** `TypeCorrect`: the type invariant, with the bounds of the
counters. `RecoveryInvariant`: `RecoveryInv` is inductive when
`DriverResetHardware` # 2. It relates the state of the reset sequence to the
line, to `bus_count`, to the ticks since the line went low, and to the places of
the actors: the reset line alone is not inductive, since only the state knows
whether the timer will raise it, and only `bus_state = 0` lets a tick enter an
initialisation. `ResetsBounded`, `ResetLineFollowsState` and `FullPulse` follow
from it, and `RecoveryRefines`: `StackBus` implements `BusRecovery`, with one
lemma for each action that says which abstract step or stutter it is.
`FailuresAreBounded`: the bound itself is not inductive; `FailuresInv` adds that
nobody runs after the failure that reboots the controller and that the timer looks
at the bus only below the limit, so that of the failures past it one is the timer's
and one a loading driver's. `InterruptIsOff` (by `OffInv`) and `ChildUnitIsOn` (by
`ShadowInv`) need to know what the shadow, `systeminit_reg`, has in common with the
register: they agree once the devices are numbered or being numbered (`AgreeInv`),
a reset that the timer began ends with an FPGA that still waits for the timer
(`WaitInv`), and then the child unit's program has run on that shadow (`ChildInv`).
`SoloInv`, that one initialisation runs at a time, carries them.

These two theorems have hypotheses, and TLC finds a counterexample without each:

* `Callers = {}`, no driver loads beside the module. A driver past the numbering
  when the timer lowers the line goes on with a shadow that the timer cleared (line
  1966): it writes `SETINTERRUPT` while the FPGA numbers, and its last writes leave
  the child unit without its bits.
* `DriverResetHardware # 2`. The reset of a load that failed keeps `SETINTERRUPT` in
  the shadow (lines 1327, 1399), and the next `SETRESET` writes both.
* `FpgaVer > 1`, for the interrupt only. An unload in `bus_state` 4 writes a shadow
  that has `SETINTERRUPT`; the timer clears it on a new FPGA only (line 1926).

The run `timer` checks both on an instance that meets the hypotheses.

**FpgaAccessProofs.** `TypeCorrect`; `AccessInvariant`: `AccessInv`, one
conjunct for each user, says that only the holder of the lock is inside an
access, which outputs are set at each place, that the pins agree when data is
touched, and which page is selected. `AccessIsAtomic`: under it each `Read` and
`Write` is the atomic one, and every other action stutters.

**DeviceNodeProofs.** `NodeInvariant`: while no two processes meet in the first
open, the node is idle and empty, or in use by files that share one object whose
`ref` is their number, or one process alone is opening or closing it. The last
case is what makes the invariant inductive: a process that meets another one in
`open` finds `ref` = 0 and is refused. Counting needs the finite set of files.
`SharedObjectAlways`, `NoFaultEver` and `NothingLeftBehind` follow.
`OneWindowAlways` holds with races too; its invariant `WindowInv` says that a
process about to map the window is alone there and finds it claimed and unmapped.
Of `DioInterrupt`: `MemoryReachedAlways`, for any number of slots and
processes, by `DioInv`: the tasks that a node names are held even while they run
(`HeldInv`); a node has data exactly while it is open and counts its files, which
needs the finite set of tasks (`RefInv`); and open files are of nodes that the
module made, whose number is the length of the flags (`LoadInv`) - a node that
stayed open across an unload would break the last part. For the bounds of the
flags a finite set of slots below a slot is counted. `LineKeptAlways` and
`EventToldAlways` are about single steps: their proofs go through the actions.

**ChildUnitProofs.** `TypeCorrect`: also, the step of an actor is one of its
program. `ShadowCorrect`: `ShadowWritten`, with overlaps and interruptions. Its
invariant `ShadowInv` adds that, while `torn` is false, one actor at most has stored
without writing, and the shadow still is what it will write; so its write brings the
two together, as does every stretch that is not interrupted, but the first one of
unit 40's exit. `InvCorrect`:
`UnitInv` is inductive. While nothing is mixed it relates an idle unit to its
bits (`Rest`), and for the program that runs it says which bits its earlier
stretches have left (`Progress`): that a unit on its way is half powered is what
`EnabledReady` cannot know. It is proved one program at a time (`InitEffect`,
`ResetEffect`, `ExitEffect`, `PinEffect`) and then one action at a time.
`EnabledCorrect`, `DisabledCorrect` and `NoWildWriteCorrect` follow.

**AnalogProofs.** `SettingReportedAlways` and `WritesLandAlways`, by `CmdInv`:
that data lands needs what a process that is alone has prepared at each of its
steps (`Prepared`), and that nobody else has the node open (`OneAlone`); that
nothing stays unlocked needs the step that its owner is at (`OpenOwned`).
`FifoCheckedAlways`: `FifoChecked` with the places of the processes is inductive,
because whoever takes or empties marks every reader that has looked and not taken.
`ReadCorrectedAlways`, by `SsiInv`: `WireInv` says that a known channel has in the
device the wiring of the list, whoever opened in between, and `AddSubIsSigned` that
the two branches of the code are one addition of a signed byte, modulo 2^24.

**RegisterProofs.** `CountsAsAskedAlways`, by `CntInv`: the list entry, from which
START and STOP write, agrees with what was asked as the device does.
`PartsAsAskedAlways`, by `CtlInv`: two stores between their reads and writes of one
register have met (`MetInv`), and what a store holds for a part that nobody else
works on is what was asked of it (`StoreInv`) - the register alone cannot tell what
a word that was read and not yet written will do to it. `RomKeptAlways`, by
`RomInv`: `CommandPlaces` says which command is the i-th of each call's program, for
every number of reads; `ServedInv` what a call that met nobody has reached at that
step; `OpenInv` that whoever opened the EEPROM still has before it the command that
closes it. `RegistersMappedAlways`, by `LateInv`: a library that is loaded is mapped,
a file that was not opened early keeps it loaded, and the count of the devices, which
a load reads when no file is open, stays while one is - so an address that passed
its check is inside the mapping. For any addresses, counts and sizes of the mappings.

**SerialProofs.** `WindowFollowsChip`, for any set of lines, by `ComInv`: what each
stage of the load has done (`StageInv`), and that an open line is known
(`WindowsHeld`). `UartArmedAlways`, for every size of FIFO, buffer and limit.
`ErrorsCountedAlways`, by `RxInv`: every error that was raised was counted, or is in
the FIFO, in the saved status, or in the pass of the handler, each in one of these
places; `BadArrives` and `BadRead` count the errors of a FIFO as it grows and
shrinks. `PortsHeardAlways` and `LineReleasedAlways`, by `ChainInv`: the list holds
each port once, and exactly those between their link and their unlink (`JoinedInv`);
a list with a port has its interrupt, or someone who is about to register it, or is
about to be given up (`HeardInv`); an irq_info that nobody has is freed (`FoundInv`).
These hold while no port met one that was given up; the walk of the handler
(`WalkInv`) always: the ports it found idle are those from its end round to where it
is. `SubunitAsAskedAlways`, by `SubInv`: a write that is alone has selected its
register and has set its variable when it reaches the data.

**Types.** Every component has its type invariant as a theorem. Most of them hold a
bound that no single assignment shows, and some need more than themselves:

* `LibraryTyped`: `ref_count` is never ahead of the open files (`LibraryRefs`), so it
  stays in its range also when the load zeroes it under open files and a close then
  finds it at zero. Counting needs the finite set of files (`IoAssumption`).
* `PortTyped`: that no more errors are counted than were raised needs `RxInv`, whose
  balance (`Balance`) is an inequality after a pass that dropped a status and an
  equation before; `SendInv` and `FifoInv` bound the buffer, the FIFO and the pass.
* `DioTyped`: the `ref` of a node is at least one and at most the number of
  processes, by counting its files (`RefInv`); a line that was dispatched in vain as
  often as Linux allows is off (`LineInv`), so its count stops there.
* `RomTyped`: a call is at a command of its own program, by `ProgramCommands`, and a
  verified write has an attempt left (`TriesInv`).
* `RegistersTyped`: a blink counter stops at `LedTicks` (`CountsInv`), and a store
  holds a part and a word of its own register (`BusyInv`).
* `NodeTyped`: `ref` of a device node is never more than the files there are, after
  races too, by the object that each process holds (`NodeTypeInv`).
* `CommandsTyped`, `SamplingTyped`, `SensorTyped`, `CountersTyped`, `ChainTyped`,
  `SubunitTyped`, `LinesTyped`, and `TypeCorrect` of StackBus, FpgaAccess and
  ChildUnit: attempts, polls and counts end at their limits, and a corrected
  temperature has 24 bits.

`RecoveryInv`, `AccessInv`, `NodeInv`, `SharedObject` and `UnitInv` are theorems
too; they are the inductive invariants or parts of them, and no run checks them
again.

**DriversProofs.** A step of a composition is a step of one component and a stutter
of the others (`NodesParts`, `DriversParts`), so each component's specification holds
in the whole and its theorems carry over. `NodesSafe` and `DriversSafe` collect them:
every invariant and action property of the runs `node` and `drivers`, the type
invariants `NodesTypeOK` and `DriversTypeOK` first, for any sizes. The components'
specifications without fairness (`DioSpec`, `SmpSpec`, `SerialSpec`) are enough for
that.

**What liveness rests on.** Liveness under fairness is out of the prover's reach: it
needs ENABLED. `Recovers`, `ResetEnds`, `Returns`, `EventServed`, `LoopsEnd` and
`NotIdle` are checked by TLC only. Part of what they rest on is safety, and is
proved: that every step of the one who waits brings it nearer, that nobody else takes
it back, and that what wakes it is never lost. What remains to the fairness of section
4 is that those steps come.

* `RecoveryTakes` (`ResetEnds`, `Recovers`): a recovery that began ends after exactly
  the ticks of its pulse and its waits; each tick of the timer takes one off and
  nothing else does, unless the timer gives the bus up.
* `AccessBounded` (`Returns`): each step of the holder of the lock brings it nearer to
  its release, by the loops of read-backs it has left and by its place in the current
  one, or panics.
* `LoopsBounded` (`LoopsEnd`): `ReadLeft`, the steps a read has left, is lowered by each
  of its own steps and changed by no other. It needs `ReadIsShort`: a read of less than
  65536 bytes wants another value as long as it goes on; for a longer one `cnt` wraps
  and the statement is false. In the stop loop nobody else runs, and the device only
  comes nearer to its stop.
* `WakeUpKept` (`NotIdle`): an idle transmitter with something to send has its interrupt
  enabled and up, or the backup timer. `WakeInv` says when the interrupt can be relied
  on: the first startup finds out whether a UART repeats it (`TimerInv`); without the
  timer `up->ier` and the register agree about it, and enabled it is up whenever a
  character fits (`ThriInv`) - true also while there is nothing to send, since a writer
  that finds it enabled does not enable it again; and `up->ier` names it while there is
  something to send (`AskedInv`). With the timer the register may keep an interrupt that
  `up->ier` no longer names. Whoever is answered, sends (`WakeActs`).

## 6. Not modelled

* Discovery (`IsCategory`, `FindCategory`, `FindDevice`): searches over registers
  that do not change after the initialisation, without a state of their own.
* Controller registers: watchdog, interrupt groups and GPIO files, each a single
  write of a register that nobody else writes.
* Analog I/O: the tables of products and single outputs.
* Serial ports: baud rate and frame format of `set_termios`, console, DMA, suspend
  and resume. The copy of Linux's own 8250 driver is not built.
* SPI digital I/O: each ioctl is one transfer under one mutex; what the device does
  with it is not in the repository.
* A second set of the same steps: the opens of `cpsaio`, `cpscnt` and `cpsssi`
  repeat those of `cpsdio`, which `DeviceNode` models. `cpsaio_open` reads registers
  between its look at `i_private` and its look at `ref`; that window is in the list
  of hazards without a property.
* `cpsssi.c`: its handler, which Linux never calls (`request_irq` is commented out
  at line 1437). `8250_cpscom.c:1521-1524`: what LSR held is not saved where a
  change of the modem's lines starts the transmission, as it is elsewhere; the
  count of errors is the same. In `ChildUnit` a driver that loads resets the bus
  (`BusReset`) but does not initialise it again; `StackBus` has that.
* The pin modes that the child units' programs set, the text of sysfs files and
  messages, version attributes, ioctls that copy one value in or out, doxygen and
  build files. The memory ordering of the processor and the kernel's own services
  are taken as documented.

## 7. What is left to do

* The composition of `ChildUnit` and `StackBus`, which share one shadow: `ChildUnit`
  leaves the bus's bits out. It would also tell which part of `ChildUnitOn` survives
  a driver that loads.
* An abstract specification of independent bits, which `ControllerRegisters`
  implements while its stores do not meet, and one of a word that is read and
  written whole, for `DeviceRom`.
* `cpsaio_open`'s own window in `DeviceNode`, and the window between `device_create`
  and the allocation of the flags in `DioInterrupt`.
