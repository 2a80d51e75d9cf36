# Verification of the USB AD4351 RF generator

TLA+ models of the signal generator of this repository: the firmware of the
PIC16F1459 board (`src/Firmware_source`), and the programs on the host that
drive it (`src/QT_PC_Application`, `src/PythonApplication`).  The models are
checked by TLC on small instances, and most of their safety properties are
proved with TLAPS for every value of the constants.

Modelled are the firmware's command loop with its endpoint, its control
transfers, the desktop application's link to the devices, its window with the
packing of macros, the calculation of the synthesiser's registers, the command
line program, and the three back ends of HIDAPI.  Sections 5 and 6 say what is
left out and what could follow.

## 1. The system

A host program sends 64-byte HID reports to endpoint 1 of the board.  The first
byte is a command: set the synthesiser's six registers, switch the RF output,
read the registers, the RF state or the version.  The firmware carries it out
and, for the reads, sends a 64-byte report back.

| Part | State it keeps | Operations | Talks to |
|---|---|---|---|
| Command loop, `app_device_custom_hid.c`, `ad4351.c`, `main.c` | two 64-byte buffers, two transfer handles, the register copy, the RF pin | poll, handle a command, re-arm | the device stack (shared descriptors), the synthesiser |
| Device stack, endpoint 1, `usb_device.c` | device state, suspend bit, UEP1, the buffer descriptor table, the ping-pong pointers | `USBDeviceTasks` (interrupt): reset, suspend, wake-up, requests; `USBTransferOnePacket` (main loop) | the SIE (USB hardware), the command loop |
| Device stack, endpoint 0, `usb_device.c`, `usb_device_hid.c` | transfer state, `inPipes`, `outPipes`, deferral flags, status-stage timeout | setup, data and status stages, standard and HID class requests | the SIE |
| HID_PnP, `hid_pnp.cpp` | one pending flag per command, the device handle, the selected serial number, one 65-byte buffer | `PollUSB` (15 or 250 ms timer), `FindUSBDevices` (1 s), `slow_read_timeout` (500 ms), slots | HIDAPI; the window, by a signal that runs in the middle of a poll |
| USBIOBoard, `usbioboard.cpp` | sweep and macro state, automatic transmission, which controls are enabled | about thirty slots, two timers, `update_gui` | HID_PnP, register calculation |
| Macro table, in `usbioboard.cpp` | fourteen steps | active prefix, PLL flags, packing in two blocks | the device, which `rfgen44.py` programs too |
| Register calculation, `adf4351.cpp` | six words | `gcd`, `BuildRegisters` | - |
| `rfgen44.py` | the serial number it works with | one invocation: the operations asked for, in a fixed order | the device, opened anew for each operation |
| HIDAPI (vendored), one back end per platform | Linux and macOS: read thread, queue of reports, flags that stop the thread; Windows: one overlapped read and its event | enumerate, open, write, read in three ways, close | libusb, a Core Foundation run loop, the driver |

What makes it hard: the firmware's loop and its interrupt share descriptors and
pointers without a lock; the USB hardware owns and releases buffers by itself;
the host may reset, suspend, reconfigure or halt at any moment, and give up a
control transfer for another one; the application sends by flags and reads
replies a poll late; slots run inside a poll; HIDAPI's threads stop each other;
generators are plugged in and out while a program works through its commands.

What makes each part correct:

* command loop and endpoint 1: software and hardware agree on the descriptor to
  use next; a packet is handled, and once; a buffer is not read while the
  hardware fills it; the synthesiser never holds parts of two settings; the
  reply the host reads answers what it asked;
* endpoint 0: each control transfer ends, the endpoint is always armed for the
  next SETUP, an unfinished transfer leaves nothing behind for the next;
* HID_PnP: what the user asked last is what the device does in the end; a reply
  never undoes a later command; nothing is sent to a device it was not meant for;
* window: the frequencies sent are those of the sweep; controls are enabled
  when, and only when, their operation is possible; stopping restores what
  starting saved;
* macro table and registers: the device plays the table that was programmed, and
  the words put out the frequency they were calculated for;
* `rfgen44.py`: only the generator that was meant is programmed, and a program
  that reports no failure has done all it was asked;
* HIDAPI: reports are read in order, each once, a bounded number of them is
  kept, no wake-up is lost, reading and closing come to an end.

## 2. Modules

| Module | What it is |
|---|---|
| `RfgenFirmware` | the firmware: main loop, interrupt, endpoint 1, USB hardware and host |
| `UsbControl` | the firmware: control transfers on endpoint 0, its interrupt, USB hardware and host |
| `ControlPipe` | what endpoint 0 promises a host: an abstract specification, which UsbControl implements |
| `HidPnp` | the desktop application: HID_PnP, the window's half of `update_gui`, the devices, HIDAPI's read thread |
| `UsbIoBoard` | the application's window: sweep, macro, automatic transmission, controls, with HID_PnP seen by its signal and slots |
| `MacroBlocks` | the two blocks of a macro, the fixed-point frequency, and what the device plays |
| `MacroTable` | what the window packs of its table; composes `UsbIoBoard` and `MacroBlocks` |
| `Adf4351` | the calculation of the six words, and what the synthesiser makes of them |
| `Rfgen44` | the command line program and the generators; composes `Adf4351` and `MacroBlocks` |
| `HidCaller` | what HIDAPI's back ends share: the device, and the thread that uses it |
| `HidLibusb`, `HidMac`, `HidWindows` | the three back ends |
| `HidApi` | HIDAPI with whichever back end a build links; composes the three |
| `ReportDevice` | what `hidapi.h` promises: an abstract specification, which HidApi and each back end implement |
| `MCRfgenFirmware`, `MCUsbControl`, `MCHidPnp`, `MCUsbIoBoard`, `MCRfgen44` | finite instances |
| `RfgenFirmwareProofs`, `UsbControlProofs`, `HidPnpProofs`, `UsbIoBoardProofs`, `Rfgen44Proofs`, `HidLibusbProofs`, `HidMacProofs`, `HidApiProofs` | inductive invariants and theorems |

The back ends, `RfgenFirmware` and `UsbControl` stand below `HidPnp` and
`Rfgen44`, which use of them what their properties give: reports arrive in
order, the oldest of too many is dropped; a device handles one packet at a time.

### RfgenFirmware

Three parties share the descriptors of endpoint 1.

*The main loop.*  `pc` is its position in `APP_DeviceCustomHIDTasks`, or in the
`USBTransferOnePacket` that this function calls; one action per access to state
that is shared with the others.

| Actions | Code |
|---|---|
| `CheckState`, `CheckSuspended`, `CheckRxHandle` | the three tests a poll starts with |
| `Switch` | the switch on byte 0 |
| `CopyIn`, `WriteReg` | `memcpy` into `ad4351_system.reg`, a word at a time; `ad4351_write_reg`, last register first |
| `RfCtrl` | `setPDBrf` |
| `ReplyHeader`, `ReplyBody`, `CheckTxHandle` | byte 0 of the reply, the bytes after it, and the test whether the IN handle is busy, in that order |
| `LoadHandle`, `ArmBD`, `ReadEntry`, `WriteEntry`, `StoreHandle` | `USBTransferOnePacket`: take the pointer (NULL: return), write the descriptor and give it to the hardware, toggle the pointer by a read and a write, and store the handle in the caller's variable |

*The interrupt.*  `USBDeviceTasks` runs to its end between any two of these
steps: `PowerUp`, `BusReset`, `SetAddress`, `Unconfigure`, `Configure`,
`Suspend`, `Resume`, `SetHalt(d)`, `ClearHalt(d)`.

*The USB hardware (SIE) and the host.*  `HostOffer` is a report the host starts
to send, `SieOut` and `SieIn` are transactions on the descriptor the
hardware's ping-pong pointer selects, if the software gave it away (UOWN), it is
not stalled and the data toggles agree; otherwise the host is NAKed, and tries
again.  An IN transaction takes time: the hardware reads the buffer in pieces
(`SieReadsHeader`, `SieReadsBody`, kept in `reading`) and gives the descriptor
back when the host has acknowledged the packet (`SieInAcknowledged`).  The main
loop goes on in between, and may write what is being read.  These are the
external part of the model.

The content of a packet is its number (`id`) and the kind of its command; the
words of a register set and the two parts of a reply carry the id they came
with, which is what "whole", "last" and "once" are about.

Abstractions, each with its reason:

* All stores to one descriptor in `USBTransferOnePacket` are one step: UOWN is
  set last, and until then nobody else looks at the rest.  The test of a handle
  and the read of the bit it points to are one step: handles are written by the
  main loop, and by the interrupt only in `Configure`, which writes the handle
  and its descriptor together.
* The hardware's transaction queue (USTAT) and `ep_data_in`/`ep_data_out` are
  merged with the hardware's ping-pong pointer `sie`: the stack advances its
  copy on the interrupt of each transaction.  While a SETUP is handled the
  hardware's packet-disable bit stops the endpoint, so a request is one step.
* `SetAddress` comes before the device is configured, and SET_CONFIGURATION once
  it has an address: the code tests neither, hosts do it in this order.
* A host leaves the device alone for 10 ms after a reset (`ResetRecovered`); a
  poll takes far less, so that it is over when the first request comes.  Without
  it a loop that was interrupted between `LoadHandle` and `ArmBD` would arm a
  descriptor of the next configuration.
* On reset and SET_CONFIGURATION the host gives up a report it was sending.  A
  packet whose data toggle is wrong cannot occur: that the toggles agree is part
  of what is proved.
* A reply is read in two pieces; where they part stands for any place.  Of a packet
  that the host does not acknowledge only the last try is looked at, since each
  reads the buffer anew.  One packet is on the bus at a time, and no request comes
  while it is, as the host asks for nothing before the packet is over.
* The buffers are never smaller than a packet, and lengths are not modelled.

*History variables.*  `fresh` (a received packet waits), `quiet` (no request
has taken the descriptors since it came), `lastSet`, `lastReq`, `disturbed`:
a SET_CONFIGURATION in the middle of a poll, or a halt request in the middle of
`USBTransferOnePacket`'s pointer update in the same direction; and `overtaken`: the
newest reply was written while the hardware was sending older bytes of the buffer.
The properties that hold only of a device on which that has not happened say so;
the runs `rfgen_next_packet` and `rfgen_reply_echo` show what happens when it has.

Constants: `NumRegs` (6 in the code), `Commands`, `MaxPackets` and
`MaxBusEvents`, which bound the history TLC explores, `Configure` and the other
bus events counting against the latter.

*Fairness.*  The loop in `main()` never ends and never blocks: weak fairness of
`MainStep`.  The host's controller repeats a token that was NAKed in every frame:
weak fairness of `SieOut` and `SieIn`.  No fairness for the host's requests, for
resume or for bus events.

### HidPnp

One event loop runs three timers and the user's slots, one at a time, so that
none of them meets another half done.  Three things break this atomicity, and
are what the module is about: `update_gui` runs in the middle of a poll, by a
signal; devices, cables and HIDAPI's read thread go on while the poll is between
two calls of HIDAPI; and reads do not wait, so a reply is looked at when a later
request, or none, is on its way.

`pc` is therefore the HIDAPI call a poll makes next, and each action of the poll
is one call with everything up to the next one.

| State | Code |
|---|---|
| `ui` | `ui_data`; `ui.pending` is the set of its pending flags (`isRegUpdatePending` is "reg", `isRF_CTRL_Pending` "rf", `isDeviceCtrlPending` "ctrl", `isReadFirmwareInfoPending` "info", `readRFCTRL_pending` "status", ...) |
| `board` | the members of USBIOBoard that `update_gui` reads or writes; `clicked` is the set of its request flags |
| `buf`, `link`, `queue` | the report in `buf`, the open handle, HIDAPI's list of reports |
| `dev`, `attached`, `alive` | devices, cables, and whether the handle's device is still there |

| Actions | Code |
|---|---|
| `PollClosed`, `PollSwitches`, `PollStarts` | the three ways a poll begins: try to open, close for another selection, go on to the commands |
| `WriteReg`, `WriteRf`, `WriteLatest`, `WriteMacro0`, `WriteMacro1`, `WriteRequest` | one command each, with the `hid_comm_update` that precedes some of them; each write succeeds or fails, and a failure is `CloseDevice` and the end of the poll |
| `Read`, `Reply` | `hid_read`, and what is done with the last report read |
| `FindUSBDevices`, `SlowRead` | the other two timers |
| `ChangeReg`, `ChangeRf`, `SetRfState`, `Request`, `Select` | the user's slots, and those a sweep or a macro calls |
| `Reselected`, `BoardAfter`, `UIAfter` | `update_gui`, in the code's order: the list, the selection, what HID_PnP gets back |
| `Handle`, `ReadThread`, `Unplug`, `Plug` | the environment; `ReadThread` is HIDAPI's `read_callback`, which drops the oldest report when the queue is full |

Abstractions:

* Register settings and macros are numbers, the time order in which the user
  made them; a device is its RF output, the last setting, the two macro blocks,
  one packet in hand and one buffer for replies.  That is what RfgenFirmware
  shows of the firmware: one packet at a time, and a reply may be replaced
  before it is read.  The firmware sources of this repository know the commands
  for registers, RF output and version only; firmware for macros, flash and serial
  number is not among them, and is modelled from how the application uses it.
* The device list is a set.  The code sorts it, and only its first entry and
  whether it changed matter.
* Bytes that a command leaves in the 65-byte buffer for the next one are not
  modelled.
* HIDAPI's queue holds 32 reports (`hid-libusb.c:645-649`; the comment there says
  30), here `QueueLimit`.
* Timer periods are left out, with one exception: between two runs of
  `slow_read_timeout` (500 ms) there are at least `PollRatio` connected polls.
  They come every 15 ms, so that any ratio up to 33 is justified.
* `Prompt` says that a device has answered, and HIDAPI has the reply, before the
  application writes the next packet or starts the next poll.  It is an
  assumption on devices, made by the liveness run only.  Without it the
  window may never learn of a connection: the version's reply, when it stays in
  the device until the status request is handled, is replaced there by that
  request's reply, in every poll.
* `isSelctedDeviceChange` of the window is not initialised by the code: its first
  value is arbitrary.
* The buttons that `update_gui` enables on connection are guarded by
  `board.isDeviceConnected`.

*History variables.*  `intent` is the RF state asked for last; `torn` are the
devices of which a macro's second half was lost.

*Fairness.*  Qt's event loop serves each timer that is due, so a poll goes on to
its end and the next one begins: weak fairness of `PollUSB`.  The other two
timers run only between polls, which disables them again and again: strong
fairness.  Devices and the read thread do their work: weak fairness.  No
fairness for users, cables or failures.

In every module, definitions named for a mistake (`LeavesRfPending`,
`NeverDrops`, ...) are what the code next to them must not be; they show that the
properties can fail, and no specification uses them.

### UsbIoBoard

USBIOBoard runs a sweep and a macro by two timers.  Everything happens in the
application's one thread, so that handlers are atomic, but they are not
independent: a sweep stops a macro and the reverse, `update_gui` stops both, and
`sweep_start_click`, `executeMacroStep` and the RF button call slots of HID_PnP
that emit `hid_comm_update` before they return, so that `update_gui` runs inside
them.  Handlers are therefore operators from a window to a window, composed as
the code calls them; an action applies one.

| Variable | Code |
|---|---|
| `w` | members and widgets of USBIOBoard: `enabled` is the set of enabled controls, `basic` and `freq` the frequency's boxes on the two tabs, `adf` is `adf4351->frequency`; `sent` and `rf` are what `change_reg` and the RF slots were given last |
| `hid` | what of `ui_data` `update_gui` reads here: `isConnected`, `isReadFirmwareInfoPending`, the version, `isDeviceChangeDone` |
| `firmware` | the major version of the device that is open |
| `chosen`, `odd`, `edited` | history: automatic transmission as the user chose it; whether a sweep was started or stopped out of turn since; whether the user changed a frequency or the output during the macro |

| Definitions | Code |
|---|---|
| `Released`, `sweep_stop`, `macro_stop` | the two stops and what they share |
| `ShowsVersion`, `Unavailable`, `ShowsLoss`, `update_gui`, `Told` | `update_gui`, on the window and on `ui_data` |
| `SetRF` | `set_RF_state` and `change_RF_CTRL`, with the `update_gui` they cause |
| `recalcMacroPLL`, `ActiveChanged`, `getMacroTotalRange`, `StepAt`, `executeMacroStep` | the macro table and the step the timer executes |
| `macro_start`, `sweep_start`, `sweep_timeout` | the handlers of the same names |
| `Recalculated`, `Rebuilt`, `Sent` | `recalculate`, `singal_recalculate` down to `display_reg`, `update_reg` |
| the actions of `User` | one per widget: buttons, boxes, check boxes, the table's cells, the diagram's link |
| `PollWithoutDevice`, `CloseDevice`, `ReadVersion`, `ReadStatus`, `slow_read_timeout` | HID_PnP: the polls that run `update_gui`, and the losses |

Abstractions: a frequency is a number of a small range, kept within the largest
as the spin boxes do; the other thirty parameters only cause a recalculation;
the boxes "Loop" are read when they matter and may have changed at any time;
`isStartOfSweep`, texts, icons and the elapsed time are left out.  The buttons
that only leave a request for HID_PnP, and the list of devices, are in `HidPnp`.
`hid` is the part of HidPnp's `ui` that decides about controls, moved by the same
steps: `isDeviceChangeDone` is set after the device is closed, the version
becomes pending when no device is there and every 500 ms.

### UsbControl and ControlPipe

`UsbControl` is endpoint 0.  The interrupt's service routines run with interrupts
masked, each is one action; the USB hardware and the host go on between two of
them, and the hardware queues up to four completed transactions (USTAT).

| Variables | Code |
|---|---|
| `bd`, `sie`, `fifo`, `pktdis`, `epstall` | the four descriptors of endpoint 0, the hardware's ping-pong pointers, USTAT, UCON.PKTDIS, UEP0.EPSTALL |
| `outCur`, `outNext`, `inPtr` | `pBDTEntryEP0OutCurrent`, `pBDTEntryEP0OutNext`, `pBDTEntryIn[0]` |
| `setup`, `data`, `pipe` | `SetupPkt`; `CtrlTrfData` (whose bytes, from which offset on); `inPipes[0]` |
| `short`, `cts`, `bothSet`, `statusArmed`, `timer` | `shortPacketStatus`, `controlTransferState`, `BothEP0OutUOWNsSet`, the two status-stage flags, the timeout |
| `devState`, `cfg`, `addr` | `USBDeviceState`, `USBActiveConfiguration`, U1ADDR |
| `stage`, `req`, `due`, `moved`, `hTog`, `hAddr` | the host's side of the transfer |

| Actions and operators | Code |
|---|---|
| `ServeSetup`, `ServeSetConfiguration` | `USBCtrlTrfSetupHandler` from the descriptors it takes back to `USBCtrlEPServiceComplete`; the second empties the table and rewinds the pointers on its way |
| `ServeOut`, `ServeIn` | `USBCtrlTrfOutHandler`, `USBCtrlTrfInHandler` with `USBCtrlTrfTxService` and the new address |
| `Standard`, `Hid`, `Descriptor`, `Feature`, `Answer` | `USBCheckStdRequest`, `USBCheckHIDRequest` and what they call: the length of the reply, or that nobody knows the request |
| `StartOfFrame`, `StallInterrupt`, `AfterReset` | the other interrupts |
| `HostSetup`, `HostReads`, `HostReadsStatus`, `HostSendsStatus`, `HostStopsReading`, `HostIsStalled`, `BusReset` | the host and the hardware (external): each handshake may be lost, a transfer given up for another one, the bus reset |

Abstractions:

* The bytes of a reply are the request they answer and their offset in the
  reply, which is what "mixed" is about.
* No request of this firmware receives data (`USBEP0Receive`) or defers a stage,
  so the branches for those are not there; the status stage is always armed by
  the service routine, and `UsbControlProofs` proves it (`statusArmed`).
* Of what a SET request stores, address and configuration only.
* The host is any host: it may give up every transfer for another, SET_ADDRESS
  included.  The device then takes byte 2 of the *new* request for its address with
  the first IN transaction (`usb_device.c:2604-2616`), and the host, who goes on
  with the old address, does not reach it any more until it resets the bus.

`ControlPipe` has no descriptors, pointers or interrupts: a transfer has a stage,
the length due and the bytes that arrived.  `PipeSpec` is its specification on
UsbControl's variables of the same names; that a transfer ends is promised to a host
that can reach the device, as one with the wrong address cannot (`hAddr # addr`).

### HidCaller, HidLibusb, HidMac, HidWindows, HidApi and ReportDevice

One thread of the application enumerates, opens, reads, writes and closes; the
device sends numbered reports and is unplugged and plugged in again
(`HidCaller`).  `app` is the place of this thread in a call.

| Module | State | What it models |
|---|---|---|
| `HidLibusb` | `reader`, `handler`, `transfer`, `bytes`, `reports`, `shutdown` | `read_thread`, `read_callback` in whichever thread handles events, the transfer as libusb sees it, the condition variable, `hid_close` with its cancellation and join |
| `HidMac` | `reader`, `reports`, `shutdown`, `disconnected`, `callbacks`, `signalled` | the run loop, its source, the report and removal callbacks, both barriers, `hid_close` step by step |
| `HidWindows` | `pending`, `io`, `bytes`, `event`, `reports` | the overlapped read left from one `hid_read_timeout` to the next, the auto-reset event, the driver's ring |

Abstractions:

* A critical section that does not wait is one step.  The mutex is held over a
  step only between the test of the queue and the sleep (`app = "tested"`);
  `MutexFree` guards the others.
* `shutdown_thread` and `disconnected` are read and written without the mutex,
  as in the code, each access a step.
* The list keeps `QueueLimit + 2` reports: 32 in the code, whose comment says 30.
* `libusb_handle_events` may fail at any time (`EventsFail`, `hid-libusb.c:703-706`).  The
  read thread then leaves its loop and ends, with `shutdown_thread` still 0 unless its
  own cancellation sets it: a read that begins later sleeps until its time is up, or
  for ever if it has no limit, with nobody to wake it, or fails although the
  device is plugged in.  `broken`, which only that error sets, marks such a device
  until it is closed.  `SleeperIsWoken` excepts it, and `ReportDevice` lets a read fail
  of it as of one that has gone.  The application polls, so it finds nothing
  until a write fails.
* A write has no state but the place of the caller.  On Linux the waiting thread
  handles events for the read thread; on macOS it keeps the removal callback out;
  on Windows it waits for the device's handle, since its `OVERLAPPED` has no event,
  and the end of a read that was left running signals that handle too.
* Reading without a limit is in the three modules, in the proofs, and in the run
  for Windows.  On Linux such a read hangs if the device goes between the callback
  and the submission of the transfer, whose result nobody looks at
  (`hid-libusb.c:670`); on macOS if the thread that reads is the one that opened
  the library, whose run loop is then told nothing.  The application never reads
  like this: it calls `hid_set_nonblocking`.

`ReportDevice` is a queue.  libusb's completed transfer stands at the end of it,
Windows' completed read at its head (`Waiting`).  `HidApi` takes the back end as a
variable set once, so that one run and one theorem speak of all three.

*Fairness.*  Threads are scheduled.  A thread waiting for a mutex that is released
again and again gets it, and a run loop that is entered again and again serves
its source: strong fairness of `Reader`.  The caller goes on within a call: weak
fairness, and strong for the time limit, since spurious wake-ups disable it
again and again.  libusb and the driver report what became of a transfer: weak
fairness.  None for cables, reports, or the calls the application makes.

### Adf4351, MacroBlocks, MacroTable and Rfgen44

Frequencies are in units of 10 kHz, what the spin boxes and the device resolve.

* `Adf4351!BuildRegisters` is the method of that name, in `adf4351.cpp` and in
  `rfgen44.py`: divider, N as a fraction, FRAC and MOD rounded and reduced, the
  fields of the words.  The code computes with doubles; where N is whole and the
  PFD frequency has no finite binary fraction the double may lie below it, and
  the operator has that outcome too.  `Outputs` is the synthesiser (external),
  which reads the fields of the words.
* `MacroBlocks!Hundredfold` is the multiplication of a frequency in MHz by 100
  followed by a truncation, with the rounding of doubles: of the 436,501
  frequencies with two decimals 23,019 come out one unit short.  `Played` is the
  device (external): it plays the enabled steps of both blocks, and tunes at the
  first and at the marked ones.
* `MacroTable` is `packMacroData` on the window's table, at any moment of a run of
  the window.
* `Rfgen44` is one invocation of the program.  `at` is the operation `main()` is
  at; `Start`, `Write`, `Info`, `FlashWrite`, `Identify`, `Erase`, `ProgramSweep`,
  `ProgramMacro`, `RfState` are the operations in the order in which it looks for
  them, with their exits and exceptions; those with several packets are split
  there (`InfoRead`, `Version`, `Block0`, `Block1`, `EnableMacro`, `RfStateRead`).
  `Unplug` and `Plug` come in between; a generator that gets power loads its
  flash.  An unassigned variable is closed at `rfgen44.py:399`, which is one of
  the exceptions.  `--list`, which only prints, and arguments that are no numbers
  are left out.

## 3. What the runs check

### rfgen_firmware

Two registers, one command of each kind the handler treats differently, two
packets, four bus events, in any order and at any point of a poll: 455,674
states.  Two registers are enough for half a setting; two packets for one to
replace, repeat or tear another; four events for a reset and a new
configuration, twice over, or two halt requests and a configuration.

| Property | What it says |
|---|---|
| `TypeOK` | types, and that no null pointer toggled by `^ USB_NEXT_PING_PONG` is ever written through |
| `EndpointsInStep` | software pointers, handles and data toggles agree with hardware and host |
| `ReceiveBufferOwned` | the hardware cannot write the receive buffer while it is read, or holds a packet to be handled |
| `ReceivedIsSeen` | a packet acknowledged to the host is found by the next poll |
| `SynthHoldsOneSetting` | between polls the synthesiser holds all the words of the SET_REG handled last |
| `NewestReplyArrives` | the reply to the last request is whole, and is what the host reads, unless the hardware was in the middle of an older packet from the same buffer when it was written |
| `HandledOnce` | a packet is not handled twice, unless the bus took the descriptors back |
| `ReceivedIsHandled` | every packet received is handled, or discarded by the bus |
| `OfferIsTaken` | every packet offered is taken, unless the host suspends or halts the endpoint |

### rfgen_next_packet

`NextPacketIsTaken` (`app_device_custom_hid.c:184-185`, "Re-arm the OUT endpoint, so
we can receive the next OUT data packet"): a request between the UOWN bit and the
pointer update leaves the endpoint on the wrong descriptor, and it NAKs for ever.

### rfgen_reply_echo

`ReplyEchoesCommand` (`app_device_custom_hid.c:140`, "Echo back to the host PC the
command we are fulfilling in the first byte"): the handler writes the next reply into
the buffer before it asks whether the hardware still has it (141, 144).  A host that
asks twice without reading gets the first byte of one reply with the rest of the
other; and as the handle is busy the second reply is not armed at all.  That is
the exception `NewestReplyArrives` makes.

### usb_control

Ten requests that the dispatch tells apart, among them replies shorter than,
as long as, and longer than what was asked for, with and without a full last
packet, an unknown one and one that would receive data; packets of 8 bytes, so
that the 18 bytes of the device descriptor take three; three transfers, two
faults: 103,927 states.  Three transfers are enough for one to be given up, its
successor to meet what it left, and a third to find the endpoint ready; two
faults for a repetition that is given up, or a reset in the middle of it.  With
`Timeout` 1 a start of frame may come at every point.

| Property | What it says |
|---|---|
| `TypeOK` | types; lengths, offsets and the queue stay in their range |
| `ReadyForSetup` | when all is served the hardware owns the next OUT descriptor and takes packets |
| `PointersInStep` | the firmware's IN pointer lags by the transaction not yet served, also across SET_CONFIGURATION and resets |
| `NothingMixed` | a host never reads a byte that is not the next of the reply to its own request |
| `AddressesAgree` | once a SET_ADDRESS is over for the host and the device has taken an address, it is the one the host goes on to use |
| `PipeSpec` | endpoint 0 implements `ControlPipe`: replies complete, refusals only of what is unknown, every transfer ends as long as the host reaches the device |

Fairness: the interrupt comes when there is something to serve, and a host goes on
with the transfer it has begun.

### hid_pnp

Two generators, two actions of the user, one fault (a device unplugged, a device
plugged in, a write or an open that fails), a queue of one report, devices as slow as they
like, automatic transmission on: 3,244,552 states.  Two devices are enough for
the wrong one; two actions for one that overtakes another; a queue of one is
full at the second reply.  Of the buttons only the macro's is pressed: what the
others add to a poll is in hid_pnp_settles.

| Property | What it says |
|---|---|
| `TypeOK` | types; the queue stays within its limit; connected exactly while a device is open |
| `RfIntentKept` | an RF command waiting is the one asked for last, whatever replies come in between |
| `LinkIsSelected` | commands go to the device the window shows as selected, or a change of selection is on its way |
| `MacroIsWhole` | the two blocks of a macro in a device belong together, unless one was lost |

### hid_pnp_settles

The same with prompt devices, a queue of two, one action, one fault, and fairness:
243,308 states.

| Property | What it says |
|---|---|
| `SelectionSettles` | once users and cables rest, the selected device is open and stays open |
| `DisplaySettles` | and the RF state the window has is the device's |
| `WindowIsTold` | the window learns of every connection that lasts, although opening a device does not tell it |

### hid_pnp_auto_send

`ChangesAreSent` (`usbioboard.cpp:1407`, "Automatically send register updates on any
parameter change"): the flag falls before the write, and a write that fails loses
the change although the device is open again in the next poll.

### usb_io_board

Three steps in the table, three frequencies, two sweeps of which one goes past what
the spin boxes take, firmware 1 and 2, three actions of the user, two devices
opened: 414,576 states.  Two actions set up a macro whose wrap matters or a sweep
without automatic transmission, the third disturbs it; two devices allow a loss
in the middle and a return with the other firmware.  Three steps are the least
with an inactive one, and with one that is neither first nor last.

| Property | What it says |
|---|---|
| `ConflictsDisabled` | while a macro runs nothing that could disturb it is enabled, whatever `update_gui` is told; in a sweep that is said of "Write" and automatic transmission only; never do both run |
| `StopIsOffered` | what runs has its stop button enabled, while there is a device |
| `ChoiceRestored` | sweep and macro, however they end or take over from each other, leave automatic transmission as the user chose it |
| `FlashMacroIsTuned` | a macro programmed to flash at any moment visits the active rows in order and is tuned to the frequency of each, in every round; blocks of two steps make the third row the first of its block |
| `MacroStepIsSent` | a running macro is at an active step, and HID_PnP has this step's frequency and output state, although only steps with the PLL flag send registers |
| `SweepComesRound` | a sweep that goes on sends every frequency of its raster after the first, again and again, also when the spin box cuts the sum off at the end |
| `MacroComesRound` | a macro that goes on executes every active step again and again |
| `ControlsSettle` | the controls end up disabled when the device stays away, enabled when it stays and nothing runs; in a sweep that goes on what its start enabled is disabled again, "Erase" excepted |

Some of them leave something out.

* `ConflictsDisabled` and `ControlsSettle` do not say that flash and macro are out of
  reach all through a sweep: `usb_io_board_sweep` shows that they are not.
* `SweepComesRound` leaves out the start: a loop sets only the spin box back to it,
  and the next timeout adds the step before it sends (`usbioboard.cpp:1504-1526`), so
  that a sweep never sends it; and a frequency past the end, which is sent once in a
  round, is not in the raster.  The tooltips (1280, 1284) say "Sweep start frequency"
  and "Continuously loop sweep from start to end".
* `ChoiceRestored` does not speak of a start clicked during a sweep or a stop clicked
  without one, which the buttons allow and which do lose the choice.
* `MacroStepIsSent` ends with an edit during the macro: the flags are then computed
  from the table, not from what the device has, and a step may not be sent.

Fairness: a running timer fires (sweep, macro, poll, slow read), and a device that
stays open answers the question for its version.  Nothing is assumed of the user,
the boxes "Loop" or the cables.

### usb_io_board_sweep

`SweepKeepsDisabled` (`usbioboard.cpp:1462-1472`, the tooltips "Not available while
sweep is active"): `sweep_start_click` disables five buttons and automatic
transmission, and then has the output switched on (1489), whose slot runs
`update_gui` before the timer is started (1493).  `update_gui` goes by the timer and
enables program flash, erase flash, and start and program of a macro again
(1657-1725).  The next version read disables them, but for "Erase", which stays
enabled as long as the sweep runs.

### hidapi

Each back end, two openings, five reports, a list that keeps three, the device
unplugged and plugged in, libusb failing at any time: 58,079 states.  Five reports overflow the list
and leave one in the transfer; the second opening finds what the first left.

| Property | What it says |
|---|---|
| `TypeOK` | types, and the bound of the list |
| `SleeperIsWoken` | a thread that sleeps in `hid_read` has no report waiting and a read thread that has yet to wake it, unless libusb failed |
| `RunLoopAlive` | on macOS the run loop that `hid_close` and the removal callback use belongs to a thread that has not ended |
| `EventTellsRead` | on Windows the event and `read_pending` say of the overlapped read what is true of it, in whichever call it was started |
| `DeviceSpec` | every back end implements `ReportDevice`: order, no repetition, losses from a full list only, reads, openings and closings that end |

### hid_libusb_close

`FreesWhatIsDone` (`hid-libusb.c:728-729`, "the objects can be safely cleaned up after
the call to pthread_join()"): the read thread does not wait for a transfer that
`hid_close` has already cancelled, which is then freed before libusb gave it back.

### rfgen44

Two generators, one of which has firmware without macros; blocks of two steps of
at most four; 49 invocations, that is every operation, the pairs and triples whose
order matters, arguments at and beyond their limits; generators left with the
ends of every band and five settings; two changes of the cables: 154,288
states.  Two changes are one generator exchanged for the other, or one that loses
its power and comes back between two packets.

| Property | What it says |
|---|---|
| `TypeOK` | types; what goes to flash fits its fields |
| `WordsAgree` | the words in RAM and flash put out the frequency they were calculated for, exactly, and the frequency beside them is that one, or 10 kHz less |
| `DoneAsAsked` | a program that reports nothing, on a generator that kept its power, has done all it was asked; macros play as given, from both blocks |
| `RightDevice` | only the generator that was named, or was the only one when the program looked, is written to; no macro goes to a firmware that has none |

`DoneAsAsked` leaves out times that do not fit their field: they are cut off
(`rfgen44.py:61`, `295`).  There is no liveness: each step of the program waits a
second at most.

## 4. What is proved

### RfgenFirmwareProofs

`RfgenFirmwareProofs` proves, for every `NumRegs`, every set of commands and
every bound on packets and bus events, that `Spec` implies always each of the
seven state invariants above.  The assumptions are those named in
`RfgenFirmware`: `NumRegsAssumption`, `CommandsAssumption`, `BoundsAssumption`.

None of them is inductive.  `Inv` is their strengthening, a conjunction of named
parts, which were model-checked before they were proved:

1. `Core` = `TypeOK`, `Polling` (position and direction of the loop),
   `EnabledIsConfigured` (endpoint 1 is enabled in CONFIGURED only),
   `PointersSet` and `WildIsDead`: null and wild pointers exist only where the
   device is not configured, and a wild pointer is replaced before it is used.
   `CoreStep` shows it inductive by itself.
2. `EndpointsAgree`: `EndpointsInStep` extended to each position inside
   `USBTransferOnePacket`, where the pointer or handle is one step behind.
   `EndpointsStep` uses one lemma for each kind of change of the descriptors
   (`ArmEffect`, `MoveEffect`, `SetHaltEffect`, `ClearHaltEffect`,
   `ConfigureEffect`).
3. `BufferHeld`, `FreshIsSeen`, `QuietIsArmed`: who has the receive buffer, from
   which `ReceiveBufferOwned`, `ReceivedIsSeen` and `HandledOnce` follow.
4. `SettingMoves`: which prefix of the words has been copied, and which suffix
   latched, at each position of the handler.
5. `ReplyMoves`: where the newest reply is at each position, and what the hardware has
   read of it; `ReadingIsLive`: while it reads, the descriptor it reads by is armed.

### HidPnpProofs

`HidPnpProofs` proves, for any finite set of devices, any requests, any number of
user actions and faults, any queue length, and prompt devices or not, that `Spec`
implies always `TypeOK`, `RfIntentKept`, `LinkIsSelected` and `MacroIsWhole`.  The
assumptions are the four named ones of `HidPnp`.

`Inv` adds what holds in the middle of a poll:

* `AliveIsOpen`, `ListKnown`, `SelectedKnown`: for the types.  A changed list is
  never empty (the entry "No Device Found"), so `first()` exists; that it is
  one of the list is `LeastNumber`, by well-founded induction from the library.
* `RfPassed`: past the stage that sends it, no RF command waits.  That is why a
  status reply, handled at the end of a poll, cannot change one: `FromEffect` and
  `AfterEffect` show that no stage skips it.
* `ChangeTold`: `isDeviceChangeDone` is set only while nothing is open.  Without
  it the window's flag could fall when a change was just made.
* `MacroMoves`: where the first block of a macro is while the second is not sent:
  on its way, or in the device, with the number the second will have.

`Sends` states what all the stages that write have in common, and
`StagesThatSend` shows it of each; from there on a write is one case, not six.
The effects of `update_gui` are lemmas (`ReselectedEffect`, `BoardAfterEffect`,
`UIAfterEffect`), used wherever it runs.

### UsbIoBoardProofs

`UsbIoBoardProofs` proves, for any number of steps, any range of frequencies, any
sweep settings and versions and any number of actions, that `Spec` implies always
`TypeOK`, `ConflictsDisabled`, `StopIsOffered`, `ChoiceRestored`,
`MacroStepIsSent` and `FlashMacroIsTuned`.  The assumptions are the five named ones
of `UsbIoBoard` and, for the last, those of `MacroBlocks` and `MacroTable`: a block
holds a step, and two blocks hold every row of the table (14 and 2 * 7 in the code).

The handlers call each other, so most lemmas are about one handler, on any window
(`SweepStopEffect`, `MacroStopEffect`, `GuiWithDevice`, `GuiWithoutDevice`,
`MacroStepEffect`, ...), and are used wherever it is called.  `Inv` adds

* `Guarded`: what runs also has automatic transmission on, a macro has a device,
  and only a running macro offers its stop.  Without the first, the registers of
  a step would not be sent, nor "Write" stay disabled.
* `Stoppable`: where a sweep can be started it can be stopped; starting one does
  not enable "Stop", `ShowsVersion` did.
* `Table`: the first two steps are active, the active ones have no gap (`NoGap`),
  and the PLL flags are up to date.
  `NextStep` shows that the step `executeMacroStep` takes next is the one whose
  predecessor, for `recalcMacroPLL`, is the current step, at the wrap too: so a
  step without its flag has the frequency that was sent for the one before
  (`UnflaggedStep`).
* `StepSent`: the two spin boxes agree with what was sent, so that a
  recalculation in the middle of a macro changes nothing.
* `Link`: between the opening of a device and the first reply the window does
  not have the device yet; no sweep runs and none can be started then.  And a
  sweep that was started without a device cannot be started again.

`FlashMacroIsTuned` follows from `Table`.  Without a gap the active rows are
`0 .. m` (`ActiveRows`), so that each block is packed up to its last active row
without an inactive one between (`BlocksSteps`), and the two blocks together are
the rows in order (`BothBlocks`).  `PlaceBefore`: the predecessor of a row for
`recalcMacroPLL` is the row played before it, at the wrap from the last to the
first too.  `TunedRight`, by the least number at which it would go wrong, says
that a device that tunes at its first step and where a flag is set is then
tuned right at every step.

### UsbControlProofs

For any requests, packet size, timeout and number of transfers and faults:
`TypeOK`, `ReadyForSetup`, `PointersInStep`, `NothingMixed`, `AddressesAgree` and the
safety part of `PipeSpec`.  The assumptions are the three
named ones of `UsbControl`.

`ReadyForSetup` speaks of the moment when all is served; `Inv` says what the queue
may hold until then, and what each entry means for the descriptors:

* `InSide`: one IN transaction at most; then no IN descriptor is armed and the
  pointers are one apart, otherwise they agree.
* `SetupIsLast`: a SETUP is the last entry, since it disables packets, and it is
  the one `pktdis` speaks of.
* `StatusIsOne`: one empty OUT packet at most, and only when `bothSet`, so that the
  other descriptor still waits for a SETUP.  That is why `ServeOut` may leave
  the descriptors alone.
* `OutSide`: with nothing to serve on OUT the next descriptor is the hardware's.
* `statusArmed`: no service routine leaves a stage to the timeout.

For `NothingMixed` and `ImplementsControlPipe` that is not enough: `Inv` says which
descriptors are armed, not with what.  `TransferInv` says it of each stage the host
may be in, and only while no SETUP waits to be served, as until then the
descriptors are those of an earlier transfer:

* `SetupIsAsked`: a SETUP that waits is the host's request, with nothing moved yet.
* `RefusalStands`: a refused request is stalled in both directions, with nothing left
  to serve that could disarm the stall.
* `StatusIsAwaited`: the OUT descriptor of the status stage stays armed while a
  reply is read, and it is not the one the stall interrupt looks at.
* `StatusIsOffered`: where there is no reply the next IN packet is empty, with DATA1.
* `ReplyGoesOn`, the core: the packet at the firmware's pointer is the next one of
  the reply to this request, with the toggle the host expects, or the host has it
  already: then its toggle differs, it was a full one, and `pipe` stands at the byte
  the host wants next.  A repeated packet is the second case, a lost one the
  first, and no third is left that could mix two replies.

`AddressesAgree` needs one part more, `AddressInv`: from the end of the status stage of
a SET_ADDRESS to the service that takes the address, `SetupPkt` is still that request.
Nothing else waits to be served when the status stage begins (`NothingToServe`).

`NothingMixed` follows for every host.  `ImplementsControlPipe` shows that each
step is one of `ControlPipe` or a stutter, for a host that announces data only with
SET_REPORT and SET_DESCRIPTOR (`WellFormed`).  The hypothesis is needed: the firmware
would accept a SET_IDLE by its name and then stall its data, a refusal of a
request that is known.  The USB and HID specifications give SET_IDLE and the other
requests no data, and the run's requests satisfy it.

### HidLibusbProofs, HidMacProofs, HidApiProofs

For any limit of the list, any ways to read, any number of reports and openings
(`ModesAssumption`, `LimitsAssumption`): the back ends' types, `SleeperIsWoken`,
`RunLoopAlive`, `EventTellsRead`, and that each step of a back end is one of
`ReportDevice` or a stutter (`ImplementsDevice`).  The first two modules cover reads
without a limit, which the run leaves out there.  `HidApiProofs` proves the Windows
back end, takes the theorems of the other two by INSTANCE, and carries them over
to `HidApi`: `SameLibusb` and `SameMac` say that the definitions mean the same, for
`DeviceOfLibusb` and `DeviceOfMac` the ways to read are fewer.

The invariants have the same parts: `CallerPlaces` (which place in a call goes with
which link), `ReaderPlaces` (how far the read thread is then), `StopsWhenGone` (while
a device is open, its thread is told to stop only when it has gone, without
which a read could fail on a device that is there), `SleepsSoundly` (`SleeperIsWoken`
from the test on, when the thread has the mutex).  In the first, each of them allows for
a thread that has ended because libusb failed (`broken`).  On Windows `FlagsTell` follows
the event and `read_pending` through every place of a call.  A report dropped
from the list is, to `ReportDevice`, the oldest, or the second when the oldest
is in the overlapped read (`SecondLeftOut`).

### Rfgen44Proofs

For any generators, invocations, earlier settings and cables: `RightDevice`, `TypeOK`,
`WordsAgree` and `DoneAsAsked`, that is every property of the run.  The assumptions are the
named ones of `Adf4351`, `MacroBlocks` and `Rfgen44`: what the application left was made
with the default crystal, within its spin boxes; arguments have the types that
`argparse` gives them; a macro has at most the steps two blocks hold
(`MACRO_MAX_STEPS` is 14, a block has 7).

* `RightDevice`: `Inv` ties the serial number of the program to its arguments from
  the first operation on, and says that the places `block0` and `block1` are reached
  only with a firmware that has macros.
* `TypeOK`: `Control` adds what was validated at each place of `main`, since the widths of
  the fields rest on the tests of an earlier step (number of steps, duration);
  `StepPacked` and `BlockPacked` are what comes out of the packing.
* The words: `WordsAreExact` says of *every* frequency from 35 to 4400 MHz and every
  exact setting what the run samples: each outcome of `BuildRegisters`, decoded by
  the synthesiser (`Outputs`), gives that frequency, and the VCO is in its range.
  `Exact` is what makes the arithmetic of `adf4351.cpp:166-215` come out: the PFD
  frequency is a binary fraction of a MHz (the double N is then not off), 1000 * PFD is
  whole, modulus, INT and band select divider fit their fields.  The default setting
  is exact (`DefaultIsExact`), so are all of the run; with R = 3 (section 5) the
  statement would be false.  The lemmas below it: `GcdExists` (the
  recursive function is defined, by well-founded induction over the sum of its
  arguments) and `GcdIsGreatest` (it is the greatest common divisor), `Fraction`
  (rounding is exact there), `ReducedExactly` (dividing by the gcd, and 1 becoming 2,
  keeps FRAC / MOD), `SettingFields` and `BandFields` (no field runs into the next).
  `WordsAlwaysAgree` takes it over to what a generator holds; its hypothesis is
  `Exact` of the settings in `Left`.  rfgen44.py itself only uses the default.
* `DoneAsAsked`: `Asked` says, of the operations that are over (`Past`), what they
  have left in the generator if nothing failed (`After`), each unless a later one
  wrote over it, what was sent of a macro that is under way (`Sent`), and that the
  generator has been plugged in since.  It was model-checked before it was proved.
  Each operation has a lemma (`WriteAsks`, `EraseAsks`, `ProgramAsks`, ...), and they share
  what ending one means (`Finishes`, `FailsAsks`).  For macros `MacroPlays` shows that the device plays two packed blocks as
  the steps were given.

### Only model-checked

* The liveness properties of all modules, and the liveness parts of `DeviceSpec` and
  `PipeSpec`: what holds under fairness is out of the prover's reach.
* That `Remainder` and `Scale` of `MacroBlocks` follow the double product: the proofs need
  only that it falls short by one unit at most (`HundredfoldIs`).

No other property is left to the runs alone: every invariant and every safety action
property of the passing runs is a theorem.

## 5. What is not modelled

* Of endpoint 0: receiving data and deferred stages, which no request of this
  firmware uses; the contents of descriptors; idle rate, protocol, remote wake-up.
  Of the device stack: detaching, bus errors, the isochronous and OTG branches
  that this build leaves out.
* Pins, clocks, start-up and the bit-banged SPI transfer of a word:
  straight-line code whose state no property could tell apart.
* Of HIDAPI: feature reports, string requests and the conversion of their
  characters, the parsing of report descriptors, and `linux/hid.c` (hidraw), which
  the project file does not build.
* Of the window: step sizes, texts, icons, elapsed time, the other thirty
  parameters.  `ADF4351_calculte_reg_from_freq`, which nobody calls.
* The boot loader, the hex image, hardware files, build files, the udev rule.

What was seen on the way, and is in no run:

* a main loop that re-arms the OUT endpoint clears a halt the host set
  (`usb_device.c:1031`); after a reset or a halt request the loop handles the old
  contents of its buffer (`app_device_custom_hid.c:128`);
* a SET_ADDRESS that the host gives up leaves the device to take its address from the
  next request (`usb_device.c:2604-2616`; the comment at 2602 finds it "evident" that the
  status stage is over).  `PipeSpec` excepts it;
* the latch of the RF power-down pin is not written before its TRIS bit
  (`system.c:112`): `rf` is arbitrary at first;
* `hid_close` on Windows frees the read's buffer after a CancelIo that it does not
  wait for (`windows/hid.c:738`);
* writes pending in HID_PnP survive a disconnection and go to the device that is
  opened next (`hid_pnp.cpp:99`);
* a second start of a sweep saves the forced state of automatic
  transmission (`usbioboard.cpp:1443`); a late status reply makes the RF button send
  the same command again (`:1716`); a sweep sends a frequency past its end once in a
  round, and never its start (`:1504-1526`);
* the packing of a macro takes the index of the combo box for a truth value, and "On"
  is item 0, so that the device inverts the output shown (`:583`); and the
  frequency times 100 is truncated, so that 35.05 MHz is packed 10 kHz low (`:569`).
  `FlashMacroIsTuned` follows the frequencies as they are packed;
* with R = 3, which the spin box offers, the modulus is 8333 and is cut to its 12 bits
  (`adf4351.cpp:176`, `220`).  Calculated outside the model: R = 33, where 1000 * PFD is
  no whole number, puts 88 frequencies off by up to 378 kHz; with R = 125 or 250
  the double N may lie below a whole number, which puts some off by half the PFD
  frequency.

## 6. Plan

Done: `RfgenFirmware`, `HidPnp`, `UsbIoBoard`, `UsbControl`, HIDAPI's back ends, the
macro's packing, the registers and the command line program, with their proofs.

What could follow:

1. A composition of HID_PnP with the firmware's command loop that refines an
   abstract RF control panel.
2. The words of settings that are not exact: how far off `Outputs` can be, as a
   function of R.
3. Feature reports, which need a data stage in `UsbControl`, and `linux/hid.c`.
