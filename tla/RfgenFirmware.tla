--------------------------- MODULE RfgenFirmware ---------------------------
(***************************************************************************)
(* The device side of the RF generator: the polling loop of main.c, the    *)
(* command handler APP_DeviceCustomHIDTasks, the transfer primitive        *)
(* USBTransferOnePacket it calls, and what the USB interrupt does to the   *)
(* buffer descriptors of endpoint 1.                                       *)
(*                                                                         *)
(* Three parties share the descriptors and the two 64-byte buffers:        *)
(*   - the main loop, one action per access to shared state (pc);          *)
(*   - the interrupt, USBDeviceTasks, which may come between any two of    *)
(*     those accesses and runs to its end: one action per bus event or     *)
(*     control request that touches endpoint 1;                            *)
(*   - the SIE, the USB hardware, which fills or empties the buffer of a   *)
(*     descriptor whose UOWN bit it was given, for a host that retries.    *)
(*     It reads the reply piece by piece while the main loop goes on.      *)
(*                                                                         *)
(* Data are abstracted to the packet, or its number (id), that they came   *)
(* with, so that a register word or half of a reply can be traced to its   *)
(* command.                                                                *)
(* The stores to one descriptor in USBTransferOnePacket are one step, and  *)
(* so are the test of a handle and the read of the bit it points to.       *)
(***************************************************************************)
EXTENDS Integers

CONSTANTS
  NumRegs,      \* registers of the synthesiser: sizeof(reg) / 4, 6 in the code
  Commands,     \* the first bytes of the packets the host sends
  MaxPackets,   \* bound: packets the host offers
  MaxBusEvents  \* bound: bus events and control requests after attachment

Writes  == {"SET_REG", "RF_ON", "RF_OFF"}                 \* 0x80, 0x81
Reads   == {"GET_REG", "READ_RF_CTRL", "GET_BUILD_INFO"}  \* 0x83, 0x82, 0xB0
Ignored == {"OTHER"}               \* any first byte the switch has no case for

ASSUME NumRegsAssumption == NumRegs \in Nat \ {0}
ASSUME CommandsAssumption == Commands \subseteq Writes \cup Reads \cup Ignored
ASSUME BoundsAssumption == MaxPackets \in Nat /\ MaxBusEvents \in Nat

VARIABLES
  devState,    \* USBDeviceState
  suspended,   \* UCON.SUSPND
  uep1,        \* the UEP1 register: endpoint 1 enabled
  bd,          \* BDT[EP1_OUT_EVEN .. EP1_IN_ODD]: UOWN, DTS and BSTALL bits
  pBDT,        \* pBDTEntryOut[1], pBDTEntryIn[1]: the next descriptor to arm
  sie,         \* the ping-pong pointers of the SIE (and ep_data's copy of them)
  handle,      \* USBOutHandle, USBInHandle
  rxBuf,       \* ReceivedDataBuffer
  txBuf,       \* ToSendDataBuffer: the packets its byte 0 and the rest answer
  reg,         \* ad4351_system.reg: per word, the packet it was copied from
  chip,        \* the synthesiser: per register, the packet its value came from
  rf,          \* the PDBrf pin
  pc, xdir, h, next, idx,  \* main loop: position, transfer direction, handle,
                           \* the pointer it read to toggle, word
  offer,       \* the packet the host is trying to send, or NoPacket
  nextId,      \* id of the next packet the host will offer
  hostTog,     \* the host's data toggles for endpoint 1
  got,         \* the last reply the host read
  reading,     \* what the SIE has read of ToSendDataBuffer for the IN packet
               \* that is on the bus, or NoBytes
  budget,      \* bus events left
  \* history variables
  fresh,       \* rxBuf holds a packet neither handled nor discarded by the bus
  quiet,       \* no bus event has emptied the descriptors since it came
  lastSet,     \* id of the SET_REG last handled; Mixed after a disturbance
  lastReq,     \* id of the request last handled whose reply is due, or 0
  disturbed,   \* a control request cut into a poll since the last clean start
  overtaken    \* the SIE was sending older bytes when the newest reply was written

device  == <<devState, suspended, uep1>>
ep      == <<bd, pBDT, sie, handle>>
outputs == <<reg, chip, rf>>
main    == <<pc, xdir, h, next, idx>>
host    == <<offer, nextId, hostTog, got, reading>>
hist    == <<quiet, lastSet, lastReq, disturbed, overtaken>>
vars    == <<device, ep, rxBuf, txBuf, outputs, main, host, budget, fresh, hist>>

Dirs == {"OUT", "IN"}        \* OUT_FROM_HOST, IN_TO_HOST
PP   == {0, 1}               \* even and odd descriptor
NULL == -1
WILD == -2                   \* a null pointer after ^= USB_NEXT_PING_PONG
Mixed == -1

States == {"ATTACHED", "POWERED", "DEFAULT", "ADR_PENDING", "ADDRESS", "CONFIGURED"}
Ids == 0 .. MaxPackets + 1
Settings == [0 .. NumRegs - 1 -> Ids]
Packet == [id : Ids, cmd : Writes \cup Reads \cup Ignored]
NoPacket == [id |-> 0, cmd |-> "OTHER"]   \* also the zeroed ReceivedDataBuffer
Reply    == [hdr : Packet, body : Packet]
NoReply  == [hdr |-> NoPacket, body |-> NoPacket]
NotRead  == [id |-> -1, cmd |-> "OTHER"]
NoBytes  == [hdr |-> NotRead, body |-> NotRead]
Pieces   == [hdr : Packet \cup {NotRead}, body : Packet \cup {NotRead}]

Top      == {"state", "susp", "rxbusy"}
Handler  == {"switch", "copyin", "latch", "rfctl", "hdr", "body", "txbusy"}
Transfer == {"load", "arm", "toggle", "write", "store"}

Entry == [uown : BOOLEAN, dts : PP, stall : BOOLEAN]      \* BDT_ENTRY.STAT
Descriptors == [Dirs -> [PP -> Entry]]
Pointers    == PP \cup {NULL, WILD}
NoBD   == [uown |-> FALSE, dts |-> 0, stall |-> FALSE]
ClearedBDT == [d \in Dirs |-> [i \in PP |-> NoBD]]
Busy(hd, d) == hd # NULL /\ bd[d][hd].uown                      \* USBHandleBusy
Live(d, i)  == bd[d][i].uown /\ ~bd[d][i].stall   \* the SIE may move data by it

(***************************************************************************)
(* The state main() has reached when it enters its loop: USBDeviceInit and *)
(* USBDeviceAttach are done, no endpoint-1 pointer is set, the PDBrf latch *)
(* has its power-on value, which nothing initialises.                      *)
(***************************************************************************)
Init ==
  /\ devState = "ATTACHED" /\ suspended = FALSE /\ uep1 = FALSE
  /\ bd = ClearedBDT
  /\ pBDT = [d \in Dirs |-> NULL]
  /\ sie = [d \in Dirs |-> 0]
  /\ handle = [d \in Dirs |-> NULL]
  /\ rxBuf = NoPacket /\ txBuf = NoReply
  /\ reg = [i \in 0 .. NumRegs - 1 |-> 0]
  /\ chip = [i \in 0 .. NumRegs - 1 |-> 0]
  /\ rf \in BOOLEAN
  /\ pc = "state" /\ xdir = "OUT" /\ h = NULL /\ next = NULL /\ idx = 0
  /\ offer = NoPacket /\ nextId = 1
  /\ hostTog = [d \in Dirs |-> 0] /\ got = NoReply /\ reading = NoBytes
  /\ budget = MaxBusEvents
  /\ fresh = FALSE /\ quiet = FALSE /\ lastSet = 0 /\ lastReq = 0
  /\ disturbed = FALSE /\ overtaken = FALSE

-----------------------------------------------------------------------------
(***************************************************************************)
(* The main loop.  Go(p) moves it on; every action names what it changes.  *)
(* A definition named after a slip (SkipsStateCheck, ...) is a plausible   *)
(* wrong version of the one that follows it, kept to see that a property   *)
(* would notice; the specification does not use it.                        *)
(***************************************************************************)
Go(p) == pc' = p
At(p) == pc = p

SkipsStateCheck ==
  /\ At("state") /\ Go("susp")
  /\ UNCHANGED <<device, ep, rxBuf, txBuf, outputs, xdir, h, next, idx, host, budget, fresh, hist>>

(* if (USBGetDeviceState() < CONFIGURED_STATE) return; *)
CheckState ==
  /\ At("state") /\ Go(IF devState = "CONFIGURED" THEN "susp" ELSE "state")
  /\ UNCHANGED <<device, ep, rxBuf, txBuf, outputs, xdir, h, next, idx, host, budget, fresh, hist>>

(* if (USBIsDeviceSuspended() == true) return; *)
CheckSuspended ==
  /\ At("susp") /\ Go(IF suspended THEN "state" ELSE "rxbusy")
  /\ UNCHANGED <<device, ep, rxBuf, txBuf, outputs, xdir, h, next, idx, host, budget, fresh, hist>>

WaitsForBusy ==
  /\ At("rxbusy") /\ Go(IF Busy(handle["OUT"], "OUT") THEN "switch" ELSE "state")
  /\ UNCHANGED <<device, ep, rxBuf, txBuf, outputs, xdir, h, next, idx, host, budget, fresh, hist>>

(* if (HIDRxHandleBusy(USBOutHandle) == false) { ... } *)
CheckRxHandle ==
  /\ At("rxbusy") /\ Go(IF Busy(handle["OUT"], "OUT") THEN "state" ELSE "switch")
  /\ UNCHANGED <<device, ep, rxBuf, txBuf, outputs, xdir, h, next, idx, host, budget, fresh, hist>>

UnknownNotRearmed ==
  /\ At("switch")
  /\ \/ rxBuf.cmd = "SET_REG" /\ Go("copyin")
     \/ rxBuf.cmd \in {"RF_ON", "RF_OFF"} /\ Go("rfctl")
     \/ rxBuf.cmd \in Reads /\ Go("hdr")
     \/ rxBuf.cmd \in Ignored /\ Go("state")
  /\ fresh' = FALSE
  /\ lastSet' = IF rxBuf.cmd # "SET_REG" THEN lastSet
                ELSE IF disturbed THEN Mixed ELSE rxBuf.id
  /\ lastReq' = IF rxBuf.cmd \in Reads THEN rxBuf.id ELSE lastReq
  /\ UNCHANGED <<device, ep, rxBuf, txBuf, outputs, xdir, h, next, idx, host, budget, quiet, disturbed, overtaken>>

(* switch (ReceivedDataBuffer[0]) and the history of what is handled *)
Switch ==
  /\ At("switch")
  /\ \/ rxBuf.cmd = "SET_REG" /\ Go("copyin")
     \/ rxBuf.cmd \in {"RF_ON", "RF_OFF"} /\ Go("rfctl")
     \/ rxBuf.cmd \in Reads /\ Go("hdr")
     \/ rxBuf.cmd \in Ignored /\ Go("load")
  /\ fresh' = FALSE
  /\ lastSet' = IF rxBuf.cmd # "SET_REG" THEN lastSet
                ELSE IF disturbed THEN Mixed ELSE rxBuf.id
  /\ lastReq' = IF rxBuf.cmd \in Reads THEN rxBuf.id ELSE lastReq
  /\ UNCHANGED <<device, ep, rxBuf, txBuf, outputs, xdir, h, next, idx, host, budget, quiet, disturbed, overtaken>>

CopiesOneWordLess ==
  /\ At("copyin")
  /\ IF idx < NumRegs - 1
       THEN reg' = [reg EXCEPT ![idx] = rxBuf.id] /\ idx' = idx + 1 /\ UNCHANGED pc
       ELSE UNCHANGED <<reg, idx>> /\ Go("latch")
  /\ UNCHANGED <<device, ep, rxBuf, txBuf, chip, rf, xdir, h, next, host, budget, fresh, hist>>

(* memcpy(ad4351_system.reg, &ReceivedDataBuffer[1], ...), word by word *)
CopyIn ==
  /\ At("copyin")
  /\ reg' = [reg EXCEPT ![idx] = rxBuf.id]
  /\ IF idx < NumRegs - 1 THEN idx' = idx + 1 /\ UNCHANGED pc
                          ELSE UNCHANGED idx /\ Go("latch")
  /\ UNCHANGED <<device, ep, rxBuf, txBuf, chip, rf, xdir, h, next, host, budget, fresh, hist>>

(* ad4351_write_reg: the last register first, each latched by a pulse on LE *)
WriteReg ==
  /\ At("latch")
  /\ chip' = [chip EXCEPT ![idx] = reg[idx]]
  /\ IF idx > 0 THEN idx' = idx - 1 /\ UNCHANGED pc
                ELSE UNCHANGED idx /\ Go("load")
  /\ UNCHANGED <<device, ep, rxBuf, txBuf, reg, rf, xdir, h, next, host, budget, fresh, hist>>

(* setPDBrf(ReceivedDataBuffer[1] && 0x1) *)
RfCtrl ==
  /\ At("rfctl") /\ Go("load")
  /\ rf' = (rxBuf.cmd = "RF_ON")
  /\ UNCHANGED <<device, ep, rxBuf, txBuf, reg, chip, xdir, h, next, idx, host, budget, fresh, hist>>

HeaderOnlyIfIdle ==
  /\ At("hdr") /\ Go("body")
  /\ txBuf' = IF Busy(handle["IN"], "IN") THEN txBuf ELSE [txBuf EXCEPT !.hdr = rxBuf]
  /\ UNCHANGED <<device, ep, rxBuf, outputs, xdir, h, next, idx, host, budget, fresh, hist>>

(* ToSendDataBuffer[0] = COMMAND_...: written whether or not it is in use *)
ReplyHeader ==
  /\ At("hdr") /\ Go("body")
  /\ txBuf' = [txBuf EXCEPT !.hdr = rxBuf]
  /\ UNCHANGED <<device, ep, rxBuf, outputs, xdir, h, next, idx, host, budget, fresh, hist>>

(* the bytes of the reply after the first *)
ReplyBody ==
  /\ At("body") /\ Go("txbusy")
  /\ txBuf' = [txBuf EXCEPT !.body = rxBuf]
  /\ UNCHANGED <<device, ep, rxBuf, outputs, xdir, h, next, idx, host, budget, fresh, hist>>

(* if (!HIDTxHandleBusy(USBInHandle)) USBInHandle = HIDTxPacket(...).      *)
(* Overtaken: the descriptor is busy with a packet part of which the SIE   *)
(* read before the reply was written; nothing will send the reply.         *)
CheckTxHandle ==
  /\ At("txbusy") /\ Go("load")
  /\ xdir' = IF Busy(handle["IN"], "IN") THEN "OUT" ELSE "IN"
  /\ overtaken' = /\ Busy(handle["IN"], "IN")
                  /\ \E piece \in {reading.hdr, reading.body} :
                       piece.id \notin {NotRead.id, rxBuf.id}
  /\ UNCHANGED <<device, ep, rxBuf, txBuf, outputs, h, next, idx, host, budget, fresh,
                 quiet, lastSet, lastReq, disturbed>>

(***************************************************************************)
(* USBTransferOnePacket(1, xdir, ...), called from the main loop to send a *)
(* reply (IN) and, as the last thing of every poll, to re-arm OUT.         *)
(***************************************************************************)
LoadHandle ==
  /\ At("load") /\ h' = pBDT[xdir]
  /\ Go(IF pBDT[xdir] = NULL THEN "store" ELSE "arm")       \* return 0
  /\ UNCHANGED <<device, ep, rxBuf, txBuf, outputs, xdir, next, idx, host, budget, fresh, hist>>

ArmBD ==
  /\ At("arm") /\ Go("toggle")
  /\ bd' = [bd EXCEPT ![xdir][h] = [@ EXCEPT !.uown = TRUE, !.stall = FALSE]]
  /\ UNCHANGED <<device, pBDT, sie, handle, rxBuf, txBuf, outputs, xdir, h, next, idx,
                 host, budget, fresh, hist>>

NeverToggled(p) == p
Toggled(p) == IF p \in PP THEN 1 - p ELSE WILD

(* pBDTEntry[ep] = pBDTEntry[ep] ^ USB_NEXT_PING_PONG, a read and a write *)
ReadEntry ==
  /\ At("toggle") /\ Go("write")
  /\ next' = Toggled(pBDT[xdir])
  /\ UNCHANGED <<device, ep, rxBuf, txBuf, outputs, xdir, h, idx, host, budget, fresh, hist>>

WriteEntry ==
  /\ At("write") /\ Go("store")
  /\ pBDT' = [pBDT EXCEPT ![xdir] = next] /\ next' = NULL
  /\ UNCHANGED <<device, bd, sie, handle, rxBuf, txBuf, outputs, xdir, h, idx,
                 host, budget, fresh, hist>>

StoresNextEntry ==
  /\ At("store")
  /\ handle' = [handle EXCEPT ![xdir] = IF pBDT[xdir] = WILD THEN NULL ELSE pBDT[xdir]]
  /\ h' = NULL /\ xdir' = "OUT"
  /\ Go(IF xdir = "IN" THEN "load" ELSE "state")
  /\ UNCHANGED <<device, bd, pBDT, sie, rxBuf, txBuf, outputs, next, idx, host, budget, fresh, hist>>

(* USBInHandle = ...; then re-arm OUT.  USBOutHandle = ...; then poll again. *)
StoreHandle ==
  /\ At("store")
  /\ handle' = [handle EXCEPT ![xdir] = h]
  /\ h' = NULL /\ xdir' = "OUT"
  /\ Go(IF xdir = "IN" THEN "load" ELSE "state")
  /\ UNCHANGED <<device, bd, pBDT, sie, rxBuf, txBuf, outputs, next, idx, host, budget, fresh, hist>>

MainStep ==
  \/ CheckState \/ CheckSuspended \/ CheckRxHandle \/ Switch \/ CopyIn \/ WriteReg
  \/ RfCtrl \/ ReplyHeader \/ ReplyBody \/ CheckTxHandle
  \/ LoadHandle \/ ArmBD \/ ReadEntry \/ WriteEntry \/ StoreHandle

-----------------------------------------------------------------------------
(***************************************************************************)
(* The interrupt.  MaxBusEvents bounds how often the host disturbs the bus.*)
(* It does so when no packet of endpoint 1 is on the bus, and until a      *)
(* request is served, PKTDIS keeps the next one away.                      *)
(***************************************************************************)
BusEvent == budget > 0 /\ budget' = budget - 1 /\ reading = NoBytes

(* The bus has left SE0: ATTACHED -> POWERED. *)
PowerUp ==
  /\ devState = "ATTACHED" /\ devState' = "POWERED"
  /\ UNCHANGED <<suspended, uep1, ep, rxBuf, txBuf, outputs, main, host, budget, fresh, hist>>

(***************************************************************************)
(* URSTIF: USBDeviceInit, then DEFAULT_STATE; a reset during suspend wakes *)
(* the module first.  The handles of the application are not touched.  The *)
(* host gives up what it was sending.                                      *)
(***************************************************************************)
BusReset ==
  /\ BusEvent /\ devState # "ATTACHED"
  /\ devState' = "DEFAULT" /\ suspended' = FALSE /\ uep1' = FALSE
  /\ bd' = ClearedBDT
  /\ pBDT' = [d \in Dirs |-> NULL]
  /\ sie' = [d \in Dirs |-> 0]
  /\ offer' = NoPacket /\ fresh' = FALSE /\ quiet' = FALSE
  /\ UNCHANGED <<handle, rxBuf, txBuf, outputs, main, nextId, hostTog, got, reading,
                 lastSet, lastReq, disturbed, overtaken>>

(* SET_ADDRESS, which hosts send before they configure, and its status     *)
(* stage, after which the address, 0 or not, is in force.  A host leaves a *)
(* device alone for 10 ms after a reset; a poll takes far less, so that it *)
(* is over when the first request comes.                                   *)
ResetRecovered == pc = "state"

SetAddress ==
  /\ ~suspended
  /\ \/ devState = "DEFAULT" /\ ResetRecovered /\ devState' = "ADR_PENDING"
     \/ devState = "ADDRESS" /\ devState' = "ADR_PENDING"
     \/ devState = "ADR_PENDING" /\ devState' \in {"ADDRESS", "DEFAULT"}
  /\ UNCHANGED <<suspended, uep1, ep, rxBuf, txBuf, outputs, main, host, budget, fresh, hist>>

(* SET_CONFIGURATION(0): endpoint 1 goes, its software pointers stay.  The *)
(* code tests no state; a host sends it once the device has an address.    *)
Unconfigure ==
  /\ BusEvent /\ ~suspended /\ devState \in {"ADDRESS", "CONFIGURED"}
  /\ devState' = "ADDRESS" /\ uep1' = FALSE
  /\ bd' = ClearedBDT /\ sie' = [d \in Dirs |-> 0]
  /\ offer' = NoPacket /\ fresh' = FALSE /\ quiet' = FALSE
  /\ UNCHANGED <<suspended, pBDT, handle, rxBuf, txBuf, outputs, main, nextId,
                 hostTog, got, reading, lastSet, lastReq, disturbed, overtaken>>

KeepsOldHandles ==
  /\ BusEvent /\ ~suspended /\ devState \in {"ADDRESS", "CONFIGURED"}
  /\ devState' = "CONFIGURED" /\ uep1' = TRUE
  /\ bd' = [d \in Dirs |-> [i \in PP |->
              [uown |-> d = "OUT" /\ i = 0, dts |-> i, stall |-> FALSE]]]
  /\ sie' = [d \in Dirs |-> 0]
  /\ pBDT' = [d \in Dirs |-> IF d = "OUT" THEN 1 ELSE 0]
  /\ hostTog' = [d \in Dirs |-> 0]
  /\ offer' = NoPacket /\ fresh' = FALSE /\ quiet' = FALSE
  /\ got' = NoReply /\ lastReq' = 0
  /\ disturbed' = (pc \notin Top)
  /\ lastSet' = IF pc = "copyin" THEN Mixed ELSE lastSet
  /\ UNCHANGED <<suspended, handle, rxBuf, txBuf, outputs, main, nextId, reading, overtaken>>

(***************************************************************************)
(* SET_CONFIGURATION(1): USBStdSetCfgHandler clears the table and calls    *)
(* APP_DeviceCustomHIDInitialize, which drops the IN handle, enables the   *)
(* endpoint (USBConfigureEndpoint: pointers to the even descriptors, DTS 0 *)
(* and 1) and arms OUT.  The host starts from DATA0 and a new session.     *)
(***************************************************************************)
Configure ==
  /\ BusEvent /\ ~suspended /\ devState \in {"ADDRESS", "CONFIGURED"}
  /\ devState' = "CONFIGURED" /\ uep1' = TRUE
  /\ bd' = [d \in Dirs |-> [i \in PP |->
              [uown |-> d = "OUT" /\ i = 0, dts |-> i, stall |-> FALSE]]]
  /\ sie' = [d \in Dirs |-> 0]
  /\ pBDT' = [d \in Dirs |-> IF d = "OUT" THEN 1 ELSE 0]
  /\ handle' = [d \in Dirs |-> IF d = "OUT" THEN 0 ELSE NULL]
  /\ hostTog' = [d \in Dirs |-> 0]
  /\ offer' = NoPacket /\ fresh' = FALSE /\ quiet' = FALSE
  /\ got' = NoReply /\ lastReq' = 0
  /\ disturbed' = (pc \notin Top)
  /\ lastSet' = IF pc = "copyin" THEN Mixed ELSE lastSet
  /\ UNCHANGED <<suspended, rxBuf, txBuf, outputs, main, nextId, reading, overtaken>>

(* USBSuspend on an idle bus, USBWakeFromSuspend on activity. *)
Suspend ==
  /\ BusEvent /\ devState # "ATTACHED" /\ ~suspended /\ suspended' = TRUE
  /\ UNCHANGED <<devState, uep1, ep, rxBuf, txBuf, outputs, main, host, fresh, hist>>
Resume ==
  /\ suspended /\ suspended' = FALSE
  /\ UNCHANGED <<devState, uep1, ep, rxBuf, txBuf, outputs, main, host, budget, fresh, hist>>

(***************************************************************************)
(* SET_FEATURE and CLEAR_FEATURE(ENDPOINT_HALT), USBStdFeatureReqHandler.  *)
(* Both first point pBDTEntry at the descriptor the SIE is looking at.     *)
(* CutsTransfer: the request falls between the UOWN bit and the pointer.   *)
(***************************************************************************)
CutsTransfer(d) == pc \in {"toggle", "write"} /\ xdir = d

HaltKeepsPointer(d) ==
  /\ BusEvent /\ ~suspended /\ devState = "CONFIGURED"
  /\ disturbed' = (disturbed \/ CutsTransfer(d))
  /\ lastReq' = IF d = "IN" THEN 0 ELSE lastReq
  /\ quiet' = (quiet /\ d # "OUT")
  /\ UNCHANGED <<device, pBDT, sie, handle, rxBuf, txBuf, outputs, main, offer, nextId,
                 got, reading, fresh, lastSet, overtaken>>

HaltRequest(d) ==
  /\ BusEvent /\ ~suspended /\ devState = "CONFIGURED"
  /\ pBDT' = [pBDT EXCEPT ![d] = sie[d]]
  /\ disturbed' = (disturbed \/ CutsTransfer(d))
  /\ lastReq' = IF d = "IN" THEN 0 ELSE lastReq     \* the reply is dropped
  /\ quiet' = (quiet /\ d # "OUT")
  /\ UNCHANGED <<device, sie, handle, rxBuf, txBuf, outputs, main, offer, nextId,
                 got, reading, fresh, lastSet, overtaken>>

SetHalt(d) ==
  /\ HaltRequest(d)
  /\ bd' = [bd EXCEPT ![d][sie[d]] = [@ EXCEPT !.uown = TRUE, !.stall = TRUE]]
  /\ UNCHANGED hostTog

ClearHalt(d) ==
  /\ HaltRequest(d)
  /\ bd' = [bd EXCEPT ![d][sie[d]] = NoBD,
                      ![d][1 - sie[d]] = [@ EXCEPT !.uown = FALSE, !.dts = 1]]
  /\ hostTog' = [hostTog EXCEPT ![d] = 0]

Isr ==
  \/ PowerUp \/ BusReset \/ SetAddress \/ Unconfigure \/ Configure
  \/ Suspend \/ Resume \/ \E d \in Dirs : SetHalt(d) \/ ClearHalt(d)

-----------------------------------------------------------------------------
(***************************************************************************)
(* The host and the SIE.  A token for a descriptor the SIE does not own is *)
(* NAKed and one for a stalled descriptor refused: the host tries again.   *)
(***************************************************************************)
HostOffer(c) ==
  /\ devState = "CONFIGURED" /\ offer = NoPacket /\ nextId <= MaxPackets
  /\ offer' = [id |-> nextId, cmd |-> c] /\ nextId' = nextId + 1
  /\ UNCHANGED <<device, ep, rxBuf, txBuf, outputs, main, hostTog, got, reading, budget, fresh, hist>>

CanMove(d) == /\ uep1 /\ ~suspended /\ Live(d, sie[d])
              /\ bd[d][sie[d]].dts = hostTog[d]

Moved(d) == /\ bd' = [bd EXCEPT ![d][sie[d]] = [@ EXCEPT !.uown = FALSE]]
            /\ sie' = [sie EXCEPT ![d] = 1 - @]
            /\ hostTog' = [hostTog EXCEPT ![d] = 1 - @]

(* One packet at a time is on the bus. *)
SieOut ==
  /\ reading = NoBytes
  /\ offer # NoPacket /\ CanMove("OUT") /\ Moved("OUT")
  /\ rxBuf' = offer /\ offer' = NoPacket /\ fresh' = TRUE /\ quiet' = TRUE
  /\ UNCHANGED <<device, pBDT, handle, txBuf, outputs, main, nextId, got, reading, budget,
                 lastSet, lastReq, disturbed, overtaken>>

(***************************************************************************)
(* The IN packet: the SIE reads the buffer in two pieces while it sends    *)
(* them, and UOWN stays set until the host has acknowledged the packet.    *)
(* Where the two are parted stands for any place; of a packet that has to  *)
(* be repeated only the last try is looked at, as each reads the buffer    *)
(* anew.                                                                   *)
(***************************************************************************)
SieReads(pieces) ==
  /\ CanMove("IN") /\ reading' = pieces
  /\ UNCHANGED <<device, ep, rxBuf, txBuf, outputs, main, offer, nextId, hostTog, got,
                 budget, fresh, hist>>

SieReadsHeader ==
  reading = NoBytes /\ SieReads([NoBytes EXCEPT !.hdr = txBuf.hdr])

SieReadsBody ==
  /\ reading.hdr # NotRead /\ reading.body = NotRead
  /\ SieReads([reading EXCEPT !.body = txBuf.body])

SieInAcknowledged ==
  /\ reading.body # NotRead
  /\ CanMove("IN") /\ Moved("IN")
  /\ got' = reading /\ reading' = NoBytes
  /\ UNCHANGED <<device, pBDT, handle, rxBuf, txBuf, outputs, main, offer, nextId,
                 budget, fresh, hist>>

SieIn == SieReadsHeader \/ SieReadsBody \/ SieInAcknowledged

Next == MainStep \/ Isr \/ (\E c \in Commands : HostOffer(c)) \/ SieOut \/ SieIn

(***************************************************************************)
(* The loop of main() never stops, and the host controller retries IN and  *)
(* OUT tokens in every frame.  Nothing makes the host send a packet, reset *)
(* the bus, or resume it.                                                  *)
(***************************************************************************)
Fairness == WF_vars(MainStep) /\ WF_vars(SieOut) /\ WF_vars(SieIn)

Spec == Init /\ [][Next]_vars
FairSpec == Spec /\ Fairness

-----------------------------------------------------------------------------
(***************************************************************************)
(* Properties.                                                             *)
(***************************************************************************)

(* Every variable has its type, and the main loop is never about to write  *)
(* through a null pointer that a bus reset let it toggle.                  *)
TypeOK ==
  /\ devState \in States /\ suspended \in BOOLEAN /\ uep1 \in BOOLEAN
  /\ bd \in Descriptors /\ pBDT \in [Dirs -> Pointers]
  /\ sie \in [Dirs -> PP] /\ handle \in [Dirs -> PP \cup {NULL}]
  /\ rxBuf \in Packet /\ txBuf \in Reply
  /\ reg \in Settings /\ chip \in Settings
  /\ rf \in BOOLEAN
  /\ pc \in Top \cup Handler \cup Transfer
  /\ next \in Pointers /\ (pc = "arm" => h # NULL)
  /\ xdir \in Dirs /\ h \in PP \cup {NULL} /\ idx \in 0 .. NumRegs - 1
  /\ offer \in Packet /\ nextId \in 1 .. MaxPackets + 1
  /\ hostTog \in [Dirs -> PP] /\ got \in Reply
  /\ reading \in Pieces
  /\ budget \in 0 .. MaxBusEvents
  /\ fresh \in BOOLEAN /\ quiet \in BOOLEAN /\ lastSet \in Ids \cup {Mixed}
  /\ lastReq \in Ids /\ disturbed \in BOOLEAN /\ overtaken \in BOOLEAN

Operational == devState = "CONFIGURED" /\ ~disturbed

(* While nothing has cut into a poll, the next descriptor the application  *)
(* arms is the next one the SIE uses, the one armed is the one its handle  *)
(* watches, and its data toggle is the host's: otherwise the endpoint NAKs *)
(* for ever.  Stated where no transfer is half armed.                      *)
EndpointInStep(d) ==
  LET s == sie[d] IN
  /\ ~bd[d][1 - s].uown
  /\ bd[d][s].dts = hostTog[d] /\ bd[d][1 - s].dts = 1 - hostTog[d]
  /\ IF Live(d, s) THEN pBDT[d] = 1 - s /\ handle[d] = s ELSE pBDT[d] = s

EndpointsInStep ==
  Operational /\ uep1 =>
    \A d \in Dirs : (pc \in Transfer \ {"load"} /\ xdir = d) \/ EndpointInStep(d)

(* The SIE may write ReceivedDataBuffer only while the main loop waits for *)
(* a packet: never while the handler reads it, and never over a packet     *)
(* that is still to be handled.                                            *)
ReceiveBufferOwned ==
  Operational /\ (pc \in Handler \/ fresh) => \A i \in PP : ~Live("OUT", i)

(* A packet the host was told is received is found by the next poll.       *)
ReceivedIsSeen ==
  Operational /\ fresh /\ pc \in Top => ~Busy(handle["OUT"], "OUT")

(* Whatever resets, repeats and replays there were, the synthesiser holds  *)
(* the registers of the SET_REG handled last, and never parts of two,      *)
(* unless SET_CONFIGURATION handed the buffer over in the middle of one.   *)
SynthHoldsOneSetting ==
  pc \in Top /\ lastSet # Mixed =>
    \A i \in 0 .. NumRegs - 1 : chip[i] = lastSet /\ reg[i] = lastSet

(* The handler writes ToSendDataBuffer before it looks whether the SIE     *)
(* still has it (app_device_custom_hid.c:141, 144).  Yet once the last     *)
(* request has been handled, its whole reply is what the host has read, or *)
(* will read, unless the host has halted the endpoint, or the SIE had      *)
(* begun to send the buffer before the reply was in it and had not ended   *)
(* when the handler looked: only then is the reply lost.                   *)
NewestReplyArrives ==
  Operational /\ pc \in Top /\ lastReq # 0 /\ ~bd["IN"][sie["IN"]].stall /\ ~overtaken =>
    LET due(reply) == reply.hdr.id = lastReq /\ reply.body.id = lastReq
    IN IF Live("IN", sie["IN"])
         THEN due(txBuf) /\ \A piece \in {reading.hdr, reading.body} :
                               piece.id \in {NotRead.id, lastReq}
         ELSE due(got)

(* A packet is handled once.  Only after the bus took the descriptors back *)
(* (reset, SET_CONFIGURATION, a halt request) can the loop take a buffer   *)
(* it has already handled for a new packet.                                *)
HandledOnce == pc = "switch" /\ quiet /\ ~disturbed => fresh

(* Every packet received is handled, unless the bus discards it or stops.  *)
ReceivedIsHandled ==
  (fresh /\ ~disturbed) ~> (~fresh \/ suspended \/ disturbed)

(* A packet offered is taken in the end: unless the host suspends or halts *)
(* the endpoint, the loop always re-arms OUT where the SIE looks for it.   *)
Refused == suspended \/ bd["OUT"][sie["OUT"]].stall
OfferIsTaken == (offer # NoPacket) ~> (offer = NoPacket \/ Refused \/ disturbed)
-----------------------------------------------------------------------------
(***************************************************************************)
(* What a comment of the code says, and the code does not do.              *)
(***************************************************************************)

(* "Re-arm the OUT endpoint, so we can receive the next OUT data packet    *)
(* that the host may try to send us": an offered packet is always taken in *)
(* the end, whatever control requests came before.                         *)
NextPacketIsTaken == (offer # NoPacket) ~> (offer = NoPacket \/ Refused)

(* "Echo back to the host PC the command we are fulfilling in the first    *)
(* byte" (app_device_custom_hid.c:140): in every reply the host reads, the *)
(* first byte is the command that the rest answers.                        *)
ReplyEchoesCommand == got.hdr.cmd = got.body.cmd
=============================================================================
