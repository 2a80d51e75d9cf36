----------------------------- MODULE UsbControl -----------------------------
(***************************************************************************)
(* Control transfers on endpoint 0: the host, the SIE with its ping-pong   *)
(* buffer descriptors and its USTAT queue, and the interrupt that serves   *)
(* one completed transaction after the other (USBCtrlEPService).           *)
(*                                                                         *)
(* The bytes of a reply are abstracted to the request they answer and      *)
(* their offset in it; a request to what the dispatch looks at.  What a    *)
(* SET request stores (idle rate, protocol, remote wake-up) is left out,   *)
(* except for the configuration and the address, which decide how later    *)
(* requests are answered.  No request of this firmware receives data       *)
(* (USBEP0Receive) or defers a stage (USBDeferStatusStage), so the         *)
(* branches for those are never taken and are left out.                    *)
(*                                                                         *)
(* A service routine runs with interrupts masked and is one action; the    *)
(* SIE and the host go on between two of them.                             *)
(***************************************************************************)
EXTENDS Integers, Sequences

CONSTANTS
  Requests,      \* the requests the host makes
  PacketSize,    \* USB_EP0_BUFF_SIZE
  Timeout,       \* USB_STATUS_STAGE_TIMEOUT, in frames
  MaxTransfers,  \* bound: requests made
  MaxFaults      \* bound: lost handshakes, transfers given up and bus resets

Names == {"GET_DESCRIPTOR", "SET_ADDRESS", "SET_CONFIGURATION", "GET_CONFIGURATION",
          "GET_STATUS", "CLEAR_FEATURE", "SET_FEATURE", "GET_INTERFACE", "SET_INTERFACE",
          "SET_DESCRIPTOR", "SYNCH_FRAME", "GET_REPORT", "SET_REPORT", "GET_IDLE",
          "SET_IDLE", "GET_PROTOCOL", "SET_PROTOCOL"}
What  == {"DEVICE", "CONFIGURATION", "STRING", "HID", "REPORT",   \* bDescriptorType
          "REMOTE_WAKEUP", "HALT", "NONE"}                        \* or bFeature
Request == [name : Names, type : {"std", "class"},
            recip : {"device", "interface", "endpoint"}, what : What,
            val : Nat,          \* wValue, low byte: an index, an address, a value
            in : BOOLEAN,       \* DataDir: device to host
            len : Nat]          \* wLength

ASSUME RequestsAssumption ==
  /\ Requests \subseteq Request
  /\ \A r \in Requests : r.in <=> r.name \in
       {"GET_DESCRIPTOR", "GET_CONFIGURATION", "GET_STATUS", "GET_INTERFACE",
        "SYNCH_FRAME", "GET_REPORT", "GET_IDLE", "GET_PROTOCOL"}
  /\ \A r \in Requests : r.name = "SET_ADDRESS" => r.len = 0
ASSUME PacketSizeAssumption == PacketSize \in {8, 16, 32, 64}
ASSUME BoundsAssumption == Timeout \in Nat /\ MaxTransfers \in Nat /\ MaxFaults \in Nat

VARIABLES
  bd,          \* BDT[EP0_OUT_EVEN .. EP0_IN_ODD]
  sie,         \* the SIE's ping-pong pointers
  fifo,        \* USTAT: transactions completed and not yet served
  pktdis,      \* UCON.PKTDIS, set by the SIE with a SETUP
  epstall,     \* UEP0.EPSTALL
  outCur, outNext, inPtr,  \* pBDTEntryEP0OutCurrent, ..OutNext, pBDTEntryIn[0]
  setup,       \* SetupPkt
  data,        \* CtrlTrfData: whose bytes, and from which offset on
  pipe,        \* inPipes[0]: where the next bytes come from, and how many are left
  short,       \* shortPacketStatus
  cts,         \* controlTransferState
  bothSet,     \* BothEP0OutUOWNsSet
  statusArmed, \* USBStatusStageEnabledFlag1 and 2
  timer,       \* USBStatusStageTimeoutCounter
  devState, cfg, addr,     \* USBDeviceState, USBActiveConfiguration, U1ADDR
  stage, req, due, moved,  \* the host's transfer, as in ControlPipe
  hTog,        \* the toggle the host expects next
  hAddr,       \* the address the host sends to
  mixed,       \* history: the host got bytes that were not the next of its reply
  transfers, faults        \* bounds

sieVars == <<sie, fifo, pktdis, epstall>>
ptrs    == <<outCur, outNext, inPtr>>
xfer    == <<data, pipe, short, cts, bothSet, statusArmed>>
dev     == <<devState, cfg, addr>>
host    == <<stage, req, due, moved, hTog, hAddr, mixed>>
bounds  == <<transfers, faults>>
vars    == <<bd, sieVars, ptrs, setup, xfer, timer, dev, host, bounds>>

Dirs == {"OUT", "IN"}
PP   == {0, 1}
Entry == [uown : BOOLEAN, stall : BOOLEAN, dts : PP, n : Nat, isSetup : BOOLEAN]
Idle  == [uown |-> FALSE, stall |-> FALSE, dts |-> 0, n |-> 0, isSetup |-> FALSE]
Clear == [d \in Dirs |-> [i \in PP |-> Idle]]
Armed(tog, k) == [Idle EXCEPT !.uown = TRUE, !.dts = tog, !.n = k]
Stalled       == [Idle EXCEPT !.uown = TRUE, !.stall = TRUE]   \* a SETUP still gets in

NoRequest == [name |-> "SYNCH_FRAME", type |-> "std", recip |-> "device",
              what |-> "NONE", val |-> 0, in |-> FALSE, len |-> 0]
Nothing   == [of |-> NoRequest, off |-> 0]
Refused   == -1
Smaller(a, b) == IF a < b THEN a ELSE b
States == {"POWERED", "DEFAULT", "ADR_PENDING", "ADDRESS", "CONFIGURED"}

-----------------------------------------------------------------------------
(***************************************************************************)
(* How much a request is answered with, or Refused: inPipes[0].wCount and  *)
(* whether a handler set inPipes[0].info.bits.busy.                        *)
(***************************************************************************)
StringLength == [i \in 0 .. 3 |-> IF i = 0 THEN 4 ELSE IF i = 1 THEN 44
                                  ELSE IF i = 2 THEN 26 ELSE 20]

Descriptor(s) ==                                         \* USBStdGetDscHandler
  CASE s.what = "DEVICE" -> 18
    [] s.what = "CONFIGURATION" /\ s.val < 1 -> 41       \* USB_MAX_NUM_CONFIG_DSC
    [] s.what = "STRING" /\ s.val < 4 -> StringLength[s.val]
    [] OTHER -> Refused

StatusLength == 2                                        \* USBStdGetStatusHandler

Feature(s) ==                                            \* USBStdFeatureReqHandler
  IF \/ s.what = "REMOTE_WAKEUP" /\ s.recip = "device"
     \/ s.what = "HALT" /\ s.recip = "endpoint" /\ devState = "CONFIGURED"
    THEN 0 ELSE Refused

Standard(s) ==                                           \* USBCheckStdRequest
  CASE s.type # "std" -> Refused
    [] s.name = "GET_DESCRIPTOR" -> IF s.recip = "device" THEN Descriptor(s) ELSE Refused
    [] s.name \in {"SET_ADDRESS", "SET_CONFIGURATION", "SET_INTERFACE"} -> 0
    [] s.name \in {"GET_CONFIGURATION", "GET_INTERFACE"} -> 1
    [] s.name = "GET_STATUS" -> StatusLength
    [] s.name \in {"SET_FEATURE", "CLEAR_FEATURE"} -> Feature(s)
    [] OTHER -> Refused

Hid(s) ==                                                \* USBCheckHIDRequest
  CASE s.recip # "interface" -> Refused
    [] s.name = "GET_DESCRIPTOR" /\ s.what = "HID" /\ cfg = 1 -> 9
    [] s.name = "GET_DESCRIPTOR" /\ s.what = "REPORT" -> 29
    [] s.type = "class" /\ s.name \in {"GET_IDLE", "GET_PROTOCOL"} -> 1
    [] s.type = "class" /\ s.name \in {"SET_IDLE", "SET_PROTOCOL"} -> 0
    [] OTHER -> Refused

Answer(s) == IF Standard(s) # Refused THEN Standard(s) ELSE Hid(s)

(* What the host may expect of a request: the answer, cut to what it asked *)
(* for.                                                                    *)
Due(r) == IF Answer(r) = Refused THEN Refused ELSE Smaller(Answer(r), r.len)

-----------------------------------------------------------------------------
(* After URSTIF: USBDeviceInit, which leaves the pointers of EP0 OUT and   *)
(* the state of the transfer alone.                                        *)
AfterReset ==
  /\ bd' = [Clear EXCEPT !["OUT"][0] = Stalled]
  /\ sie' = [d \in Dirs |-> 0] /\ fifo' = <<>> /\ pktdis' = FALSE /\ epstall' = FALSE
  /\ inPtr' = 0 /\ pipe' = [pipe EXCEPT !.left = 0] /\ statusArmed' = TRUE
  /\ devState' = "DEFAULT" /\ cfg' = 0 /\ addr' = 0
  /\ UNCHANGED <<outCur, outNext, setup, data, short, cts, bothSet, timer>>

(* The first reset has been served. *)
Init ==
  /\ bd = [Clear EXCEPT !["OUT"][0] = Stalled]
  /\ sie = [d \in Dirs |-> 0] /\ fifo = <<>> /\ pktdis = FALSE /\ epstall = FALSE
  /\ outCur = 0 /\ outNext = 0 /\ inPtr = 0
  /\ setup = NoRequest /\ data = Nothing
  /\ pipe = [of |-> NoRequest, off |-> 0, left |-> 0]
  /\ short = "NOT_USED" /\ cts = "WAIT_SETUP" /\ bothSet = FALSE /\ statusArmed = TRUE
  /\ timer = 0
  /\ devState = "DEFAULT" /\ cfg = 0 /\ addr = 0
  /\ stage = "idle" /\ req = NoRequest /\ due = 0 /\ moved = 0
  /\ hTog = 1 /\ hAddr = 0 /\ mixed = FALSE
  /\ transfers = 0 /\ faults = 0

-----------------------------------------------------------------------------
(***************************************************************************)
(* The interrupt: USBDeviceTasks takes the oldest completed transaction,   *)
(* USBCtrlEPService serves it and winds up the timeout.                    *)
(* A definition named after a slip (IgnoresRest, ...) is a plausible wrong *)
(* version of the one that follows it, kept to see that a property would   *)
(* notice; the specification does not use it.                              *)
(***************************************************************************)
Serve(dir, isSetup) ==
  /\ fifo # <<>> /\ Head(fifo).dir = dir
  /\ dir = "OUT" => bd["OUT"][Head(fifo).pp].isSetup = isSetup
  /\ fifo' = Tail(fifo) /\ timer' = Timeout
  /\ UNCHANGED <<epstall, host, bounds>>

(***************************************************************************)
(* USBCtrlTrfTxService: the bytes of the next IN packet go from the pipe   *)
(* to CtrlTrfData; the first packet that is not full is remembered, and    *)
(* the one after it says so.                                               *)
(***************************************************************************)
IgnoresRest(left) == PacketSize
NextCount(left) == Smaller(PacketSize, left)

NextShort(left, sh) ==
  IF left >= PacketSize THEN sh ELSE IF sh = "NOT_USED" THEN "PENDING" ELSE "SENT"

(* USBCtrlTrfSetupHandler, 1: what an unfinished transfer left armed. *)
Abandoned(cur) ==
  [bd EXCEPT !["IN"] = [i \in PP |-> [bd["IN"][i] EXCEPT !.uown = FALSE]],
             !["OUT"][1 - cur] = [@ EXCEPT !.uown = FALSE]]

(***************************************************************************)
(* USBCtrlEPAllowStatusStage: for a transfer to the host the descriptor    *)
(* that held the SETUP waits for the next one, the other for the empty OUT *)
(* packet; for a transfer to the device, an empty IN packet.               *)
(***************************************************************************)
ArmsStatusOnly(b, state, cur, nxt, i) ==
  IF state = "TX" THEN [b EXCEPT !["OUT"][nxt] = Armed(0, 0)]
                  ELSE [b EXCEPT !["IN"][i] = Armed(1, 0)]

ArmStatus(b, state, cur, nxt, i) ==
  IF state = "TX" THEN [b EXCEPT !["OUT"][cur] = Stalled, !["OUT"][nxt] = Armed(0, 0)]
                  ELSE [b EXCEPT !["IN"][i] = Armed(1, 0)]

(* USBCtrlEPServiceComplete: nobody knows the request, *)
Refusal(b, nxt, i) ==
  /\ bd' = [b EXCEPT !["OUT"][nxt] = Stalled, !["IN"][i] = Stalled]
  /\ cts' = "WAIT_SETUP" /\ short' = "NOT_USED" /\ bothSet' = FALSE
  /\ pipe' = [pipe EXCEPT !.left = 0]
  /\ UNCHANGED <<data, statusArmed>>

(* or it has a reply, whose first packet USBCtrlEPAllowDataStage arms,     *)
FirstPacket(b, i, all) == [b EXCEPT !["IN"][i] = Armed(1, NextCount(all))]

IgnoresLength(b, cur, nxt, i) ==
  LET all == Answer(setup) IN
  /\ bd' = ArmStatus(FirstPacket(b, i, all), "TX", cur, nxt, i)
  /\ data' = [of |-> setup, off |-> 0]
  /\ pipe' = [of |-> setup, off |-> NextCount(all), left |-> all - NextCount(all)]
  /\ short' = NextShort(all, "NOT_USED")
  /\ cts' = "TX" /\ bothSet' = TRUE /\ statusArmed' = TRUE

ReadTransfer(b, cur, nxt, i) ==
  LET all == Smaller(Answer(setup), setup.len) IN
  /\ bd' = ArmStatus(FirstPacket(b, i, all), "TX", cur, nxt, i)
  /\ data' = [of |-> setup, off |-> 0]
  /\ pipe' = [of |-> setup, off |-> NextCount(all), left |-> all - NextCount(all)]
  /\ short' = NextShort(all, "NOT_USED")
  /\ cts' = "TX" /\ bothSet' = TRUE /\ statusArmed' = TRUE

(* or it is done, and only its status is to be sent.                       *)
LeavesStatusToTimeout(b, cur, nxt, i) ==
  /\ bd' = [b EXCEPT !["OUT"][nxt] = Stalled]
  /\ pipe' = [pipe EXCEPT !.left = 0]
  /\ cts' = "RX" /\ short' = "NOT_USED" /\ bothSet' = FALSE /\ statusArmed' = FALSE
  /\ UNCHANGED data

NoDataTransfer(b, cur, nxt, i) ==
  /\ bd' = ArmStatus([b EXCEPT !["OUT"][nxt] = Stalled], "RX", cur, nxt, i)
  /\ pipe' = [pipe EXCEPT !.left = 0]
  /\ cts' = "RX" /\ short' = "NOT_USED" /\ bothSet' = FALSE /\ statusArmed' = TRUE
  /\ UNCHANGED data

IsStandard(name) == setup.type = "std" /\ setup.name = name

(* USBCtrlTrfSetupHandler for a request that leaves the descriptors alone. *)
ServeSetup ==
  /\ Serve("OUT", TRUE) /\ ~IsStandard("SET_CONFIGURATION")
  /\ LET cur == Head(fifo).pp IN
       /\ outCur' = cur /\ outNext' = 1 - cur
       /\ \/ Answer(setup) = Refused /\ Refusal(Abandoned(cur), 1 - cur, inPtr)
          \/ /\ Answer(setup) # Refused /\ setup.in
             /\ ReadTransfer(Abandoned(cur), cur, 1 - cur, inPtr)
          \/ /\ Answer(setup) # Refused /\ ~setup.in
             /\ NoDataTransfer(Abandoned(cur), cur, 1 - cur, inPtr)
  /\ devState' = IF IsStandard("SET_ADDRESS") THEN "ADR_PENDING" ELSE devState
  /\ pktdis' = FALSE
  /\ UNCHANGED <<sie, inPtr, setup, cfg, addr>>

(***************************************************************************)
(* SET_CONFIGURATION: USBStdSetCfgHandler empties the whole table and      *)
(* resets the ping-pong pointers in the middle of the transfer that asks   *)
(* for it, then its status stage is armed.                                 *)
(***************************************************************************)
KeepsPointers ==
  /\ Serve("OUT", TRUE) /\ IsStandard("SET_CONFIGURATION")
  /\ NoDataTransfer(Clear, 0, 0, inPtr)
  /\ sie' = [d \in Dirs |-> 0] /\ outCur' = 0 /\ outNext' = 0
  /\ cfg' = setup.val
  /\ devState' = IF setup.val = 0 THEN "ADDRESS" ELSE "CONFIGURED"
  /\ pktdis' = FALSE
  /\ UNCHANGED <<inPtr, setup, addr>>

ServeSetConfiguration ==
  /\ Serve("OUT", TRUE) /\ IsStandard("SET_CONFIGURATION")
  /\ NoDataTransfer(Clear, 0, 0, 0)
  /\ sie' = [d \in Dirs |-> 0] /\ outCur' = 0 /\ outNext' = 0 /\ inPtr' = 0
  /\ cfg' = setup.val
  /\ devState' = IF setup.val = 0 THEN "ADDRESS" ELSE "CONFIGURED"
  /\ pktdis' = FALSE
  /\ UNCHANGED <<setup, addr>>

(* USBCtrlTrfOutHandler: the status stage of a transfer to the host. *)
ServeOut ==
  /\ Serve("OUT", FALSE)
  /\ LET cur == Head(fifo).pp IN
       /\ outCur' = cur /\ outNext' = 1 - cur
       /\ bd' = IF bothSet THEN bd ELSE [bd EXCEPT !["OUT"][1 - cur] = Stalled]
  /\ cts' = "WAIT_SETUP" /\ bothSet' = FALSE
  /\ UNCHANGED <<sie, pktdis, inPtr, setup, data, pipe, short, statusArmed, dev>>

(* USBCtrlTrfInHandler: the address is taken over, and the next packet of  *)
(* the reply armed with the other toggle, or a stall after the short one.  *)
IgnoresZero ==
  IF devState = "ADR_PENDING" /\ setup.val % 128 # 0
    THEN addr' = setup.val % 128 /\ devState' = "ADDRESS" /\ UNCHANGED cfg
    ELSE devState' = (IF devState = "ADR_PENDING" THEN "DEFAULT" ELSE devState)
         /\ UNCHANGED <<cfg, addr>>

TakeAddress ==
  IF devState = "ADR_PENDING"
    THEN /\ addr' = setup.val % 128
         /\ devState' = IF addr' # 0 THEN "ADDRESS" ELSE "DEFAULT"
         /\ UNCHANGED cfg
    ELSE UNCHANGED dev

SameToggle(tog) == tog
OtherToggle(tog) == 1 - tog

ServeIn ==
  /\ Serve("IN", FALSE)
  /\ inPtr' = 1 - inPtr
  /\ TakeAddress
  /\ \/ /\ cts = "TX"
        /\ data' = [of |-> pipe.of, off |-> pipe.off]
        /\ short' = NextShort(pipe.left, short)
        /\ LET k == NextCount(pipe.left) IN
             /\ pipe' = [pipe EXCEPT !.off = @ + k, !.left = @ - k]
             /\ bd' = [bd EXCEPT !["IN"][1 - inPtr] =
                         IF short' = "SENT" THEN Stalled
                         ELSE Armed(OtherToggle(bd["IN"][inPtr].dts), k)]
        /\ UNCHANGED cts
     \/ /\ cts # "TX" /\ cts' = "WAIT_SETUP"
        /\ UNCHANGED <<bd, data, short, pipe>>
  /\ UNCHANGED <<sie, pktdis, outCur, outNext, setup, bothSet, statusArmed>>

(* A start of frame counts the timeout down; at zero, and once more with   *)
(* every frame after that, the status stage is armed if it is not yet.     *)
StartOfFrame ==
  /\ timer' = IF timer > 0 THEN timer - 1 ELSE 0
  /\ IF timer' = 0 /\ ~statusArmed
       THEN /\ bd' = ArmStatus(bd, cts, outCur, outNext, inPtr)
            /\ statusArmed' = TRUE /\ bothSet' = (cts = "TX")
       ELSE UNCHANGED <<bd, statusArmed, bothSet>>
  /\ UNCHANGED <<sieVars, ptrs, setup, data, pipe, short, cts, dev, host, bounds>>

(* USBStallHandler. *)
StallInterrupt ==
  /\ epstall /\ epstall' = FALSE
  /\ bd' = IF bd["OUT"][outCur] = Armed(0, 0) /\ bd["IN"][inPtr] = Stalled
             THEN [bd EXCEPT !["OUT"][outCur] = Stalled] ELSE bd
  /\ UNCHANGED <<sie, fifo, pktdis, ptrs, setup, xfer, timer, dev, host, bounds>>

Interrupt == ServeSetup \/ ServeSetConfiguration \/ ServeOut \/ ServeIn

-----------------------------------------------------------------------------
(***************************************************************************)
(* The SIE and the host.  A token is answered only at the address in       *)
(* force, from an armed descriptor, while packets are enabled and the      *)
(* USTAT queue has room.                                                   *)
(***************************************************************************)
Reached(d) ==
  /\ hAddr = addr /\ ~pktdis /\ Len(fifo) < 4
  /\ bd[d][sie[d]].uown

Completed(d, isSetup) ==
  /\ bd' = [bd EXCEPT ![d][sie[d]] = [@ EXCEPT !.uown = FALSE, !.isSetup = isSetup]]
  /\ fifo' = Append(fifo, [dir |-> d, pp |-> sie[d]])
  /\ sie' = [sie EXCEPT ![d] = 1 - @]

Untouched == <<epstall, ptrs, xfer, timer, dev, hAddr>>

(* SETUP ends whatever transfer there was: the SIE takes it even from a    *)
(* stalled descriptor, and then no other packet until the firmware says so.*)
HostSetup(r) ==
  /\ Reached("OUT")
  /\ transfers < MaxTransfers /\ transfers' = transfers + 1
  /\ IF stage \in {"data", "status", "repeat"}
       THEN faults < MaxFaults /\ faults' = faults + 1 ELSE UNCHANGED faults
  /\ Completed("OUT", TRUE) /\ pktdis' = TRUE /\ setup' = r
  /\ req' = r /\ due' = Due(r) /\ moved' = 0 /\ hTog' = 1
  /\ stage' = IF r.len > 0 THEN "data" ELSE "status"
  /\ UNCHANGED <<Untouched, mixed>>

Stall ==
  /\ stage' = "failed" /\ epstall' = TRUE
  /\ UNCHANGED <<bd, sie, fifo, pktdis, ptrs, setup, xfer, timer, dev,
                 req, due, moved, hTog, hAddr, mixed, bounds>>

(* The host's acknowledgement of an IN packet may be lost: the SIE then    *)
(* keeps the descriptor and sends the packet again.                        *)
Acknowledged(d, seen) ==
  IF seen THEN Completed(d, FALSE) /\ UNCHANGED faults
  ELSE faults < MaxFaults /\ faults' = faults + 1 /\ UNCHANGED <<bd, fifo, sie>>

HostReads(seen) ==
  LET e == bd["IN"][sie["IN"]] IN
  /\ stage = "data" /\ req.in /\ Reached("IN") /\ ~e.stall
  /\ Acknowledged("IN", seen)
  /\ IF e.dts # hTog THEN UNCHANGED <<stage, moved, hTog, mixed>>   \* a repetition
     ELSE /\ hTog' = 1 - hTog
          /\ moved' = moved + e.n
          /\ mixed' = \/ mixed
                      \/ moved' > req.len
                      \/ e.n > 0 /\ data # [of |-> req, off |-> moved]
          /\ stage' = IF moved' >= req.len \/ e.n < PacketSize THEN "status" ELSE "data"
  /\ UNCHANGED <<Untouched, pktdis, setup, req, due, transfers>>

HostStopsReading ==
  /\ stage = "data" /\ req.in /\ faults < MaxFaults /\ faults' = faults + 1
  /\ stage' = "status"
  /\ UNCHANGED <<bd, sieVars, ptrs, setup, xfer, timer, dev, req, due, moved,
                 hTog, hAddr, mixed, transfers>>

(* The status stage of a transfer to the device; an address is used from   *)
(* then on.                                                                *)
HostReadsStatus(seen) ==
  LET e == bd["IN"][sie["IN"]] IN
  /\ stage = "status" /\ ~(req.in /\ req.len > 0) /\ Reached("IN") /\ ~e.stall
  /\ Acknowledged("IN", seen)
  /\ stage' = "done" /\ mixed' = (mixed \/ e.n > 0 \/ e.dts # 1)
  /\ hAddr' = IF req.name = "SET_ADDRESS" THEN req.val ELSE hAddr
  /\ UNCHANGED <<epstall, ptrs, xfer, timer, dev, pktdis, setup, req, due, moved, hTog,
                 transfers>>

(* The status stage of a transfer to the host.  The SIE's acknowledgement  *)
(* may be lost, and the host repeats the packet.                           *)
HostSendsStatus(seen) ==
  /\ stage \in {"status", "repeat"} /\ req.in /\ req.len > 0
  /\ Reached("OUT") /\ ~bd["OUT"][sie["OUT"]].stall
  /\ Completed("OUT", FALSE)
  /\ IF seen THEN stage' = "done" /\ UNCHANGED faults
     ELSE stage' = "repeat" /\ faults < MaxFaults /\ faults' = faults + 1
  /\ UNCHANGED <<Untouched, pktdis, setup, req, due, moved, hTog, mixed, transfers>>

(* Any of these tokens may find the endpoint stalled, and the first OUT    *)
(* packet of a request that no handler takes data for always does.         *)
HostIsStalled ==
  \/ /\ \/ stage = "data" /\ req.in
        \/ stage = "status" /\ ~(req.in /\ req.len > 0)
     /\ Reached("IN") /\ bd["IN"][sie["IN"]].stall /\ Stall
  \/ /\ \/ stage = "data" /\ ~req.in
        \/ stage \in {"status", "repeat"} /\ req.in /\ req.len > 0
     /\ Reached("OUT") /\ bd["OUT"][sie["OUT"]].stall /\ Stall

(* URSTIF.  What the host was doing is over. *)
BusReset ==
  /\ faults < MaxFaults /\ faults' = faults + 1
  /\ AfterReset
  /\ stage' = "idle" /\ req' = NoRequest /\ due' = 0 /\ moved' = 0 /\ hTog' = 1 /\ hAddr' = 0
  /\ UNCHANGED <<mixed, transfers>>

HostStep ==
  \/ HostReads(TRUE) \/ HostReadsStatus(TRUE) \/ HostSendsStatus(TRUE) \/ HostIsStalled

Next ==
  \/ ServeSetup \/ ServeSetConfiguration \/ ServeOut \/ ServeIn
  \/ StartOfFrame \/ StallInterrupt
  \/ \E r \in Requests : HostSetup(r)
  \/ \E seen \in BOOLEAN : HostReads(seen) \/ HostReadsStatus(seen) \/ HostSendsStatus(seen)
  \/ HostStopsReading \/ HostIsStalled \/ BusReset

(***************************************************************************)
(* The interrupt comes when there is something to serve, and a host goes   *)
(* on with the transfer it has begun; nothing makes it begin one.          *)
(***************************************************************************)
Fairness == WF_vars(Interrupt) /\ WF_vars(HostStep)
Spec == Init /\ [][Next]_vars /\ Fairness

-----------------------------------------------------------------------------
(* Every variable keeps its type. *)
TypeOK ==
  /\ bd \in [Dirs -> [PP -> Entry]]
  /\ sie \in [Dirs -> PP] /\ fifo \in Seq([dir : Dirs, pp : PP])
  /\ pktdis \in BOOLEAN /\ epstall \in BOOLEAN
  /\ outCur \in PP /\ outNext \in PP /\ inPtr \in PP
  /\ setup \in Request /\ req \in Request
  /\ data \in [of : Request, off : Nat] /\ pipe \in [of : Request, off : Nat, left : Nat]
  /\ short \in {"NOT_USED", "PENDING", "SENT"} /\ cts \in {"WAIT_SETUP", "TX", "RX"}
  /\ bothSet \in BOOLEAN /\ statusArmed \in BOOLEAN
  /\ timer \in 0 .. Timeout
  /\ devState \in States /\ cfg \in Nat /\ addr \in 0 .. 127
  /\ stage \in {"idle", "data", "status", "repeat", "done", "failed"}
  /\ due \in Nat \cup {Refused} /\ moved \in Nat
  /\ hTog \in PP /\ hAddr \in Nat /\ mixed \in BOOLEAN
  /\ transfers \in 0 .. MaxTransfers /\ faults \in 0 .. MaxFaults

(***************************************************************************)
(* Once everything has been served, the device takes the next SETUP,       *)
(* whatever was given up, lost or reset before: no order of the re-arming  *)
(* in the handlers leaves the host without an endpoint 0                   *)
(* (usb_device.c:1627, 1970, 2465).                                        *)
(***************************************************************************)
ReadyForSetup == fifo = <<>> => ~pktdis /\ bd["OUT"][sie["OUT"]].uown

(***************************************************************************)
(* The firmware and the SIE agree which IN buffer is next: the firmware's  *)
(* pointer lags by the one transaction it has not served, also across a    *)
(* reset of the ping-pong pointers in SET_CONFIGURATION and on the bus.    *)
(***************************************************************************)
PointersInStep ==
  sie["IN"] = IF \E i \in DOMAIN fifo : fifo[i].dir = "IN" THEN 1 - inPtr ELSE inPtr

(***************************************************************************)
(* A host never reads a byte that is not the next one of the reply to its  *)
(* own request, though all replies go through the one CtrlTrfData.         *)
(***************************************************************************)
NothingMixed == ~mixed

(***************************************************************************)
(* When the status stage of a SET_ADDRESS is over for the host and the     *)
(* device has taken an address, it is the one the host goes on to use: no  *)
(* SETUP can take SetupPkt from between the two (usb_device.c:2604-2616    *)
(* reads the address only with the interrupt that follows).                *)
(***************************************************************************)
AddressesAgree ==
  stage = "done" /\ req.type = "std" /\ req.name = "SET_ADDRESS" /\ devState # "ADR_PENDING"
    => addr = hAddr % 128

(***************************************************************************)
(* Endpoint 0 implements the control pipe.  The pipe's promise that a      *)
(* transfer ends holds as long as the host can reach the device: when a    *)
(* SET_ADDRESS was given up, the first IN packet of any other transfer     *)
(* makes the device take an address from that transfer's SETUP, although   *)
(* usb_device.c:2602 finds it evident that the status stage of the         *)
(* SET_ADDRESS has completed; then only a reset helps.                     *)
(***************************************************************************)
Pipe == INSTANCE ControlPipe
PipeSpec == /\ Pipe!Init /\ [][Pipe!Next]_(Pipe!vars)
            /\ <>[](hAddr # addr) \/ WF_(Pipe!vars)(Pipe!Answer)
=============================================================================
