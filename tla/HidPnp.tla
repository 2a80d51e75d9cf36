------------------------------- MODULE HidPnp -------------------------------
(***************************************************************************)
(* The desktop application's link to the signal generators: HID_PnP, which *)
(* sends the commands that are pending and reads replies on a timer, and   *)
(* the part of the window (USBIOBoard) that talks to it: the selection of  *)
(* a device, the requests waiting in the window and what update_gui hands  *)
(* over.  Both live in one thread: slots and timers run one at a time, but *)
(* update_gui runs in the middle of a poll, by HID_PnP's signal.           *)
(*                                                                         *)
(* A poll is split at its calls of HIDAPI, because the devices and         *)
(* HIDAPI's read thread go on meanwhile; pc is the call to be made next.   *)
(* A device takes one packet at a time and has one buffer for replies; the *)
(* read thread appends what the device sends to a queue.                   *)
(*                                                                         *)
(* Register settings, macros and RF states are numbered or Boolean values; *)
(* the layout of the packets, the texts shown and the lengths of the timer *)
(* periods are left out.                                                   *)
(*                                                                         *)
(* A definition named for a mistake (LeavesRfPending, NeverDrops, ...) is  *)
(* what the code next to it must not be; no specification uses it.         *)
(***************************************************************************)
EXTENDS Integers, FiniteSets, Sequences

CONSTANTS
  Devices,     \* serial numbers of the generators
  AutoTx,      \* whether the box "automatically send register updates" is set
  Requests,    \* the requests the user makes, a part of Clicks
  MaxClicks,   \* bound: user actions
  MaxFaults,   \* bound: devices unplugged or plugged in, and writes that fail
  QueueLimit,  \* reports HIDAPI's queue holds: 32 in the code
  PollRatio,   \* at least so many connected polls between two slow_read timeouts
  Prompt       \* whether replies are fetched before the next packet or poll

Nothing  == -1      \* the empty string: no device selected yet
NoDevice == 0       \* the list entry "No Device Found"

Clicks  == {"flash", "identify", "erase", "serial", "macro"}
Pending == {"reg", "rf", "ctrl", "serial", "macro", "erase", "info", "status"}
Stages  == Pending \cup {"macro1", "readinfo", "readstatus", "reply"}

ASSUME DevicesAssumption == Devices \subseteq Nat \ {0} /\ IsFiniteSet(Devices)
ASSUME AutoTxAssumption == AutoTx \in BOOLEAN
ASSUME RequestsAssumption == Requests \subseteq Clicks
ASSUME LimitsAssumption ==
  /\ MaxClicks \in Nat /\ MaxFaults \in Nat
  /\ QueueLimit \in Nat \ {0} /\ PollRatio \in Nat /\ Prompt \in BOOLEAN

VARIABLES
  ui,        \* ui_data, the UI_Data of HID_PnP
  board,     \* the members of USBIOBoard that update_gui exchanges with it
  pc,        \* the HIDAPI call the poll makes next, or "idle"
  buf,       \* the report in buf when the poll looks at it, or NoReport
  link,      \* the device that is open, or Nothing
  alive,     \* link has not been unplugged since it was opened
  queue,     \* reports the read thread of the open device has received
  polls,     \* connected polls since slow_read last ran, up to PollRatio
  attached,  \* devices plugged in
  dev,       \* per device: its outputs, the packet it handles, its reply
  clicks, faults,    \* bounds used up
  \* history variables
  intent,    \* the RF state asked for last: by the user, a sweep or a macro
  torn       \* devices to which half a macro was sent

vars == <<ui, board, pc, buf, link, alive, queue, polls, attached, dev,
          clicks, faults, intent, torn>>
outside == <<polls, attached, clicks, faults, intent>>   \* not of a HIDAPI call
usb     == <<pc, buf, link, alive, queue, polls, attached, dev, faults, torn>>

Entries == Devices \cup {NoDevice}
Names   == Entries \cup {Nothing}
Ids   == 0 .. MaxClicks
NoReport == [kind |-> "none", rf |-> FALSE]
Report  == [kind : {"status", "info", "none"}, rf : BOOLEAN]
Packet  == [cmd : Pending \cup {"macro1", "none"}, id : Ids, rf : BOOLEAN]
NoPacket == [cmd |-> "none", id |-> 0, rf |-> FALSE]
Device  == [reg : Ids, rf : BOOLEAN, macro : Ids \X Ids, mail : Packet, reply : Report]

UIData ==
  [isConnected : BOOLEAN, pending : SUBSET Pending, reg : Ids, RF_OUT : BOOLEAN,
   macro : Ids, selected : Names, isSelectedDeviceChange : BOOLEAN,
   isDeviceChangeDone : BOOLEAN, list : SUBSET Entries, last_list : SUBSET Entries,
   isDeviceListChanged : BOOLEAN]
Board ==
  [isDeviceConnected : BOOLEAN, selected : Names, isSelectedDeviceChange : BOOLEAN,
   list : SUBSET Entries, clicked : SUBSET Clicks, macro : Ids]

(***************************************************************************)
(* A device starts with whatever its flash says.  Nothing initialises the  *)
(* window's isSelctedDeviceChange.                                         *)
(***************************************************************************)
Fresh(rf) == [reg |-> 0, rf |-> rf, macro |-> <<0, 0>>, mail |-> NoPacket, reply |-> NoReport]

Init ==
  /\ ui = [isConnected |-> FALSE, pending |-> {"rf", "info", "status"}, reg |-> 0,
           RF_OUT |-> FALSE, macro |-> 0, selected |-> Nothing,
           isSelectedDeviceChange |-> FALSE, isDeviceChangeDone |-> FALSE,
           list |-> {}, last_list |-> {}, isDeviceListChanged |-> FALSE]
  /\ \E b \in BOOLEAN :
       board = [isDeviceConnected |-> FALSE, selected |-> Nothing,
                isSelectedDeviceChange |-> b, list |-> {}, clicked |-> {}, macro |-> 0]
  /\ pc = "idle" /\ buf = NoReport /\ link = Nothing /\ alive = FALSE
  /\ queue = <<>> /\ polls = PollRatio
  /\ attached \in SUBSET Devices
  /\ dev \in [Devices -> {Fresh(rf) : rf \in BOOLEAN}]
  /\ clicks = 0 /\ faults = 0
  /\ intent = FALSE /\ torn = {}

-----------------------------------------------------------------------------
(***************************************************************************)
(* update_gui(isConnected, ui_data), in the order of the code: what becomes*)
(* of the window's half (b) and of ui_data (u).                            *)
(***************************************************************************)
First(list) == CHOOSE n \in list : \A m \in list : n <= m    \* the list is sorted

(* The selection: the first of a changed list that lost the selected one.  *)
Reselected(u, b) ==
  IF u.isDeviceListChanged /\ b.selected \notin u.list
    THEN [b EXCEPT !.list = u.list, !.selected = First(u.list),
                   !.isSelectedDeviceChange = TRUE]
    ELSE [b EXCEPT !.list = u.list]

(* The window's flag falls when HID_PnP reports the change done.           *)
DropsChange(u, b) ==
  LET r == Reselected(u, b)
  IN [r EXCEPT !.isDeviceConnected = u.isConnected, !.clicked = {},
               !.isSelectedDeviceChange = FALSE]
BoardAfter(u, b) ==
  LET r == Reselected(u, b)
  IN [r EXCEPT !.isDeviceConnected = u.isConnected, !.clicked = {},
               !.isSelectedDeviceChange = @ /\ ~u.isDeviceChangeDone]

(* A change done asks for the RF state, and recalculates: with automatic   *)
(* transmission that sends the registers again.                            *)
UIAfter(u, b) ==
  LET r == Reselected(u, b)
      asked == (IF u.isConnected THEN {} ELSE {"status", "info"})
               \cup (IF u.isDeviceChangeDone THEN {"status"} ELSE {})
               \cup (IF u.isDeviceChangeDone /\ AutoTx THEN {"reg"} ELSE {})
               \cup (IF {"flash", "identify"} \cap b.clicked # {} THEN {"ctrl"} ELSE {})
               \cup ({"erase", "serial", "macro"} \cap b.clicked)
  IN [u EXCEPT !.pending = @ \cup asked,
               !.selected = r.selected,
               !.isSelectedDeviceChange = r.isSelectedDeviceChange,
               !.isDeviceChangeDone = FALSE,
               !.macro = IF "macro" \in b.clicked THEN b.macro ELSE @]

Update(u) == ui' = UIAfter(u, board) /\ board' = BoardAfter(u, board)

-----------------------------------------------------------------------------
(***************************************************************************)
(* PollUSB.  Every stage but the first is a call of hid_write or hid_read. *)
(***************************************************************************)
Order == <<"reg", "rf", "ctrl", "serial", "macro", "erase", "info", "status">>

(* the stage of the first pending flag tested from the i-th on *)
From(i, u) ==
  LET due == {j \in i .. Len(Order) : Order[j] \in u.pending}
  IN IF due = {} THEN "reply" ELSE Order[CHOOSE j \in due : \A k \in due : j <= k]
After(stage, u) == From(1 + CHOOSE i \in DOMAIN Order : Order[i] = stage, u)

(* CloseDevice, with ui_data and the window as they are by then: the queue *)
(* goes with the handle, and update_gui runs.  ui' is left to the caller.  *)
Cleared(u) == [u EXCEPT !.isConnected = FALSE, !.selected = Nothing]
CloseDevice(u, b) ==
  /\ link' = Nothing /\ alive' = FALSE /\ queue' = <<>>
  /\ pc' = "idle" /\ buf' = NoReport
  /\ board' = BoardAfter(Cleared(u), b)

(* Not connected: tell the window, and open the device it has selected.    *)
PollClosed ==
  /\ pc = "idle" /\ ~ui.isConnected
  /\ board' = BoardAfter(ui, board)
  /\ LET u == UIAfter(ui, board) IN
     \/ /\ u.selected \in attached                          \* hid_open succeeds
        /\ link' = u.selected /\ alive' = TRUE /\ polls' = PollRatio
        /\ ui' = [u EXCEPT !.isConnected = TRUE, !.isSelectedDeviceChange = FALSE]
        /\ UNCHANGED faults
     \/ /\ u.selected \in attached => faults < MaxFaults
        /\ faults' = IF u.selected \in attached THEN faults + 1 ELSE faults
        /\ ui' = u
        /\ UNCHANGED <<link, alive, polls>>
  /\ UNCHANGED <<pc, buf, queue, attached, dev, clicks, intent, torn>>

(* Another device was selected: close this one; the next poll opens it.    *)
NeverReportsChange ==
  /\ pc = "idle" /\ ui.isConnected /\ ui.isSelectedDeviceChange
  /\ CloseDevice(ui, board)
  /\ ui' = [UIAfter(Cleared(ui), board) EXCEPT !.isSelectedDeviceChange = FALSE]
  /\ UNCHANGED <<dev, outside, torn>>
PollSwitches ==
  /\ pc = "idle" /\ ui.isConnected /\ ui.isSelectedDeviceChange
  /\ CloseDevice(ui, board)
  /\ ui' = [UIAfter(Cleared(ui), board) EXCEPT !.isSelectedDeviceChange = FALSE,
                                               !.isDeviceChangeDone = TRUE]
  /\ UNCHANGED <<dev, outside, torn>>

(* A device is prompt if it has answered, and HIDAPI has the reply, when   *)
(* the application sends it the next packet or starts the next poll.       *)
Answered == alive => dev[link].mail = NoPacket /\ dev[link].reply = NoReport

PollStarts ==
  /\ pc = "idle" /\ ui.isConnected /\ ~ui.isSelectedDeviceChange
  /\ Prompt => Answered
  /\ pc' = From(1, ui)
  /\ polls' = IF polls < PollRatio THEN polls + 1 ELSE polls
  /\ UNCHANGED <<ui, board, buf, link, alive, queue, attached, dev, clicks, faults, intent, torn>>

(* hid_write: the packet p is with the device, and the poll goes on; or it *)
(* fails, and the poll ends.  u and b: what the stage made of the data.    *)
Written(p, u, b, next) ==
  /\ alive /\ dev[link].mail = NoPacket /\ (Prompt => Answered)
  /\ dev' = [dev EXCEPT ![link].mail = p]
  /\ ui' = u /\ board' = b /\ pc' = next
  /\ UNCHANGED <<buf, link, alive, queue, outside>>
WriteFails(u, b) ==
  /\ alive => faults < MaxFaults
  /\ faults' = IF alive THEN faults + 1 ELSE faults
  /\ CloseDevice(u, b) /\ ui' = UIAfter(Cleared(u), b)
  /\ UNCHANGED <<polls, attached, dev, clicks, intent>>
Write(p, u, b, next) == (Written(p, u, b, next) \/ WriteFails(u, b)) /\ UNCHANGED torn

Done(stage) == [ui EXCEPT !.pending = @ \ {stage}]
Command(c) == [NoPacket EXCEPT !.cmd = c]

WriteReg ==
  /\ pc = "reg"
  /\ Write([Command("reg") EXCEPT !.id = ui.reg], Done("reg"), board, After("reg", ui))

LeavesRfPending ==
  /\ pc = "rf"
  /\ Write([Command("rf") EXCEPT !.rf = ui.RF_OUT], ui, board, After("rf", ui))

WriteRf ==
  /\ pc = "rf"
  /\ Write([Command("rf") EXCEPT !.rf = ui.RF_OUT], Done("rf"), board, After("rf", ui))

(* DEVICE_CTRL (flash, identify), the serial number and the erasure take   *)
(* the latest from the window first: DEVICE_CTRL and the erasure after     *)
(* they clear their flag, the serial number before.                        *)
WriteLatest ==
  /\ pc \in {"ctrl", "erase", "serial"}
  /\ LET b == BoardAfter(IF pc = "serial" THEN ui ELSE Done(pc), board)
         u == IF pc = "serial"
                THEN [UIAfter(ui, board) EXCEPT !.pending = @ \ {"serial"}]
                ELSE UIAfter(Done(pc), board)
     IN Write(Command(pc), u, b, After(pc, u))

WriteMacro0 ==
  /\ pc = "macro"
  /\ Write([Command("macro") EXCEPT !.id = ui.macro], Done("macro"), board, "macro1")

TakesLatestMacro ==
  /\ pc = "macro1"
  /\ LET u == UIAfter(ui, board)
         p == [Command("macro1") EXCEPT !.id = u.macro]
     IN \/ Written(p, u, BoardAfter(ui, board), After("macro", u)) /\ torn' = torn \ {link}
        \/ WriteFails(ui, board) /\ torn' = torn \cup {link}

WriteMacro1 ==
  /\ pc = "macro1"
  /\ LET p == [Command("macro1") EXCEPT !.id = ui.macro]
     IN \/ Written(p, ui, board, After("macro", ui)) /\ torn' = torn \ {link}
        \/ WriteFails(ui, board) /\ torn' = torn \cup {link}

WriteRequest ==
  \/ pc = "info" /\ Write(Command("info"), ui, board, "readinfo")
  \/ pc = "status" /\ Write(Command("status"), ui, board, "readstatus")

(* hid_read does not wait: the oldest report in the queue, or none, or an  *)
(* error once the read thread has seen the device go.                      *)
Read ==
  /\ pc \in {"readinfo", "readstatus"}
  /\ \/ /\ buf' = IF queue = <<>> THEN NoReport ELSE Head(queue)
        /\ queue' = IF queue = <<>> THEN <<>> ELSE Tail(queue)
        /\ pc' = IF pc = "readinfo" THEN After("info", ui) ELSE "reply"
        /\ UNCHANGED <<ui, board, link, alive>>
     \/ /\ queue = <<>> /\ ~alive
        /\ CloseDevice(ui, board) /\ ui' = UIAfter(Cleared(ui), board)
  /\ UNCHANGED <<dev, outside, torn>>

(* The last report read, whatever request it answers.                      *)
TellsNobody ==
  /\ pc = "reply" /\ pc' = "idle" /\ buf' = NoReport
  /\ ui' = CASE buf.kind = "status" -> [Done("status") EXCEPT !.RF_OUT = buf.rf]
             [] buf.kind = "info" -> Done("info")
             [] OTHER -> ui
  /\ UNCHANGED <<board, link, alive, queue, dev, outside, torn>>
Reply ==
  /\ pc = "reply" /\ pc' = "idle" /\ buf' = NoReport
  /\ LET told == IF buf.kind = "status" THEN [Done("status") EXCEPT !.RF_OUT = buf.rf]
                                        ELSE Done("info")
     IN IF buf.kind = "none" THEN UNCHANGED <<ui, board>> ELSE Update(told)
  /\ UNCHANGED <<link, alive, queue, dev, outside, torn>>

PollUSB ==
  \/ PollClosed \/ PollSwitches \/ PollStarts \/ WriteReg \/ WriteRf \/ WriteLatest
  \/ WriteMacro0 \/ WriteMacro1 \/ WriteRequest \/ Read \/ Reply

-----------------------------------------------------------------------------
(***************************************************************************)
(* The other timers.                                                       *)
(***************************************************************************)
(* A device that is open is not found, and is listed nevertheless.         *)
Listed ==
  LET seen == IF alive THEN attached \ {link} ELSE attached
  IN IF ui.isConnected THEN seen \cup {ui.selected}
     ELSE IF seen = {} THEN {NoDevice} ELSE seen

FindUSBDevices ==
  /\ pc = "idle" /\ ~(ui.isSelectedDeviceChange /\ ui.isConnected)
  /\ LET found == [ui EXCEPT !.list = Listed, !.isDeviceListChanged = (Listed # ui.last_list)]
     IN /\ board' = IF found.isDeviceListChanged THEN BoardAfter(found, board) ELSE board
        /\ ui' = [IF found.isDeviceListChanged THEN UIAfter(found, board) ELSE found
                    EXCEPT !.last_list = Listed]
  /\ UNCHANGED <<usb, clicks, intent>>

(* slow_read_timeout, every 500 ms: a connected poll comes every 15 ms.    *)
ReadsInfoOnly ==
  /\ pc = "idle" /\ (ui.isConnected => polls >= PollRatio)
  /\ polls' = 0
  /\ ui' = [ui EXCEPT !.pending = @ \cup {"info"}]
  /\ UNCHANGED <<board, pc, buf, link, alive, queue, attached, dev, clicks, faults, intent, torn>>
SlowRead ==
  /\ pc = "idle" /\ (ui.isConnected => polls >= PollRatio)
  /\ polls' = 0
  /\ ui' = [ui EXCEPT !.pending = @ \cup {"info", "status"}]
  /\ UNCHANGED <<board, pc, buf, link, alive, queue, attached, dev, clicks, faults, intent, torn>>

-----------------------------------------------------------------------------
(***************************************************************************)
(* The user.                                                               *)
(***************************************************************************)
Click == pc = "idle" /\ clicks < MaxClicks /\ clicks' = clicks + 1

(* A parameter changes, or "write" is pressed: change_reg.                 *)
ChangeReg ==
  /\ Click /\ (AutoTx \/ board.isDeviceConnected)
  /\ ui' = [ui EXCEPT !.reg = clicks + 1, !.pending = @ \cup {"reg"}]
  /\ UNCHANGED <<board, usb, intent>>

(* change_RF_CTRL; set_RF_state, by a sweep or a macro.                    *)
SendRf(v) ==
  /\ Click /\ board.isDeviceConnected
  /\ Update([ui EXCEPT !.RF_OUT = v, !.pending = @ \cup {"rf"}])
  /\ intent' = v
  /\ UNCHANGED usb
ChangeRf == SendRf(~ui.RF_OUT)
SetRfState(v) == SendRf(v)

(* The buttons that leave a flag in the window until update_gui collects   *)
(* it.  Writing the flash sends the registers too.                         *)
Request(c) ==
  /\ Click /\ (c = "serial" \/ board.isDeviceConnected)
  /\ board' = [board EXCEPT !.clicked = @ \cup {c},
                            !.macro = IF c = "macro" THEN clicks + 1 ELSE @]
  /\ ui' = IF c = "flash" THEN [ui EXCEPT !.pending = @ \cup {"reg"}] ELSE ui
  /\ UNCHANGED <<usb, intent>>

Select(n) ==
  /\ Click /\ n \in board.list \ {board.selected}
  /\ board' = [board EXCEPT !.selected = n, !.isSelectedDeviceChange = TRUE]
  /\ UNCHANGED <<ui, usb, intent>>

User == \/ ChangeReg \/ ChangeRf \/ \E v \in BOOLEAN : SetRfState(v)
        \/ \E c \in Requests : Request(c)
        \/ \E n \in Entries : Select(n)

-----------------------------------------------------------------------------
(***************************************************************************)
(* The devices, HIDAPI's read thread, and the cables.                      *)
(***************************************************************************)
Handled(s) ==
  LET p == s.mail
      t == [s EXCEPT !.mail = NoPacket]
  IN CASE p.cmd = "reg"    -> [t EXCEPT !.reg = p.id]
       [] p.cmd = "rf"     -> [t EXCEPT !.rf = p.rf]
       [] p.cmd = "macro"  -> [t EXCEPT !.macro[1] = p.id]
       [] p.cmd = "macro1" -> [t EXCEPT !.macro[2] = p.id]
       [] p.cmd = "status" -> [t EXCEPT !.reply = [kind |-> "status", rf |-> s.rf]]
       [] p.cmd = "info"   -> [t EXCEPT !.reply = [kind |-> "info", rf |-> FALSE]]
       [] OTHER -> t

Handle(d) ==
  /\ d \in attached /\ dev[d].mail # NoPacket
  /\ dev' = [dev EXCEPT ![d] = Handled(@)]
  /\ UNCHANGED <<ui, board, pc, buf, link, alive, queue, outside, torn>>

NeverDrops ==
  /\ alive /\ dev[link].reply # NoReport
  /\ queue' = Append(queue, dev[link].reply)
  /\ dev' = [dev EXCEPT ![link].reply = NoReport]
  /\ UNCHANGED <<ui, board, pc, buf, link, alive, outside, torn>>
ReadThread ==
  /\ alive /\ dev[link].reply # NoReport
  /\ LET q == Append(queue, dev[link].reply)
     IN queue' = IF Len(q) > QueueLimit THEN Tail(q) ELSE q
  /\ dev' = [dev EXCEPT ![link].reply = NoReport]
  /\ UNCHANGED <<ui, board, pc, buf, link, alive, outside, torn>>

Fault == faults < MaxFaults /\ faults' = faults + 1

HalfMacro(d) == dev[d].mail.cmd \in {"macro", "macro1"} \/ (pc = "macro1" /\ link = d)
Unplug(d) ==
  /\ Fault /\ d \in attached
  /\ attached' = attached \ {d} /\ alive' = (alive /\ link # d)
  /\ dev' = [dev EXCEPT ![d].mail = NoPacket, ![d].reply = NoReport]
  /\ torn' = IF HalfMacro(d) THEN torn \cup {d} ELSE torn
  /\ UNCHANGED <<ui, board, pc, buf, link, queue, polls, clicks, intent>>
Plug(d) ==
  /\ Fault /\ d \notin attached
  /\ attached' = attached \cup {d}
  /\ \E rf \in BOOLEAN : dev' = [dev EXCEPT ![d].reg = 0, ![d].rf = rf]
  /\ UNCHANGED <<ui, board, pc, buf, link, alive, queue, polls, clicks, intent, torn>>

Next == \/ PollUSB \/ FindUSBDevices \/ SlowRead \/ User \/ ReadThread
        \/ \E d \in Devices : Handle(d) \/ Unplug(d) \/ Plug(d)

(***************************************************************************)
(* The event loop serves every timer that is due, the user as well; a poll *)
(* once started goes on.  Devices and the read thread do their work.       *)
(***************************************************************************)
Fairness ==
  /\ WF_vars(PollUSB) /\ SF_vars(FindUSBDevices) /\ SF_vars(SlowRead)
  /\ WF_vars(ReadThread) /\ \A d \in Devices : WF_vars(Handle(d))

Spec == Init /\ [][Next]_vars
FairSpec == Spec /\ Fairness

-----------------------------------------------------------------------------
(***************************************************************************)
(* Properties.                                                             *)
(***************************************************************************)
TypeOK ==
  /\ ui \in UIData /\ board \in Board
  /\ pc \in Stages \cup {"idle"} /\ buf \in Report
  /\ link \in Devices \cup {Nothing} /\ alive \in BOOLEAN
  /\ queue \in Seq(Report) /\ Len(queue) <= QueueLimit
  /\ polls \in 0 .. PollRatio
  /\ attached \in SUBSET Devices /\ dev \in [Devices -> Device]
  /\ clicks \in 0 .. MaxClicks /\ faults \in 0 .. MaxFaults
  /\ intent \in BOOLEAN /\ torn \in SUBSET Devices
  /\ (ui.isConnected <=> link # Nothing) /\ (pc # "idle" => ui.isConnected)

(* A reply that comes late may change what the window shows, but never an  *)
(* RF command that waits to be sent: it is the one asked for last.         *)
RfIntentKept == "rf" \in ui.pending => ui.RF_OUT = intent

(* The device commands go to is the one the window shows as selected,      *)
(* unless a change of the selection is on its way.                         *)
LinkIsSelected ==
  ui.isConnected /\ ~board.isSelectedDeviceChange => link = board.selected

(* The two blocks of a macro in a device come from one program, unless it  *)
(* was unplugged, or a write failed, between them.                         *)
MacroIsWhole ==
  \A d \in Devices \ torn : HalfMacro(d) \/ dev[d].macro[1] = dev[d].macro[2]

(* Once user and cables rest, the selected device, if it is there, is open *)
(* and stays open: no change of selection is done over and over.           *)
SelectionSettles ==
  <>[](board.selected \in attached => alive /\ link = board.selected)

(* and the RF state the window has is the device's, although replies are   *)
(* read a poll or more after their requests, and some never.               *)
DisplaySettles == <>[](alive => ui.RF_OUT = dev[link].rf)

(* Opening a device does not call update_gui; a reply does.  The window    *)
(* learns of a connection while it lasts.                                  *)
WindowIsTold == ui.isConnected ~> (board.isDeviceConnected \/ ~ui.isConnected)

-----------------------------------------------------------------------------
(***************************************************************************)
(* What a tooltip says, and the application does not do.                   *)
(***************************************************************************)

(* "Automatically send register updates on any parameter change": the      *)
(* device ends up with the registers of the last change.                   *)
ChangesAreSent == AutoTx => <>[](alive => dev[link].reg = ui.reg)
=============================================================================
