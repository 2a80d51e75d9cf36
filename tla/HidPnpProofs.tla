---------------------------- MODULE HidPnpProofs ----------------------------
(***************************************************************************)
(* The safety properties of HidPnp, for any set of generators, any actions *)
(* of the user, any number of faults and any length of HIDAPI's queue.     *)
(* Each property is strengthened to what holds at every stage of a poll;   *)
(* Inv, their conjunction, is inductive.                                   *)
(***************************************************************************)
EXTENDS HidPnp, WellFoundedInduction, TLAPS

(* A device that has not gone is the one that is open. *)
AliveIsOpen == alive => link # Nothing

(* A list that changed has an entry the window can select. *)
ListKnown(u) == u.isDeviceListChanged => u.list # {}

(* While a device is open, a list entry is selected. *)
SelectedKnown == ui.isConnected => ui.selected \in Entries /\ board.selected \in Entries

(* Past the stage that sends it, no RF command is pending. *)
RfPassed == pc \notin {"idle", "reg", "rf"} => "rf" \notin ui.pending

(* A change of the selection is reported done while nothing is open. *)
ChangeTold == ui.isConnected => ~ui.isDeviceChangeDone

(* The first half of a macro, on its way or in the device, and the second. *)
MacroMoves ==
  /\ pc = "macro1" /\ alive =>
       \/ dev[link].mail.cmd = "macro" /\ dev[link].mail.id = ui.macro
       \/ dev[link].mail = NoPacket /\ dev[link].macro[1] = ui.macro
  /\ \A d \in Devices \ torn :
       /\ dev[d].mail.cmd = "macro" => pc = "macro1" /\ link = d
       /\ dev[d].mail.cmd = "macro1" => dev[d].mail.id = dev[d].macro[1]

Inv ==
  /\ TypeOK /\ AliveIsOpen /\ ListKnown(ui) /\ SelectedKnown
  /\ RfPassed /\ RfIntentKept
  /\ ChangeTold /\ LinkIsSelected
  /\ MacroMoves /\ MacroIsWhole

-----------------------------------------------------------------------------
(***************************************************************************)
(* What update_gui does.                                                   *)
(***************************************************************************)
LEMMA NamesAreNumbers ==
  /\ Devices \subseteq Nat \ {0} /\ Entries \subseteq Nat /\ Nothing \notin Entries
  /\ Entries \subseteq Names /\ Nothing \in Names /\ Devices \subseteq Entries
  /\ NoDevice \notin Devices /\ NoDevice \in Entries
  BY DevicesAssumption DEF Entries, Names, Nothing, NoDevice

LEMMA LeastNumber ==
  ASSUME NEW S \in SUBSET Nat, S # {}
  PROVE  \E n \in S : \A m \in S : n <= m
<1> DEFINE Less == {p \in Nat \X Nat : p[1] < p[2]}
<1>1. IsWellFoundedOn(Less, Nat)
  BY NatLessThanWellFounded DEF OpToRel
<1>2. \A m, n \in Nat : m < n => <<m, n>> \in Less
  OBVIOUS
<1> HIDE DEF Less
<1>3. PICK n \in S : \A m \in S : ~(<<m, n>> \in Less)
  BY <1>1, WFMin
<1>4. ASSUME NEW m \in S PROVE n <= m
  <2>1. m \in Nat /\ n \in Nat /\ ~(<<m, n>> \in Less)
    BY <1>3
  <2>2. ~(m < n)
    BY <1>2, <2>1, Zenon
  <2> QED
    BY <2>1, <2>2
<1> QED
  BY <1>4

(* A changed list is not empty: the window selects one of its entries. *)
LEMMA FirstIsListed ==
  ASSUME NEW list \in SUBSET Entries, list # {}
  PROVE  First(list) \in list
<1>1. \E n \in list : \A m \in list : n <= m
  BY NamesAreNumbers, LeastNumber
<1> QED
  BY <1>1 DEF First

LEMMA ReselectedEffect ==
  ASSUME NEW u \in UIData, NEW b \in Board, ListKnown(u)
  PROVE  LET r == Reselected(u, b) IN
         /\ r \in Board
         /\ r.clicked = b.clicked /\ r.macro = b.macro
         /\ b.selected \in Entries => r.selected \in Entries
         /\ ~r.isSelectedDeviceChange => ~b.isSelectedDeviceChange /\ r.selected = b.selected
<1>1. u.list \in SUBSET Entries /\ u.isDeviceListChanged \in BOOLEAN
  BY DEF UIData
<1>2. CASE u.isDeviceListChanged /\ b.selected \notin u.list
  <2>1. First(u.list) \in Entries /\ First(u.list) \in Names
    BY <1>1, <1>2, FirstIsListed, NamesAreNumbers DEF ListKnown
  <2> QED
    BY <1>1, <1>2, <2>1 DEF Reselected, Board
<1>3. CASE ~(u.isDeviceListChanged /\ b.selected \notin u.list)
  BY <1>1, <1>3 DEF Reselected, Board
<1> QED
  BY <1>2, <1>3

LEMMA BoardAfterEffect ==
  ASSUME NEW u \in UIData, NEW b \in Board, ListKnown(u)
  PROVE  LET a == BoardAfter(u, b) IN
         /\ a \in Board
         /\ a.selected = Reselected(u, b).selected
         /\ b.selected \in Entries => a.selected \in Entries
         /\ ~u.isDeviceChangeDone /\ ~a.isSelectedDeviceChange =>
              ~b.isSelectedDeviceChange /\ a.selected = b.selected
<1> DEFINE r == Reselected(u, b)
<1>1. /\ r \in Board /\ (b.selected \in Entries => r.selected \in Entries)
      /\ ~r.isSelectedDeviceChange => ~b.isSelectedDeviceChange /\ r.selected = b.selected
  BY ReselectedEffect
<1>2. BoardAfter(u, b) = [r EXCEPT !.isDeviceConnected = u.isConnected, !.clicked = {},
                                   !.isSelectedDeviceChange = @ /\ ~u.isDeviceChangeDone]
  BY DEF BoardAfter
<1> HIDE DEF r
<1>3. u.isConnected \in BOOLEAN /\ u.isDeviceChangeDone \in BOOLEAN
  BY DEF UIData
<1>4. BoardAfter(u, b) \in Board
  BY <1>1, <1>2, <1>3 DEF Board
<1>5. /\ BoardAfter(u, b).selected = r.selected
      /\ BoardAfter(u, b).isSelectedDeviceChange
           = (r.isSelectedDeviceChange /\ ~u.isDeviceChangeDone)
  BY <1>1, <1>2 DEF Board
<1> QED
  BY <1>1, <1>4, <1>5 DEF r

LEMMA UIAfterEffect ==
  ASSUME NEW u \in UIData, NEW b \in Board, ListKnown(u)
  PROVE  LET a == UIAfter(u, b) IN
         /\ a \in UIData /\ ListKnown(a)
         /\ a.isConnected = u.isConnected /\ a.RF_OUT = u.RF_OUT /\ ~a.isDeviceChangeDone
         /\ a.selected = Reselected(u, b).selected
         /\ b.selected \in Entries => a.selected \in Entries
         /\ "rf" \in a.pending <=> "rf" \in u.pending
         /\ a.list = u.list
<1> DEFINE r == Reselected(u, b)
           asked == (IF u.isConnected THEN {} ELSE {"status", "info"})
                    \cup (IF u.isDeviceChangeDone THEN {"status"} ELSE {})
                    \cup (IF u.isDeviceChangeDone /\ AutoTx THEN {"reg"} ELSE {})
                    \cup (IF {"flash", "identify"} \cap b.clicked # {} THEN {"ctrl"} ELSE {})
                    \cup ({"erase", "serial", "macro"} \cap b.clicked)
           macro == IF "macro" \in b.clicked THEN b.macro ELSE u.macro
<1>1. r \in Board /\ (b.selected \in Entries => r.selected \in Entries)
  BY ReselectedEffect
<1>2. asked \in SUBSET Pending /\ "rf" \notin asked
  BY DEF Pending
<1>3. macro \in Ids
  BY DEF UIData, Board
<1>4. UIAfter(u, b) =
        [u EXCEPT !.pending = @ \cup asked, !.selected = r.selected,
                  !.isSelectedDeviceChange = r.isSelectedDeviceChange,
                  !.isDeviceChangeDone = FALSE, !.macro = macro]
  BY DEF UIAfter, UIData
<1> HIDE DEF r, asked, macro
<1>5. UIAfter(u, b) \in UIData
  BY <1>1, <1>2, <1>3, <1>4 DEF UIData, Board
<1>6. LET a == UIAfter(u, b) IN
      /\ a.isConnected = u.isConnected /\ a.RF_OUT = u.RF_OUT /\ ~a.isDeviceChangeDone
      /\ a.selected = r.selected /\ a.pending = u.pending \cup asked
      /\ a.list = u.list /\ a.isDeviceListChanged = u.isDeviceListChanged
  BY <1>4 DEF UIData
<1> QED
  BY <1>1, <1>2, <1>5, <1>6 DEF ListKnown, r

LEMMA ClearedEffect ==
  ASSUME NEW u \in UIData, ListKnown(u)
  PROVE  LET c == Cleared(u) IN
         /\ c \in UIData /\ ListKnown(c) /\ ~c.isConnected
         /\ c.RF_OUT = u.RF_OUT /\ c.pending = u.pending
  BY NamesAreNumbers DEF Cleared, UIData, ListKnown

LEMMA DoneEffect ==
  ASSUME TypeOK, NEW stage
  PROVE  LET t == Done(stage) IN
         /\ t \in UIData /\ t.pending = ui.pending \ {stage}
         /\ ListKnown(ui) => ListKnown(t)
         /\ t.isConnected = ui.isConnected /\ t.RF_OUT = ui.RF_OUT /\ t.macro = ui.macro
         /\ t.isDeviceChangeDone = ui.isDeviceChangeDone /\ t.selected = ui.selected
  BY DEF TypeOK, Done, UIData, ListKnown

-----------------------------------------------------------------------------
(***************************************************************************)
(* The order of the stages.                                                *)
(***************************************************************************)
LEMMA OrderOfStages ==
  /\ DOMAIN Order = 1 .. 8 /\ Len(Order) = 8
  /\ \A i \in 1 .. 8 : Order[i] \in Pending
  /\ Order[1] = "reg" /\ Order[2] = "rf"
  /\ \A i \in 1 .. 8 : (Order[i] = "reg" => i = 1) /\ (Order[i] = "rf" => i = 2)
  /\ \A stage \in Pending : \E i \in 1 .. 8 : Order[i] = stage
<1>1. DOMAIN Order = 1 .. 8 /\ Len(Order) = 8
  BY DEF Order
<1>2. \A i \in 1 .. 8 : i = 1 \/ i = 2 \/ i = 3 \/ i = 4 \/ i = 5 \/ i = 6 \/ i = 7 \/ i = 8
  OBVIOUS
<1>3. /\ Order[1] = "reg" /\ Order[2] = "rf" /\ Order[3] = "ctrl" /\ Order[4] = "serial"
      /\ Order[5] = "macro" /\ Order[6] = "erase" /\ Order[7] = "info" /\ Order[8] = "status"
  BY DEF Order
<1> QED
  BY <1>1, <1>2, <1>3 DEF Pending

(* No stage before a pending RF command skips it. *)
LEMMA FromEffect ==
  ASSUME NEW i \in 1 .. 9, NEW u \in UIData
  PROVE  /\ From(i, u) \in Pending \cup {"reply"}
         /\ i \in {1, 2} /\ "rf" \in u.pending => From(i, u) \in {"reg", "rf"}
<1> DEFINE due == {j \in i .. Len(Order) : Order[j] \in u.pending}
<1>1. due \in SUBSET (1 .. 8) /\ due \in SUBSET Nat
  BY OrderOfStages
<1>2. CASE due = {}
  <2>1. From(i, u) = "reply"
    BY <1>2 DEF From
  <2>2. i \in {1, 2} => "rf" \notin u.pending
    BY <1>2, OrderOfStages
  <2> QED
    BY <2>1, <2>2
<1>3. CASE due # {}
  <2> DEFINE first == CHOOSE j \in due : \A k \in due : j <= k
  <2>1. first \in due /\ \A k \in due : first <= k
    <3> HIDE DEF due
    <3>1. \E j \in due : \A k \in due : j <= k
      BY <1>1, <1>3, LeastNumber
    <3> QED
      BY <3>1
  <2>2. From(i, u) = Order[first]
    BY <1>3 DEF From
  <2>3. i \in {1, 2} /\ "rf" \in u.pending => 2 \in due
    BY OrderOfStages
  <2>4. first \in 1 .. 8 /\ (2 \in due => first \in {1, 2})
    <3> HIDE DEF due, first
    <3> QED
      BY <1>1, <2>1
  <2> HIDE DEF due, first
  <2> QED
    BY <2>2, <2>3, <2>4, OrderOfStages
<1> QED
  BY <1>2, <1>3

LEMMA AfterEffect ==
  ASSUME NEW stage \in Pending, NEW u \in UIData
  PROVE  /\ After(stage, u) \in Pending \cup {"reply"}
         /\ stage = "reg" /\ "rf" \in u.pending => After(stage, u) \in {"reg", "rf"}
<1> DEFINE at == CHOOSE i \in DOMAIN Order : Order[i] = stage
<1>1. at \in 1 .. 8 /\ Order[at] = stage
  BY OrderOfStages
<1>2. stage = "reg" => at = 1
  BY <1>1, OrderOfStages
<1>3. After(stage, u) = From(1 + at, u)
  BY DEF After
<1> HIDE DEF at
<1>4. 1 + at \in 1 .. 9 /\ (stage = "reg" => 1 + at \in {1, 2})
  BY <1>1, <1>2
<1> QED
  BY <1>3, <1>4, FromEffect

-----------------------------------------------------------------------------
(***************************************************************************)
(* A stage that writes: the data (u) and the window (b) it leaves, the     *)
(* packet (p) it sends and the stage (next) that follows.                  *)
(***************************************************************************)
Sends(p, u, b, next) ==
  /\ p \in Packet /\ u \in UIData /\ b \in Board /\ next \in Stages
  /\ ListKnown(u) /\ u.isConnected /\ ~u.isDeviceChangeDone
  /\ u.RF_OUT = ui.RF_OUT /\ ("rf" \in u.pending => "rf" \in ui.pending)
  /\ next \notin {"reg", "rf"} => "rf" \notin u.pending
  /\ u.selected \in Entries /\ b.selected \in Entries
  /\ ~b.isSelectedDeviceChange =>
       ~board.isSelectedDeviceChange /\ b.selected = board.selected
  /\ pc # "idle"
  /\ p.cmd = "macro1" <=> pc = "macro1"
  /\ p.cmd = "macro" <=> next = "macro1"
  /\ p.cmd = "macro" => p.id = u.macro
  /\ p.cmd = "macro1" => p.id = ui.macro

Sending ==
  \E p \in Packet, u \in UIData, b \in Board, next \in Stages :
    /\ Sends(p, u, b, next)
    /\ \/ /\ Written(p, u, b, next)
          /\ torn' = IF pc = "macro1" THEN torn \ {link} ELSE torn
       \/ /\ WriteFails(u, b)
          /\ torn' = IF pc = "macro1" THEN torn \cup {link} ELSE torn

LEMMA CommandType ==
  /\ NoReport \in Report /\ NoPacket \in Packet /\ NoPacket.cmd = "none"
  /\ \A c \in Pending \cup {"macro1"} : Command(c) \in Packet /\ Command(c).cmd = c
<1>1. NoReport \in Report
  BY DEF NoReport, Report
<1>2. NoPacket \in Packet /\ NoPacket.cmd = "none" /\ NoPacket.id = 0
  BY LimitsAssumption DEF NoPacket, Packet, Ids
<1>3. ASSUME NEW c \in Pending \cup {"macro1"}
      PROVE  Command(c) \in Packet /\ Command(c).cmd = c
  BY <1>2 DEF Command, Packet
<1> QED
  BY <1>1, <1>2, <1>3

LEMMA UpdatedSends ==
  ASSUME Inv, pc # "idle", NEW u \in UIData, ListKnown(u), u.isConnected,
         ~u.isDeviceChangeDone, u.RF_OUT = ui.RF_OUT, "rf" \in u.pending => "rf" \in ui.pending
  PROVE  LET a == UIAfter(u, board)
             b == BoardAfter(u, board)
         IN /\ a \in UIData /\ b \in Board /\ ListKnown(a) /\ a.isConnected
            /\ ~a.isDeviceChangeDone /\ a.RF_OUT = ui.RF_OUT
            /\ "rf" \in a.pending => "rf" \in ui.pending
            /\ a.selected \in Entries /\ b.selected \in Entries
            /\ ~b.isSelectedDeviceChange =>
                 ~board.isSelectedDeviceChange /\ b.selected = board.selected
<1>1. board \in Board /\ board.selected \in Entries
  BY DEF Inv, TypeOK, SelectedKnown
<1> QED
  BY <1>1, UIAfterEffect, BoardAfterEffect

LEMMA StagesThatSend ==
  ASSUME Inv, WriteReg \/ WriteRf \/ WriteLatest \/ WriteMacro0 \/ WriteMacro1 \/ WriteRequest
  PROVE  Sending
<1>1. /\ ui \in UIData /\ board \in Board /\ ListKnown(ui) /\ RfPassed /\ ChangeTold
      /\ pc # "idle" => ui.isConnected
      /\ pc # "idle" => ui.selected \in Entries /\ board.selected \in Entries
  BY DEF Inv, TypeOK, SelectedKnown
<1>2. CASE WriteReg
  <2> DEFINE p == [Command("reg") EXCEPT !.id = ui.reg]
  <2>1. p \in Packet /\ p.cmd = "reg"
    BY <1>1, CommandType DEF Packet, Pending, UIData
  <2>2. Sends(p, Done("reg"), board, After("reg", ui)) /\ Done("reg") \in UIData
    BY <1>1, <1>2, <2>1, DoneEffect, AfterEffect DEF WriteReg, Sends, Inv, ChangeTold, Stages, Pending
  <2> HIDE DEF p
  <2>3. Write(p, Done("reg"), board, After("reg", ui))
    BY <1>2 DEF WriteReg, p
  <2> QED
    BY <1>1, <1>2, <2>1, <2>2, <2>3 DEF Sending, Sends, Write, WriteReg
<1>3. CASE WriteRf
  <2> DEFINE p == [Command("rf") EXCEPT !.rf = ui.RF_OUT]
  <2>1. p \in Packet /\ p.cmd = "rf"
    BY <1>1, CommandType DEF Packet, Pending, UIData
  <2>2. Sends(p, Done("rf"), board, After("rf", ui)) /\ Done("rf") \in UIData
    BY <1>1, <1>3, <2>1, DoneEffect, AfterEffect DEF WriteRf, Sends, Inv, ChangeTold, Stages, Pending
  <2> HIDE DEF p
  <2>3. Write(p, Done("rf"), board, After("rf", ui))
    BY <1>3 DEF WriteRf, p
  <2> QED
    BY <1>1, <1>3, <2>1, <2>2, <2>3 DEF Sending, Sends, Write, WriteRf
<1>4. CASE WriteLatest
  <2> DEFINE told == IF pc = "serial" THEN ui ELSE Done(pc)
             b == BoardAfter(told, board)
             u == IF pc = "serial" THEN [UIAfter(ui, board) EXCEPT !.pending = @ \ {"serial"}]
                                   ELSE UIAfter(Done(pc), board)
  <2>1. pc \in {"ctrl", "erase", "serial"} /\ pc # "idle" /\ pc \in Pending
    BY <1>4 DEF WriteLatest, Pending
  <2>2. /\ told \in UIData /\ ListKnown(told) /\ told.isConnected /\ ~told.isDeviceChangeDone
        /\ told.RF_OUT = ui.RF_OUT /\ "rf" \notin ui.pending /\ "rf" \notin told.pending
    BY <1>1, <2>1, DoneEffect DEF Inv, RfPassed, ChangeTold
  <2> HIDE DEF told
  <2> DEFINE a == UIAfter(told, board)
  <2>3. /\ a \in UIData /\ b \in Board /\ ListKnown(a) /\ a.isConnected
        /\ ~a.isDeviceChangeDone /\ a.RF_OUT = ui.RF_OUT /\ "rf" \notin a.pending
        /\ a.selected \in Entries /\ b.selected \in Entries
        /\ ~b.isSelectedDeviceChange =>
             ~board.isSelectedDeviceChange /\ b.selected = board.selected
    BY <2>1, <2>2, UpdatedSends
  <2>4. u = IF pc = "serial" THEN [a EXCEPT !.pending = @ \ {"serial"}] ELSE a
    BY DEF told
  <2>5. Write(Command(pc), u, b, After(pc, u))
    BY <1>4 DEF WriteLatest, told
  <2> HIDE DEF a, b, u
  <2>6. /\ u \in UIData /\ ListKnown(u) /\ u.isConnected
        /\ ~u.isDeviceChangeDone /\ u.RF_OUT = ui.RF_OUT /\ "rf" \notin u.pending
        /\ u.selected \in Entries
    BY <2>3, <2>4 DEF UIData, ListKnown
  <2>7. After(pc, u) \in Pending \cup {"reply"} /\ Command(pc) \in Packet /\ Command(pc).cmd = pc
    BY <2>1, <2>6, AfterEffect, CommandType
  <2>8. Sends(Command(pc), u, b, After(pc, u))
    BY <2>1, <2>2, <2>3, <2>6, <2>7 DEF Sends, Stages, Pending
  <2> QED
    BY <2>1, <2>5, <2>8 DEF Sending, Sends, Write
<1>5. CASE WriteMacro0
  <2> DEFINE p == [Command("macro") EXCEPT !.id = ui.macro]
  <2>1. p \in Packet /\ p.cmd = "macro" /\ p.id = ui.macro
    BY <1>1, CommandType DEF Packet, Pending, UIData
  <2>2. Sends(p, Done("macro"), board, "macro1") /\ Done("macro") \in UIData
    BY <1>1, <1>5, <2>1, DoneEffect DEF WriteMacro0, Sends, Inv, RfPassed, ChangeTold, Stages
  <2> HIDE DEF p
  <2>3. Write(p, Done("macro"), board, "macro1")
    BY <1>5 DEF WriteMacro0, p
  <2> QED
    BY <1>1, <1>5, <2>1, <2>2, <2>3 DEF Sending, Sends, Write, WriteMacro0
<1>6. CASE WriteMacro1
  <2> DEFINE p == [Command("macro1") EXCEPT !.id = ui.macro]
  <2>1. p \in Packet /\ p.cmd = "macro1" /\ p.id = ui.macro
    BY <1>1, CommandType DEF Packet, Pending, UIData
  <2>2. Sends(p, ui, board, After("macro", ui))
    BY <1>1, <1>6, <2>1, AfterEffect DEF WriteMacro1, Sends, Inv, RfPassed, ChangeTold, Stages, Pending
  <2>3. /\ pc = "macro1"
        /\ \/ Written(p, ui, board, After("macro", ui)) /\ torn' = torn \ {link}
           \/ WriteFails(ui, board) /\ torn' = torn \cup {link}
    BY <1>6 DEF WriteMacro1
  <2> HIDE DEF p
  <2> QED
    BY <1>1, <2>1, <2>2, <2>3 DEF Sending, Sends
<1>7. ASSUME NEW c \in {"info", "status"}, NEW next \in {"readinfo", "readstatus"},
             pc = c, Write(Command(c), ui, board, next)
      PROVE  Sending
  <2>1. Command(c) \in Packet /\ Command(c).cmd = c
    BY CommandType DEF Pending
  <2>2. Sends(Command(c), ui, board, next)
    BY <1>1, <1>7, <2>1 DEF Sends, Inv, RfPassed, ChangeTold, Stages
  <2> QED
    BY <1>1, <1>7, <2>1, <2>2 DEF Sending, Sends, Write
<1> QED
  BY <1>2, <1>3, <1>4, <1>5, <1>6, <1>7 DEF WriteRequest

-----------------------------------------------------------------------------
(***************************************************************************)
(* Types.                                                                  *)
(***************************************************************************)
Core == TypeOK /\ AliveIsOpen /\ ListKnown(ui) /\ SelectedKnown

LEMMA CloseEffect ==
  ASSUME NEW u \in UIData, NEW b \in Board, ListKnown(u),
         CloseDevice(u, b), ui' = UIAfter(Cleared(u), b)
  PROVE  /\ ui' \in UIData /\ board' \in Board /\ ListKnown(ui')
         /\ ~ui'.isConnected /\ ui'.RF_OUT = u.RF_OUT
         /\ "rf" \in ui'.pending <=> "rf" \in u.pending
<1> DEFINE c == Cleared(u)
<1>1. /\ c \in UIData /\ ListKnown(c) /\ ~c.isConnected
      /\ c.RF_OUT = u.RF_OUT /\ c.pending = u.pending
  BY ClearedEffect
<1>2. board' = BoardAfter(c, b) /\ ui' = UIAfter(c, b)
  BY DEF CloseDevice
<1> HIDE DEF c
<1>3. board' \in Board
  BY <1>1, <1>2, BoardAfterEffect
<1>4. /\ ui' \in UIData /\ ListKnown(ui') /\ ui'.isConnected = c.isConnected
      /\ ui'.RF_OUT = c.RF_OUT /\ ("rf" \in ui'.pending <=> "rf" \in c.pending)
  BY <1>1, <1>2, UIAfterEffect
<1> QED
  BY <1>1, <1>3, <1>4

LEMMA UpdateEffect ==
  ASSUME NEW u \in UIData, board \in Board, ListKnown(u), Update(u)
  PROVE  /\ ui' \in UIData /\ board' \in Board /\ ListKnown(ui')
         /\ ui'.isConnected = u.isConnected /\ ui'.RF_OUT = u.RF_OUT
         /\ ~ui'.isDeviceChangeDone
         /\ board.selected \in Entries => ui'.selected \in Entries /\ board'.selected \in Entries
         /\ "rf" \in ui'.pending <=> "rf" \in u.pending
         /\ ~u.isDeviceChangeDone /\ ~board'.isSelectedDeviceChange =>
              ~board.isSelectedDeviceChange /\ board'.selected = board.selected
  BY UIAfterEffect, BoardAfterEffect DEF Update

LEMMA InitType == Init => Core
<1> SUFFICES ASSUME Init PROVE Core
  OBVIOUS
<1>1. /\ ui \in UIData /\ ~ui.isConnected /\ ListKnown(ui)
  BY LimitsAssumption, NamesAreNumbers DEF Init, UIData, ListKnown, Ids, Pending
<1>2. board \in Board
  BY LimitsAssumption, NamesAreNumbers DEF Init, Board, Ids
<1>3. \A rf \in BOOLEAN : Fresh(rf) \in Device
  BY CommandType, LimitsAssumption DEF Fresh, Device, Ids
<1>4. dev \in [Devices -> Device]
  BY <1>3 DEF Init
<1>5. /\ pc = "idle" /\ link = Nothing /\ alive = FALSE /\ queue = <<>> /\ buf \in Report
      /\ attached \in SUBSET Devices /\ intent \in BOOLEAN /\ torn \in SUBSET Devices
  BY CommandType DEF Init
<1>6. polls \in 0 .. PollRatio /\ clicks \in 0 .. MaxClicks /\ faults \in 0 .. MaxFaults
  <2>1. polls = PollRatio /\ clicks = 0 /\ faults = 0
    BY DEF Init
  <2> QED
    BY <2>1, LimitsAssumption
<1>7. queue \in Seq(Report) /\ Len(queue) <= QueueLimit
  BY <1>5, LimitsAssumption
<1> QED
  BY <1>1, <1>2, <1>4, <1>5, <1>6, <1>7 DEF Core, TypeOK, AliveIsOpen, SelectedKnown

LEMMA SendingType ==
  ASSUME Inv, Sending
  PROVE  Core'
<1>1. PICK p \in Packet, u \in UIData, b \in Board, next \in Stages :
        /\ Sends(p, u, b, next)
        /\ \/ Written(p, u, b, next) /\ torn' = IF pc = "macro1" THEN torn \ {link} ELSE torn
           \/ WriteFails(u, b) /\ torn' = IF pc = "macro1" THEN torn \cup {link} ELSE torn
  BY DEF Sending
<1>2. /\ ui.isConnected /\ link \in Devices /\ ListKnown(u) /\ u.isConnected
      /\ link # Nothing
  BY <1>1 DEF Sends, Inv, TypeOK
<1>3. torn' \in SUBSET Devices
  BY <1>1, <1>2 DEF Inv, TypeOK
<1>4. CASE Written(p, u, b, next)
  <2>1. dev' \in [Devices -> Device]
    BY <1>2, <1>4 DEF Written, Inv, TypeOK, Device
  <2>2. /\ ui' = u /\ board' = b /\ pc' = next /\ UNCHANGED <<buf, link, alive, queue, outside>>
        /\ u \in UIData /\ b \in Board /\ u.selected \in Entries /\ b.selected \in Entries
    BY <1>1, <1>4 DEF Written, Sends
  <2>3. TypeOK /\ AliveIsOpen
    BY DEF Inv
  <2>4. TypeOK'
    BY <1>2, <1>3, <2>1, <2>2, <2>3 DEF outside, TypeOK
  <2> QED
    BY <1>2, <2>2, <2>3, <2>4 DEF Core, AliveIsOpen, SelectedKnown
<1>5. CASE WriteFails(u, b)
  <2>1. ui' \in UIData /\ board' \in Board /\ ListKnown(ui') /\ ~ui'.isConnected
    BY <1>2, <1>5, CloseEffect DEF WriteFails
  <2>2. /\ link' = Nothing /\ alive' = FALSE /\ queue' = <<>> /\ pc' = "idle" /\ buf' = NoReport
    BY <1>5 DEF WriteFails, CloseDevice
  <2>3. queue' \in Seq(Report) /\ Len(queue') <= QueueLimit
    BY <2>2, LimitsAssumption
  <2>4. faults' \in 0 .. MaxFaults
    <3>1. faults \in 0 .. MaxFaults /\ (alive => faults < MaxFaults)
          /\ faults' = IF alive THEN faults + 1 ELSE faults
      BY <1>5 DEF WriteFails, Inv, TypeOK
    <3> QED
      BY <3>1, LimitsAssumption
  <2> QED
    BY <1>3, <1>5, <2>1, <2>2, <2>3, <2>4, CommandType
       DEF WriteFails, Inv, Core, TypeOK, AliveIsOpen, SelectedKnown
<1> QED
  BY <1>1, <1>4, <1>5

LEMMA PollType ==
  ASSUME Inv, PollClosed \/ PollSwitches \/ PollStarts \/ Read \/ Reply
  PROVE  Core'
<1>1. /\ ui \in UIData /\ board \in Board /\ ListKnown(ui) /\ TypeOK /\ AliveIsOpen
      /\ SelectedKnown
  BY DEF Inv, TypeOK
<1>2. CASE PollClosed
  <2> DEFINE u == UIAfter(ui, board)
  <2>1. u \in UIData /\ ListKnown(u) /\ ~u.isConnected /\ board' \in Board
    BY <1>1, <1>2, UIAfterEffect, BoardAfterEffect DEF PollClosed
  <2>2. link = Nothing /\ pc = "idle" /\ alive = FALSE
    BY <1>1, <1>2 DEF PollClosed, TypeOK, AliveIsOpen
  <2>3. UNCHANGED <<pc, buf, queue, attached, dev, clicks, intent, torn>>
    BY <1>2 DEF PollClosed
  <2>4. \/ /\ link' \in Devices /\ polls' = PollRatio /\ faults' = faults
           /\ alive' = TRUE /\ u.selected \in Entries
           /\ ui' = [u EXCEPT !.isConnected = TRUE, !.isSelectedDeviceChange = FALSE]
        \/ /\ ui' = u /\ UNCHANGED <<link, alive, polls>>
           /\ faults' = faults \/ (faults < MaxFaults /\ faults' = faults + 1)
    BY <1>1, <1>2, NamesAreNumbers DEF PollClosed, TypeOK
  <2>5. u.selected = board'.selected
    BY <1>1, <1>2, UIAfterEffect, BoardAfterEffect DEF PollClosed
  <2> HIDE DEF u
  <2>6. /\ ui' \in UIData /\ ListKnown(ui') /\ (ui'.isConnected <=> link' # Nothing)
        /\ link' \in Devices \cup {Nothing} /\ (alive' => link' # Nothing) /\ alive' \in BOOLEAN
        /\ ui'.isConnected => ui'.selected \in Entries /\ board'.selected \in Entries
    BY <2>1, <2>2, <2>4, <2>5, NamesAreNumbers DEF UIData, ListKnown
  <2>7. polls' \in 0 .. PollRatio /\ faults' \in 0 .. MaxFaults
    BY <1>1, <2>4, LimitsAssumption DEF TypeOK
  <2> QED
    BY <1>1, <2>1, <2>2, <2>3, <2>6, <2>7 DEF Core, TypeOK, AliveIsOpen, SelectedKnown
<1>3. CASE PollSwitches
  <2> DEFINE c == Cleared(ui)
             u == UIAfter(c, board)
  <2>1. c \in UIData /\ ListKnown(c) /\ ~c.isConnected
    BY <1>1, ClearedEffect
  <2>2. board' = BoardAfter(c, board)
        /\ ui' = [u EXCEPT !.isSelectedDeviceChange = FALSE, !.isDeviceChangeDone = TRUE]
    BY <1>3 DEF PollSwitches, CloseDevice
  <2> HIDE DEF c
  <2>3. u \in UIData /\ ListKnown(u) /\ ~u.isConnected /\ board' \in Board
    BY <1>1, <2>1, <2>2, UIAfterEffect, BoardAfterEffect
  <2> HIDE DEF u
  <2>4. ui' \in UIData /\ ListKnown(ui') /\ ~ui'.isConnected
    BY <2>2, <2>3 DEF UIData, ListKnown
  <2>5. /\ link' = Nothing /\ alive' = FALSE /\ queue' = <<>> /\ pc' = "idle" /\ buf' = NoReport
        /\ UNCHANGED <<dev, outside, torn>>
    BY <1>3 DEF PollSwitches, CloseDevice
  <2>6. queue' \in Seq(Report) /\ Len(queue') <= QueueLimit
    BY <2>5, LimitsAssumption
  <2> QED
    BY <1>1, <2>3, <2>4, <2>5, <2>6, CommandType DEF Core, TypeOK, AliveIsOpen, SelectedKnown, outside
<1>4. CASE PollStarts
  <2>1. pc' \in Stages
    BY <1>1, <1>4, FromEffect DEF PollStarts, Stages
  <2>2. polls' \in 0 .. PollRatio
    BY <1>1, <1>4, LimitsAssumption DEF PollStarts, TypeOK
  <2> QED
    BY <1>1, <1>4, <2>1, <2>2 DEF PollStarts, Core, TypeOK, AliveIsOpen, SelectedKnown
<1>5. CASE Read
  <2>1. /\ pc \in {"readinfo", "readstatus"} /\ ui.isConnected
        /\ queue \in Seq(Report) /\ Len(queue) <= QueueLimit
    BY <1>1, <1>5 DEF Read, TypeOK
  <2>2. CASE /\ buf' = IF queue = <<>> THEN NoReport ELSE Head(queue)
             /\ queue' = IF queue = <<>> THEN <<>> ELSE Tail(queue)
             /\ pc' = IF pc = "readinfo" THEN After("info", ui) ELSE "reply"
             /\ UNCHANGED <<ui, board, link, alive>>
    <3>1. queue' \in Seq(Report) /\ Len(queue') <= QueueLimit /\ buf' \in Report
      BY <2>1, <2>2, CommandType, LimitsAssumption
    <3>2. pc' \in Stages
      BY <1>1, <2>2, AfterEffect DEF Stages, Pending
    <3> QED
      BY <1>1, <1>5, <2>1, <2>2, <3>1, <3>2 DEF Read, Core, TypeOK, AliveIsOpen, SelectedKnown, outside
  <2>3. CASE queue = <<>> /\ ~alive /\ CloseDevice(ui, board) /\ ui' = UIAfter(Cleared(ui), board)
    <3>1. ui' \in UIData /\ board' \in Board /\ ListKnown(ui') /\ ~ui'.isConnected
      BY <1>1, <2>3, CloseEffect
    <3>2. /\ link' = Nothing /\ alive' = FALSE /\ queue' = <<>> /\ pc' = "idle" /\ buf' = NoReport
          /\ UNCHANGED <<dev, outside, torn>>
      BY <1>5, <2>3 DEF Read, CloseDevice
    <3>3. queue' \in Seq(Report) /\ Len(queue') <= QueueLimit
      BY <3>2, LimitsAssumption
    <3> QED
      BY <1>1, <3>1, <3>2, <3>3, CommandType DEF Core, TypeOK, AliveIsOpen, SelectedKnown, outside
  <2> QED
    BY <1>5, <2>2, <2>3 DEF Read
<1>6. CASE Reply
  <2>1. /\ pc = "reply" /\ pc' = "idle" /\ buf' = NoReport
        /\ UNCHANGED <<link, alive, queue, dev, outside, torn>>
    BY <1>6 DEF Reply
  <2>2. /\ ui' \in UIData /\ board' \in Board /\ ListKnown(ui') /\ ui'.isConnected = ui.isConnected
        /\ ui'.isConnected => ui'.selected \in Entries /\ board'.selected \in Entries
    <3>1. CASE buf.kind = "none"
      BY <1>1, <1>6, <3>1 DEF Reply, SelectedKnown
    <3>2. CASE buf.kind # "none"
      <4> DEFINE told == IF buf.kind = "status" THEN [Done("status") EXCEPT !.RF_OUT = buf.rf]
                                                ELSE Done("info")
      <4>1. Update(told)
        BY <1>6, <3>2 DEF Reply
      <4>2. buf.rf \in BOOLEAN
        BY <1>1 DEF TypeOK, Report
      <4>3. told \in UIData /\ ListKnown(told) /\ told.isConnected = ui.isConnected
        BY <1>1, <4>2, DoneEffect DEF UIData, ListKnown
      <4> HIDE DEF told
      <4> QED
        BY <1>1, <4>1, <4>3, UpdateEffect DEF SelectedKnown
    <3> QED
      BY <3>1, <3>2
  <2>3. TypeOK'
    BY <1>1, <2>1, <2>2, CommandType DEF TypeOK, outside
  <2> QED
    BY <1>1, <2>1, <2>2, <2>3 DEF Core, AliveIsOpen, SelectedKnown
<1> QED
  BY <1>2, <1>3, <1>4, <1>5, <1>6

LEMMA ListedEffect ==
  ASSUME TypeOK, SelectedKnown
  PROVE  Listed \in SUBSET Entries /\ Listed # {}
<1>1. attached \in SUBSET Entries /\ (ui.isConnected => ui.selected \in Entries)
  BY NamesAreNumbers DEF TypeOK, SelectedKnown
<1>2. (IF alive THEN attached \ {link} ELSE attached) \in SUBSET Entries
  BY <1>1
<1> QED
  BY <1>1, <1>2, NamesAreNumbers DEF Listed

LEMMA FoundEffect ==
  ASSUME TypeOK, SelectedKnown, FindUSBDevices
  PROVE  /\ pc = "idle" /\ UNCHANGED <<usb, clicks, intent>>
         /\ LET found == [ui EXCEPT !.list = Listed,
                                    !.isDeviceListChanged = (Listed # ui.last_list)]
            IN /\ found \in UIData /\ ListKnown(found)
               /\ found.isConnected = ui.isConnected /\ found.RF_OUT = ui.RF_OUT
               /\ found.pending = ui.pending /\ found.selected = ui.selected
               /\ found.isDeviceChangeDone = ui.isDeviceChangeDone
               /\ \E u \in UIData :
                    /\ \/ u = found /\ board' = board
                       \/ u = UIAfter(found, board) /\ board' = BoardAfter(found, board)
                    /\ ui' = [u EXCEPT !.last_list = Listed]
<1>1. Listed \in SUBSET Entries /\ Listed # {} /\ ui \in UIData /\ board \in Board
  BY ListedEffect DEF TypeOK
<1> DEFINE found == [ui EXCEPT !.list = Listed, !.isDeviceListChanged = (Listed # ui.last_list)]
<1>2. /\ found \in UIData /\ ListKnown(found)
      /\ found.isConnected = ui.isConnected /\ found.RF_OUT = ui.RF_OUT
      /\ found.pending = ui.pending /\ found.selected = ui.selected
      /\ found.isDeviceChangeDone = ui.isDeviceChangeDone
  BY <1>1 DEF UIData, ListKnown
<1>3. /\ pc = "idle" /\ UNCHANGED <<usb, clicks, intent>>
      /\ board' = IF found.isDeviceListChanged THEN BoardAfter(found, board) ELSE board
      /\ ui' = [IF found.isDeviceListChanged THEN UIAfter(found, board) ELSE found
                   EXCEPT !.last_list = Listed]
  BY DEF FindUSBDevices
<1> HIDE DEF found
<1>4. UIAfter(found, board) \in UIData
  BY <1>1, <1>2, UIAfterEffect
<1>5. \E u \in UIData :
         /\ \/ u = found /\ board' = board
            \/ u = UIAfter(found, board) /\ board' = BoardAfter(found, board)
         /\ ui' = [u EXCEPT !.last_list = Listed]
  BY <1>2, <1>3, <1>4
<1> QED
  BY <1>2, <1>3, <1>5 DEF found

(* What a run of FindUSBDevices does to the data, as a whole. *)
LEMMA FindEffect ==
  ASSUME Inv, FindUSBDevices
  PROVE  /\ pc = "idle" /\ UNCHANGED <<usb, clicks, intent>>
         /\ ui' \in UIData /\ board' \in Board /\ ListKnown(ui')
         /\ ui'.isConnected = ui.isConnected /\ ui'.RF_OUT = ui.RF_OUT
         /\ ui.isConnected => ui'.selected \in Entries /\ board'.selected \in Entries
         /\ "rf" \in ui'.pending <=> "rf" \in ui.pending
         /\ ~ui.isDeviceChangeDone => ~ui'.isDeviceChangeDone
         /\ ~ui.isDeviceChangeDone /\ ~board'.isSelectedDeviceChange =>
              ~board.isSelectedDeviceChange /\ board'.selected = board.selected
<1>1. TypeOK /\ SelectedKnown /\ board \in Board
  BY DEF Inv, TypeOK
<1> DEFINE found == [ui EXCEPT !.list = Listed, !.isDeviceListChanged = (Listed # ui.last_list)]
<1>2. /\ found \in UIData /\ ListKnown(found)
      /\ found.isConnected = ui.isConnected /\ found.RF_OUT = ui.RF_OUT
      /\ found.pending = ui.pending /\ found.selected = ui.selected
      /\ found.isDeviceChangeDone = ui.isDeviceChangeDone
  BY <1>1, FoundEffect
<1>3. PICK u \in UIData :
        /\ \/ u = found /\ board' = board
           \/ u = UIAfter(found, board) /\ board' = BoardAfter(found, board)
        /\ ui' = [u EXCEPT !.last_list = Listed]
  BY <1>1, FoundEffect
<1> HIDE DEF found
<1>4. /\ ListKnown(u) /\ board' \in Board
      /\ u.isConnected = ui.isConnected /\ u.RF_OUT = ui.RF_OUT
      /\ ui.isConnected => u.selected \in Entries /\ board'.selected \in Entries
      /\ "rf" \in u.pending <=> "rf" \in ui.pending
      /\ ~ui.isDeviceChangeDone => ~u.isDeviceChangeDone
      /\ ~ui.isDeviceChangeDone /\ ~board'.isSelectedDeviceChange =>
           ~board.isSelectedDeviceChange /\ board'.selected = board.selected
  <2>1. CASE u = found /\ board' = board
    BY <1>1, <1>2, <2>1 DEF SelectedKnown
  <2>2. CASE u = UIAfter(found, board) /\ board' = BoardAfter(found, board)
    BY <1>1, <1>2, <2>2, UIAfterEffect, BoardAfterEffect DEF SelectedKnown
  <2> QED
    BY <1>3, <2>1, <2>2
<1>5. /\ ui' \in UIData /\ ui'.isConnected = u.isConnected /\ ui'.RF_OUT = u.RF_OUT
      /\ ui'.pending = u.pending /\ ui'.selected = u.selected /\ ui'.list = u.list
      /\ ui'.isDeviceChangeDone = u.isDeviceChangeDone
      /\ ui'.isDeviceListChanged = u.isDeviceListChanged
  BY <1>1, <1>3, ListedEffect DEF UIData
<1>6. ListKnown(ui')
  BY <1>4, <1>5 DEF ListKnown
<1>7. pc = "idle" /\ UNCHANGED <<usb, clicks, intent>>
  BY <1>1, FoundEffect
<1> QED
  BY <1>4, <1>5, <1>6, <1>7

(* Switching the output, from the window, a sweep or a macro. *)
LEMMA SendRfEffect ==
  ASSUME Inv, NEW v \in BOOLEAN, SendRf(v)
  PROVE  /\ pc = "idle" /\ clicks < MaxClicks /\ clicks' = clicks + 1
         /\ UNCHANGED usb /\ intent' = v
         /\ ui' \in UIData /\ board' \in Board /\ ListKnown(ui')
         /\ ui'.isConnected = ui.isConnected /\ ui'.RF_OUT = v /\ ~ui'.isDeviceChangeDone
         /\ ui.isConnected => ui'.selected \in Entries /\ board'.selected \in Entries
         /\ ~ui.isDeviceChangeDone /\ ~board'.isSelectedDeviceChange =>
              ~board.isSelectedDeviceChange /\ board'.selected = board.selected
<1> DEFINE u == [ui EXCEPT !.RF_OUT = v, !.pending = @ \cup {"rf"}]
<1>1. ui \in UIData /\ board \in Board /\ ListKnown(ui) /\ SelectedKnown
  BY DEF Inv, TypeOK
<1>2. /\ u \in UIData /\ ListKnown(u) /\ u.isConnected = ui.isConnected /\ u.RF_OUT = v
      /\ u.isDeviceChangeDone = ui.isDeviceChangeDone
  BY <1>1 DEF UIData, ListKnown, Pending
<1>3. Update(u) /\ Click /\ UNCHANGED usb /\ intent' = v
  BY DEF SendRf
<1> HIDE DEF u
<1>4. /\ ui' \in UIData /\ board' \in Board /\ ListKnown(ui')
      /\ ui'.isConnected = u.isConnected /\ ui'.RF_OUT = u.RF_OUT
      /\ ~ui'.isDeviceChangeDone
      /\ board.selected \in Entries => ui'.selected \in Entries /\ board'.selected \in Entries
      /\ ~u.isDeviceChangeDone /\ ~board'.isSelectedDeviceChange =>
           ~board.isSelectedDeviceChange /\ board'.selected = board.selected
  BY <1>1, <1>2, <1>3, UpdateEffect
<1> QED
  BY <1>1, <1>2, <1>3, <1>4 DEF Click, SelectedKnown

LEMMA CoreFrame ==
  ASSUME Inv, UNCHANGED usb, intent' \in BOOLEAN, clicks' \in 0 .. MaxClicks,
         ui' \in UIData, board' \in Board, ListKnown(ui'), ui'.isConnected = ui.isConnected,
         ui.isConnected => ui'.selected \in Entries /\ board'.selected \in Entries
  PROVE  Core'
<1>1. TypeOK /\ AliveIsOpen
  BY DEF Inv
<1>2. TypeOK'
  BY <1>1 DEF TypeOK, usb
<1> QED
  BY <1>1, <1>2 DEF Core, AliveIsOpen, SelectedKnown, usb

LEMMA WindowType ==
  ASSUME Inv, FindUSBDevices \/ SlowRead \/ User
  PROVE  Core'
<1>1. /\ ui \in UIData /\ board \in Board /\ ListKnown(ui) /\ TypeOK /\ AliveIsOpen
      /\ SelectedKnown /\ clicks \in 0 .. MaxClicks /\ intent \in BOOLEAN
  BY DEF Inv, TypeOK
<1>2. CASE FindUSBDevices
  BY <1>1, <1>2, FindEffect, CoreFrame
<1>3. CASE SlowRead
  <2>1. ui' \in UIData /\ ListKnown(ui') /\ ui'.isConnected = ui.isConnected
        /\ ui'.selected = ui.selected
    BY <1>1, <1>3 DEF SlowRead, UIData, ListKnown, Pending
  <2>2. polls' \in 0 .. PollRatio
    BY <1>3, LimitsAssumption DEF SlowRead
  <2>3. TypeOK'
    BY <1>1, <1>3, <2>1, <2>2 DEF SlowRead, TypeOK
  <2> QED
    BY <1>1, <1>3, <2>1, <2>3 DEF SlowRead, Core, AliveIsOpen, SelectedKnown
<1>4. ASSUME Click PROVE clicks' \in 0 .. MaxClicks /\ clicks + 1 \in Ids
  BY <1>1, <1>4, LimitsAssumption DEF Click, Ids
<1>5. CASE ChangeReg
  <2>1. /\ ui' \in UIData /\ ListKnown(ui') /\ ui'.isConnected = ui.isConnected
        /\ ui'.selected = ui.selected /\ clicks' \in 0 .. MaxClicks
        /\ UNCHANGED <<board, usb, intent>>
    BY <1>1, <1>4, <1>5 DEF ChangeReg, UIData, ListKnown, Pending
  <2> QED
    BY <1>1, <2>1, CoreFrame DEF SelectedKnown
<1>6. ASSUME NEW v \in BOOLEAN, SendRf(v) PROVE Core'
  <2>1. clicks' \in 0 .. MaxClicks
    BY <1>4, <1>6 DEF SendRf
  <2> QED
    BY <1>1, <1>6, <2>1, SendRfEffect, CoreFrame
<1>7. ASSUME NEW c \in Requests, Request(c) PROVE Core'
  <2>1. /\ board' \in Board /\ board'.selected = board.selected /\ clicks' \in 0 .. MaxClicks
        /\ UNCHANGED <<usb, intent>>
    BY <1>1, <1>4, <1>7, RequestsAssumption DEF Request, Board
  <2>2. ui' \in UIData /\ ListKnown(ui') /\ ui'.isConnected = ui.isConnected
        /\ ui'.selected = ui.selected
    BY <1>1, <1>7 DEF Request, UIData, ListKnown, Pending
  <2> QED
    BY <1>1, <2>1, <2>2, CoreFrame DEF SelectedKnown
<1>8. ASSUME NEW n \in Entries, Select(n) PROVE Core'
  <2>1. /\ board' \in Board /\ board'.selected = n /\ clicks' \in 0 .. MaxClicks
        /\ UNCHANGED <<ui, usb, intent>>
    BY <1>1, <1>4, <1>8, NamesAreNumbers DEF Select, Board
  <2> QED
    BY <1>1, <2>1, CoreFrame DEF SelectedKnown
<1>9. ui.RF_OUT \in BOOLEAN
  BY <1>1 DEF UIData
<1> QED
  BY <1>2, <1>3, <1>5, <1>6, <1>7, <1>8, <1>9 DEF User, ChangeRf, SetRfState

LEMMA HandledEffect ==
  ASSUME NEW s \in Device
  PROVE  /\ Handled(s) \in Device /\ Handled(s).mail = NoPacket
         /\ Handled(s).macro = CASE s.mail.cmd = "macro"  -> <<s.mail.id, s.macro[2]>>
                                [] s.mail.cmd = "macro1" -> <<s.macro[1], s.mail.id>>
                                [] OTHER -> s.macro
<1> DEFINE t == [s EXCEPT !.mail = NoPacket]
<1>1. /\ s.mail.cmd \in Pending \cup {"macro1", "none"} /\ s.mail.id \in Ids /\ s.mail.rf \in BOOLEAN
      /\ s.rf \in BOOLEAN /\ s.macro \in Ids \X Ids
  BY DEF Device, Packet
<1>2. t \in Device /\ t.mail = NoPacket /\ t.macro = s.macro
  BY CommandType DEF Device
<1>3. \A k \in {"status", "info"}, rf \in BOOLEAN : [kind |-> k, rf |-> rf] \in Report
  BY DEF Report
<1>4. Handled(s) = CASE s.mail.cmd = "reg"    -> [t EXCEPT !.reg = s.mail.id]
                     [] s.mail.cmd = "rf"     -> [t EXCEPT !.rf = s.mail.rf]
                     [] s.mail.cmd = "macro"  -> [t EXCEPT !.macro[1] = s.mail.id]
                     [] s.mail.cmd = "macro1" -> [t EXCEPT !.macro[2] = s.mail.id]
                     [] s.mail.cmd = "status" -> [t EXCEPT !.reply = [kind |-> "status", rf |-> s.rf]]
                     [] s.mail.cmd = "info"   -> [t EXCEPT !.reply = [kind |-> "info", rf |-> FALSE]]
                     [] OTHER -> t
  BY DEF Handled
<1> HIDE DEF t
<1>5. CASE s.mail.cmd = "macro"
  <2>1. Handled(s) = [t EXCEPT !.macro[1] = s.mail.id]
    BY <1>4, <1>5
  <2> QED
    BY <1>1, <1>2, <1>5, <2>1 DEF Device
<1>6. CASE s.mail.cmd = "macro1"
  <2>1. Handled(s) = [t EXCEPT !.macro[2] = s.mail.id]
    BY <1>4, <1>6
  <2> QED
    BY <1>1, <1>2, <1>6, <2>1 DEF Device
<1>7. CASE s.mail.cmd \notin {"macro", "macro1"}
  <2> DEFINE Moves(h) == h \in Device /\ h.mail = NoPacket /\ h.macro = s.macro
  <2>1. \A i \in Ids : Moves([t EXCEPT !.reg = i])
    BY <1>2 DEF Device
  <2>2. \A b \in BOOLEAN : Moves([t EXCEPT !.rf = b])
    BY <1>2 DEF Device
  <2>3. \A r \in Report : Moves([t EXCEPT !.reply = r])
    BY <1>2 DEF Device
  <2> HIDE DEF Moves
  <2>4. Moves(Handled(s))
    <3>1. CASE s.mail.cmd = "reg"
      BY <1>1, <1>4, <2>1, <3>1
    <3>2. CASE s.mail.cmd = "rf"
      BY <1>1, <1>4, <2>2, <3>2
    <3>3. CASE s.mail.cmd \in {"status", "info"}
      BY <1>1, <1>3, <1>4, <2>3, <3>3
    <3>4. CASE s.mail.cmd \notin {"reg", "rf", "status", "info"}
      BY <1>2, <1>4, <1>7, <3>4 DEF Moves
    <3> QED
      BY <3>1, <3>2, <3>3, <3>4
  <2> QED
    BY <1>7, <2>4 DEF Moves
<1> QED
  BY <1>5, <1>6, <1>7

LEMMA EnvironmentType ==
  ASSUME Inv, ReadThread \/ \E d \in Devices : Handle(d) \/ Unplug(d) \/ Plug(d)
  PROVE  Core'
<1>1. /\ TypeOK /\ AliveIsOpen /\ ListKnown(ui) /\ SelectedKnown
      /\ dev \in [Devices -> Device] /\ (alive => link \in Devices)
  BY DEF Inv, TypeOK, AliveIsOpen
<1>2. CASE ReadThread
  <2>1. /\ link \in Devices /\ dev[link].reply \in Report
        /\ queue \in Seq(Report) /\ Len(queue) <= QueueLimit
    BY <1>1, <1>2 DEF ReadThread, TypeOK, Device
  <2> DEFINE q == Append(queue, dev[link].reply)
  <2>2. q \in Seq(Report) /\ Len(q) = Len(queue) + 1
    BY <2>1
  <2>3. queue' = IF Len(q) > QueueLimit THEN Tail(q) ELSE q
    BY <1>2 DEF ReadThread
  <2> HIDE DEF q
  <2>4. queue' \in Seq(Report) /\ Len(queue') <= QueueLimit
    BY <2>1, <2>2, <2>3, LimitsAssumption
  <2>5. dev' \in [Devices -> Device]
    BY <1>1, <1>2, <2>1, CommandType DEF ReadThread, Device
  <2>6. UNCHANGED <<ui, board, pc, buf, link, alive, outside, torn>>
    BY <1>2 DEF ReadThread
  <2>7. TypeOK'
    BY <1>1, <2>4, <2>5, <2>6 DEF TypeOK, outside
  <2> QED
    BY <1>1, <2>6, <2>7 DEF Core, AliveIsOpen, SelectedKnown
<1>3. ASSUME NEW d \in Devices, Handle(d) PROVE Core'
  <2>1. dev' \in [Devices -> Device]
    BY <1>1, <1>3, HandledEffect DEF Handle
  <2>2. UNCHANGED <<ui, board, pc, buf, link, alive, queue, outside, torn>>
    BY <1>3 DEF Handle
  <2>3. TypeOK'
    BY <1>1, <2>1, <2>2 DEF TypeOK, outside
  <2> QED
    BY <1>1, <2>2, <2>3 DEF Core, AliveIsOpen, SelectedKnown
<1>4. ASSUME NEW d \in Devices, Unplug(d) \/ Plug(d) PROVE Core'
  <2>1. faults' \in 0 .. MaxFaults
    BY <1>1, <1>4, LimitsAssumption DEF Unplug, Plug, Fault, TypeOK
  <2>2. dev' \in [Devices -> Device]
    <3>1. 0 \in Ids
      BY LimitsAssumption DEF Ids
    <3> QED
      BY <1>1, <1>4, <3>1, CommandType DEF Unplug, Plug, Device
  <2>3. attached' \in SUBSET Devices /\ torn' \in SUBSET Devices
    BY <1>1, <1>4 DEF Unplug, Plug, TypeOK
  <2>4. alive' \in BOOLEAN /\ (alive' => alive)
    <3>1. alive \in BOOLEAN /\ (alive' = alive \/ alive' = (alive /\ link # d))
      BY <1>1, <1>4 DEF Unplug, Plug, TypeOK
    <3>2. CASE alive' = alive
      BY <3>1, <3>2
    <3>3. CASE alive' = (alive /\ link # d)
      <4>1. CASE link = d
        BY <3>3, <4>1
      <4>2. CASE link # d
        BY <3>1, <3>3, <4>2
      <4> QED
        BY <4>1, <4>2
    <3> QED
      BY <3>1, <3>2, <3>3
  <2>5. UNCHANGED <<ui, board, pc, buf, link, queue, polls, clicks, intent>>
    BY <1>4 DEF Unplug, Plug
  <2>6. TypeOK'
    BY <1>1, <2>1, <2>2, <2>3, <2>4, <2>5 DEF TypeOK
  <2> QED
    BY <1>1, <2>4, <2>5, <2>6 DEF Core, AliveIsOpen, SelectedKnown
<1> QED
  BY <1>2, <1>3, <1>4

(* Every step is one of these. *)
LEMMA StepCases ==
  ASSUME Inv, Next
  PROVE  \/ Sending
         \/ PollClosed \/ PollSwitches \/ PollStarts \/ Read \/ Reply
         \/ FindUSBDevices \/ SlowRead \/ User
         \/ ReadThread \/ \E d \in Devices : Handle(d) \/ Unplug(d) \/ Plug(d)
  BY StagesThatSend DEF Next, PollUSB

LEMMA TypeStep == Inv /\ [Next]_vars => Core'
<1>1. ASSUME Inv, Next PROVE Core'
  BY <1>1, StepCases, SendingType, PollType, WindowType, EnvironmentType
<1>2. ASSUME Inv, UNCHANGED vars PROVE Core'
  BY <1>2 DEF Inv, Core, TypeOK, AliveIsOpen, ListKnown, SelectedKnown, vars
<1> QED
  BY <1>1, <1>2

-----------------------------------------------------------------------------
(***************************************************************************)
(* The RF command, and the device commands go to.                          *)
(***************************************************************************)
Commands == RfPassed /\ RfIntentKept
Selection == ChangeTold /\ LinkIsSelected

(* A closed device: nothing is left to show of a poll or a selection. *)
LEMMA ClosedEffect ==
  ASSUME Inv, NEW u \in UIData, NEW b \in Board, ListKnown(u), CloseDevice(u, b),
         ui' = UIAfter(Cleared(u), b), u.RF_OUT = ui.RF_OUT,
         "rf" \in u.pending => "rf" \in ui.pending, intent' = intent
  PROVE  Commands' /\ Selection'
<1>1. /\ ~ui'.isConnected /\ ui'.RF_OUT = ui.RF_OUT
      /\ "rf" \in ui'.pending => "rf" \in ui.pending
  BY CloseEffect
<1>2. pc' = "idle" /\ ("rf" \in ui.pending => ui.RF_OUT = intent)
  BY DEF CloseDevice, Inv, RfIntentKept
<1> QED
  BY <1>1, <1>2 DEF Commands, Selection, RfPassed, RfIntentKept, ChangeTold, LinkIsSelected

LEMMA SendingStep ==
  ASSUME Inv, Sending
  PROVE  Commands' /\ Selection'
<1>1. PICK p \in Packet, u \in UIData, b \in Board, next \in Stages :
        Sends(p, u, b, next) /\ (Written(p, u, b, next) \/ WriteFails(u, b))
  BY DEF Sending
<1>2. /\ ListKnown(u) /\ u.RF_OUT = ui.RF_OUT /\ ("rf" \in u.pending => "rf" \in ui.pending)
      /\ next \notin {"reg", "rf"} => "rf" \notin u.pending
      /\ pc # "idle" /\ ui.isConnected /\ ~u.isDeviceChangeDone
      /\ ~b.isSelectedDeviceChange =>
           ~board.isSelectedDeviceChange /\ b.selected = board.selected
  BY <1>1 DEF Sends, Inv, TypeOK
<1>3. CASE Written(p, u, b, next)
  <2>1. ui' = u /\ board' = b /\ pc' = next /\ UNCHANGED <<link, intent>>
    BY <1>3 DEF Written, outside
  <2>2. RfIntentKept /\ LinkIsSelected
    BY DEF Inv
  <2> QED
    BY <1>2, <2>1, <2>2 DEF Commands, Selection, RfPassed, RfIntentKept, ChangeTold, LinkIsSelected
<1>4. CASE WriteFails(u, b)
  BY <1>2, <1>4, ClosedEffect DEF WriteFails
<1> QED
  BY <1>1, <1>3, <1>4

LEMMA PollStep ==
  ASSUME Inv, PollClosed \/ PollSwitches \/ PollStarts \/ Read \/ Reply
  PROVE  Commands' /\ Selection'
<1>1. /\ ui \in UIData /\ board \in Board /\ ListKnown(ui) /\ (pc # "idle" => ui.isConnected)
      /\ RfPassed /\ RfIntentKept /\ ChangeTold /\ LinkIsSelected
  BY DEF Inv, TypeOK
<1>2. CASE PollClosed
  <2> DEFINE u == UIAfter(ui, board)
  <2>1. /\ ~u.isConnected /\ u.RF_OUT = ui.RF_OUT /\ ("rf" \in u.pending <=> "rf" \in ui.pending)
        /\ u \in UIData /\ ~u.isDeviceChangeDone
    BY <1>1, <1>2, UIAfterEffect DEF PollClosed
  <2>2. u.selected = board'.selected
    BY <1>1, <1>2, UIAfterEffect, BoardAfterEffect DEF PollClosed
  <2>3. /\ pc = "idle" /\ UNCHANGED <<pc, intent>>
        /\ \/ ui' = [u EXCEPT !.isConnected = TRUE, !.isSelectedDeviceChange = FALSE]
             /\ link' = u.selected
           \/ ui' = u
    BY <1>2 DEF PollClosed
  <2> HIDE DEF u
  <2>4. /\ ui'.RF_OUT = ui.RF_OUT /\ ("rf" \in ui'.pending <=> "rf" \in ui.pending)
        /\ ~ui'.isDeviceChangeDone /\ (ui'.isConnected => link' = board'.selected)
    BY <2>1, <2>2, <2>3 DEF UIData
  <2> QED
    BY <1>1, <2>3, <2>4 DEF Commands, Selection, RfPassed, RfIntentKept, ChangeTold, LinkIsSelected
<1>3. CASE PollSwitches
  <2> DEFINE c == Cleared(ui)
             u == UIAfter(c, board)
  <2>1. /\ c \in UIData /\ ListKnown(c) /\ ~c.isConnected
        /\ c.RF_OUT = ui.RF_OUT /\ c.pending = ui.pending
    BY <1>1, ClearedEffect
  <2>2. /\ pc' = "idle" /\ intent' = intent
        /\ ui' = [u EXCEPT !.isSelectedDeviceChange = FALSE, !.isDeviceChangeDone = TRUE]
    BY <1>3 DEF PollSwitches, CloseDevice, outside
  <2> HIDE DEF c
  <2>3. /\ u \in UIData /\ ~u.isConnected /\ u.RF_OUT = ui.RF_OUT
        /\ "rf" \in u.pending <=> "rf" \in ui.pending
    BY <1>1, <2>1, UIAfterEffect
  <2> HIDE DEF u
  <2>4. /\ ~ui'.isConnected /\ ui'.RF_OUT = ui.RF_OUT
        /\ "rf" \in ui'.pending <=> "rf" \in ui.pending
    BY <2>2, <2>3 DEF UIData
  <2> QED
    BY <1>1, <2>2, <2>4 DEF Commands, Selection, RfPassed, RfIntentKept, ChangeTold, LinkIsSelected
<1>4. CASE PollStarts
  <2>1. /\ pc' = From(1, ui) /\ UNCHANGED <<ui, board, link, intent>>
        /\ "rf" \in ui.pending => From(1, ui) \in {"reg", "rf"}
    BY <1>1, <1>4, FromEffect DEF PollStarts
  <2> QED
    BY <1>1, <2>1 DEF Commands, Selection, RfPassed, RfIntentKept, ChangeTold, LinkIsSelected
<1>5. CASE Read
  <2>1. /\ pc \in {"readinfo", "readstatus"} /\ intent' = intent
        /\ \/ UNCHANGED <<ui, board, link>>
           \/ CloseDevice(ui, board) /\ ui' = UIAfter(Cleared(ui), board)
    BY <1>5 DEF Read, outside
  <2>2. "rf" \notin ui.pending
    BY <1>1, <2>1 DEF RfPassed
  <2>3. CASE UNCHANGED <<ui, board, link>>
    BY <1>1, <2>1, <2>2, <2>3
       DEF Commands, Selection, RfPassed, RfIntentKept, ChangeTold, LinkIsSelected
  <2>4. CASE CloseDevice(ui, board) /\ ui' = UIAfter(Cleared(ui), board)
    BY <1>1, <2>1, <2>4, ClosedEffect
  <2> QED
    BY <2>1, <2>3, <2>4
<1>6. CASE Reply
  <2>1. /\ pc = "reply" /\ pc' = "idle" /\ UNCHANGED <<link, intent>>
    BY <1>6 DEF Reply, outside
  <2>2. "rf" \notin ui.pending /\ ui.isConnected /\ ~ui.isDeviceChangeDone
    BY <1>1, <2>1 DEF RfPassed, ChangeTold
  <2>3. CASE buf.kind = "none"
    BY <1>1, <1>6, <2>1, <2>2, <2>3
       DEF Reply, Commands, Selection, RfPassed, RfIntentKept, ChangeTold, LinkIsSelected
  <2>4. CASE buf.kind # "none"
    <3> DEFINE told == IF buf.kind = "status" THEN [Done("status") EXCEPT !.RF_OUT = buf.rf]
                                              ELSE Done("info")
    <3>1. Update(told)
      BY <1>6, <2>4 DEF Reply
    <3>2. buf.rf \in BOOLEAN /\ TypeOK
      BY DEF Inv, TypeOK, Report
    <3>3. /\ told \in UIData /\ ListKnown(told) /\ "rf" \notin told.pending
          /\ ~told.isDeviceChangeDone
      BY <1>1, <2>2, <3>2, DoneEffect DEF UIData, ListKnown
    <3> HIDE DEF told
    <3>4. /\ ~ui'.isDeviceChangeDone /\ "rf" \notin ui'.pending
          /\ ~board'.isSelectedDeviceChange =>
               ~board.isSelectedDeviceChange /\ board'.selected = board.selected
      BY <1>1, <3>1, <3>3, UpdateEffect
    <3> QED
      BY <1>1, <2>1, <2>2, <3>4
         DEF Commands, Selection, RfPassed, RfIntentKept, ChangeTold, LinkIsSelected
  <2> QED
    BY <2>3, <2>4
<1> QED
  BY <1>2, <1>3, <1>4, <1>5, <1>6

LEMMA WindowStep ==
  ASSUME Inv, FindUSBDevices \/ SlowRead \/ User
  PROVE  Commands' /\ Selection'
<1>1. /\ ui \in UIData /\ board \in Board /\ ListKnown(ui)
      /\ RfPassed /\ RfIntentKept /\ ChangeTold /\ LinkIsSelected
  BY DEF Inv, TypeOK
<1>2. CASE FindUSBDevices
  <2>1. /\ pc = "idle" /\ UNCHANGED <<pc, link, intent>>
        /\ ui'.isConnected = ui.isConnected /\ ui'.RF_OUT = ui.RF_OUT
        /\ "rf" \in ui'.pending <=> "rf" \in ui.pending
        /\ ~ui.isDeviceChangeDone => ~ui'.isDeviceChangeDone
        /\ ~ui.isDeviceChangeDone /\ ~board'.isSelectedDeviceChange =>
             ~board.isSelectedDeviceChange /\ board'.selected = board.selected
    BY <1>2, FindEffect DEF usb
  <2> QED
    BY <1>1, <2>1 DEF Commands, Selection, RfPassed, RfIntentKept, ChangeTold, LinkIsSelected
<1>3. CASE SlowRead \/ ChangeReg \/ (\E c \in Requests : Request(c))
  <2>1. /\ pc = "idle" /\ UNCHANGED <<pc, link, intent>>
        /\ board'.selected = board.selected
        /\ board'.isSelectedDeviceChange = board.isSelectedDeviceChange
    BY <1>1, <1>3 DEF SlowRead, ChangeReg, Request, Click, usb, Board
  <2>2. /\ ui'.isConnected = ui.isConnected /\ ui'.RF_OUT = ui.RF_OUT
        /\ "rf" \in ui'.pending <=> "rf" \in ui.pending
        /\ ui'.isDeviceChangeDone = ui.isDeviceChangeDone
    <3>1. CASE SlowRead
      BY <1>1, <3>1 DEF SlowRead, UIData
    <3>2. CASE ChangeReg
      BY <1>1, <3>2 DEF ChangeReg, UIData
    <3>3. ASSUME NEW c \in Requests, Request(c)
          PROVE  ui' = ui \/ ui' = [ui EXCEPT !.pending = @ \cup {"reg"}]
      BY <3>3 DEF Request
    <3>4. CASE ui' = ui \/ ui' = [ui EXCEPT !.pending = @ \cup {"reg"}]
      BY <1>1, <3>4 DEF UIData
    <3> QED
      BY <1>3, <3>1, <3>2, <3>3, <3>4
  <2> QED
    BY <1>1, <2>1, <2>2 DEF Commands, Selection, RfPassed, RfIntentKept, ChangeTold, LinkIsSelected
<1>4. ASSUME NEW v \in BOOLEAN, SendRf(v) PROVE Commands' /\ Selection'
  <2>1. /\ pc = "idle" /\ UNCHANGED <<pc, link>> /\ intent' = v /\ ui'.RF_OUT = v
        /\ ui'.isConnected = ui.isConnected /\ ~ui'.isDeviceChangeDone
        /\ ~ui.isDeviceChangeDone /\ ~board'.isSelectedDeviceChange =>
             ~board.isSelectedDeviceChange /\ board'.selected = board.selected
    BY <1>4, SendRfEffect DEF usb
  <2> QED
    BY <1>1, <2>1 DEF Commands, Selection, RfPassed, RfIntentKept, ChangeTold, LinkIsSelected
<1>5. ASSUME NEW n \in Entries, Select(n) PROVE Commands' /\ Selection'
  <2>1. pc = "idle" /\ UNCHANGED <<ui, pc, intent>> /\ board'.isSelectedDeviceChange
    BY <1>1, <1>5 DEF Select, Click, usb, Board
  <2> QED
    BY <1>1, <2>1 DEF Commands, Selection, RfPassed, RfIntentKept, ChangeTold, LinkIsSelected
<1>6. ui.RF_OUT \in BOOLEAN
  BY <1>1 DEF UIData
<1> QED
  BY <1>2, <1>3, <1>4, <1>5, <1>6 DEF User, ChangeRf, SetRfState

LEMMA CommandStep == Inv /\ [Next]_vars => Commands' /\ Selection'
<1> DEFINE Same == UNCHANGED <<ui, board, pc, link, intent>>
<1>1. ASSUME Inv, Same PROVE Commands' /\ Selection'
  BY <1>1 DEF Inv, Commands, Selection, RfPassed, RfIntentKept, ChangeTold, LinkIsSelected
<1>2. ASSUME ReadThread \/ \E d \in Devices : Handle(d) \/ Unplug(d) \/ Plug(d) PROVE Same
  BY <1>2 DEF ReadThread, Handle, Unplug, Plug, outside
<1>3. ASSUME UNCHANGED vars PROVE Same
  BY <1>3 DEF vars
<1> HIDE DEF Same
<1>4. ASSUME Inv, Next PROVE Commands' /\ Selection'
  BY <1>1, <1>2, <1>4, StepCases, SendingStep, PollStep, WindowStep
<1> QED
  BY <1>1, <1>3, <1>4

-----------------------------------------------------------------------------
(***************************************************************************)
(* The two blocks of a macro.                                              *)
(***************************************************************************)
Macros == MacroMoves /\ MacroIsWhole

(* Steps that leave devices alone and are not between the blocks. *)
LEMMA MacroFrame ==
  ASSUME Inv, UNCHANGED <<dev, torn>>, pc # "macro1", pc' # "macro1"
  PROVE  Macros'
  BY DEF Inv, Macros, MacroMoves, MacroIsWhole, HalfMacro

LEMMA ApplicationMacros ==
  ASSUME Inv,
         \/ PollClosed \/ PollSwitches \/ PollStarts \/ Read \/ Reply
         \/ FindUSBDevices \/ SlowRead \/ User
  PROVE  Macros'
<1>1. ui \in UIData /\ "macro1" \notin Pending \cup {"reply"}
  BY DEF Inv, TypeOK, Pending
<1>2. CASE PollClosed \/ PollSwitches \/ Reply
  BY <1>2, MacroFrame DEF PollClosed, PollSwitches, Reply, CloseDevice
<1>3. CASE PollStarts
  <2>1. pc' # "macro1"
    BY <1>1, <1>3, FromEffect DEF PollStarts
  <2> QED
    BY <1>3, <2>1, MacroFrame DEF PollStarts
<1>4. CASE Read
  <2>1. After("info", ui) # "macro1"
    BY <1>1, AfterEffect DEF Pending
  <2> QED
    BY <1>4, <2>1, MacroFrame DEF Read, CloseDevice
<1>5. CASE FindUSBDevices \/ SlowRead \/ User
  <2>1. pc = "idle" /\ UNCHANGED <<pc, dev, torn>>
    BY <1>5 DEF FindUSBDevices, SlowRead, User, ChangeReg, ChangeRf, SetRfState, SendRf,
                Request, Select, Click, usb
  <2> QED
    BY <2>1, MacroFrame
<1> QED
  BY <1>2, <1>3, <1>4, <1>5

LEMMA SendingMacros ==
  ASSUME Inv, Sending
  PROVE  Macros'
<1>1. PICK p \in Packet, u \in UIData, b \in Board, next \in Stages :
        /\ Sends(p, u, b, next)
        /\ \/ Written(p, u, b, next) /\ torn' = IF pc = "macro1" THEN torn \ {link} ELSE torn
           \/ WriteFails(u, b) /\ torn' = IF pc = "macro1" THEN torn \cup {link} ELSE torn
  BY DEF Sending
<1>2. link \in Devices /\ dev \in [Devices -> Device] /\ MacroMoves /\ MacroIsWhole
  BY <1>1 DEF Sends, Inv, TypeOK
<1>3. /\ p.cmd = "macro1" <=> pc = "macro1"
      /\ p.cmd = "macro" <=> next = "macro1"
      /\ p.cmd = "macro" => p.id = u.macro
      /\ p.cmd = "macro1" => p.id = ui.macro
  BY <1>1 DEF Sends
<1>4. CASE Written(p, u, b, next)
  <2>1. /\ ui' = u /\ pc' = next /\ link' = link /\ alive' = alive /\ alive
        /\ dev[link].mail = NoPacket
        /\ torn' = IF pc = "macro1" THEN torn \ {link} ELSE torn
    BY <1>1, <1>4 DEF Written, WriteFails, CloseDevice, Inv, TypeOK
  <2>2. /\ dev'[link].mail = p /\ dev'[link].macro = dev[link].macro
        /\ \A d \in Devices \ {link} : dev'[d] = dev[d]
    BY <1>2, <1>4 DEF Written, Device
  <2>3. NoPacket.cmd = "none"
    BY CommandType
  <2>4. ASSUME NEW d \in Devices \ torn'
        PROVE  /\ dev'[d].mail.cmd = "macro" => pc' = "macro1" /\ link' = d
               /\ dev'[d].mail.cmd = "macro1" => dev'[d].mail.id = dev'[d].macro[1]
               /\ HalfMacro(d)' \/ dev'[d].macro[1] = dev'[d].macro[2]
    <3>1. CASE d = link
      BY <1>2, <1>3, <2>1, <2>2, <2>3, <3>1 DEF MacroMoves, MacroIsWhole, HalfMacro
    <3>2. CASE d # link
      BY <1>2, <2>1, <2>2, <3>2 DEF MacroMoves, MacroIsWhole, HalfMacro
    <3> QED
      BY <3>1, <3>2
  <2> QED
    BY <1>3, <2>1, <2>2, <2>4 DEF Macros, MacroMoves, MacroIsWhole
<1>5. CASE WriteFails(u, b)
  <2>1. /\ pc' = "idle" /\ alive' = FALSE /\ dev' = dev
        /\ torn' = torn \/ torn' = torn \cup {link}
        /\ pc = "macro1" => link \in torn'
    BY <1>1, <1>2, <1>5, CommandType DEF Written, WriteFails, CloseDevice, Sends, Stages, Pending
  <2> QED
    BY <1>2, <2>1 DEF Macros, MacroMoves, MacroIsWhole, HalfMacro
<1> QED
  BY <1>1, <1>4, <1>5

LEMMA EnvironmentMacros ==
  ASSUME Inv, ReadThread \/ \E d \in Devices : Handle(d) \/ Unplug(d) \/ Plug(d)
  PROVE  Macros'
<1>1. /\ dev \in [Devices -> Device] /\ (alive => link \in Devices)
      /\ MacroMoves /\ MacroIsWhole
      /\ alive \in BOOLEAN
  BY DEF Inv, TypeOK, AliveIsOpen
<1>2. CASE ReadThread
  <2>1. \A d \in Devices : dev'[d].mail = dev[d].mail /\ dev'[d].macro = dev[d].macro
    BY <1>1, <1>2 DEF ReadThread, Device
  <2>2. UNCHANGED <<ui, pc, link, alive, torn>>
    BY <1>2 DEF ReadThread
  <2> QED
    BY <1>1, <2>1, <2>2 DEF Macros, MacroMoves, MacroIsWhole, HalfMacro
<1>3. ASSUME NEW d \in Devices, Handle(d) PROVE Macros'
  <2>1. /\ dev[d].mail # NoPacket /\ dev'[d] = Handled(dev[d])
        /\ \A e \in Devices \ {d} : dev'[e] = dev[e]
        /\ UNCHANGED <<ui, pc, link, alive, torn>>
    BY <1>1, <1>3 DEF Handle
  <2>2. /\ dev'[d].mail = NoPacket /\ NoPacket.cmd = "none"
        /\ dev'[d].macro = CASE dev[d].mail.cmd = "macro"  -> <<dev[d].mail.id, dev[d].macro[2]>>
                             [] dev[d].mail.cmd = "macro1" -> <<dev[d].macro[1], dev[d].mail.id>>
                             [] OTHER -> dev[d].macro
    BY <1>1, <2>1, HandledEffect, CommandType
  <2>3. CASE dev[d].mail.cmd = "macro"
    <3>1. dev'[d].macro[1] = dev[d].mail.id
      BY <2>2, <2>3
    <3> QED
      BY <1>1, <2>1, <2>2, <2>3, <3>1 DEF Macros, MacroMoves, MacroIsWhole, HalfMacro
  <2>4. CASE dev[d].mail.cmd = "macro1"
    <3>1. dev'[d].macro[1] = dev[d].macro[1] /\ dev'[d].macro[2] = dev[d].mail.id
      BY <2>2, <2>4
    <3> QED
      BY <1>1, <2>1, <2>2, <2>4, <3>1 DEF Macros, MacroMoves, MacroIsWhole, HalfMacro
  <2>5. CASE dev[d].mail.cmd \notin {"macro", "macro1"}
    <3>1. dev'[d].macro = dev[d].macro
      BY <2>2, <2>5
    <3> QED
      BY <1>1, <2>1, <2>2, <2>5, <3>1 DEF Macros, MacroMoves, MacroIsWhole, HalfMacro
  <2> QED
    BY <2>3, <2>4, <2>5
<1>4. ASSUME NEW d \in Devices, Unplug(d) PROVE Macros'
  <2>1. /\ dev'[d].mail = NoPacket /\ NoPacket.cmd = "none" /\ dev'[d].macro = dev[d].macro
        /\ \A e \in Devices \ {d} : dev'[e] = dev[e]
    BY <1>1, <1>4, CommandType DEF Unplug, Device
  <2>2. /\ alive' = (alive /\ link # d)
        /\ torn' = (IF HalfMacro(d) THEN torn \cup {d} ELSE torn)
        /\ UNCHANGED <<ui, pc, link>>
    BY <1>4 DEF Unplug
  <2>3. alive' => alive /\ link # d
    BY <1>1, <2>2
  <2>4. torn \subseteq torn' /\ (HalfMacro(d) => d \in torn')
    BY <2>2
  <2> QED
    BY <1>1, <2>1, <2>2, <2>3, <2>4 DEF Macros, MacroMoves, MacroIsWhole, HalfMacro
<1>5. ASSUME NEW d \in Devices, Plug(d) PROVE Macros'
  <2>1. \A e \in Devices : dev'[e].mail = dev[e].mail /\ dev'[e].macro = dev[e].macro
    BY <1>1, <1>5 DEF Plug, Device
  <2>2. UNCHANGED <<ui, pc, link, alive, torn>>
    BY <1>5 DEF Plug
  <2> QED
    BY <1>1, <2>1, <2>2 DEF Macros, MacroMoves, MacroIsWhole, HalfMacro
<1> QED
  BY <1>2, <1>3, <1>4, <1>5

LEMMA MacroStep == Inv /\ [Next]_vars => Macros'
<1>1. ASSUME Inv, Next PROVE Macros'
  BY <1>1, StepCases, SendingMacros, ApplicationMacros, EnvironmentMacros
<1>2. ASSUME Inv, UNCHANGED vars PROVE Macros'
  BY <1>2 DEF Inv, Macros, MacroMoves, MacroIsWhole, HalfMacro, vars
<1> QED
  BY <1>1, <1>2

-----------------------------------------------------------------------------
(***************************************************************************)
(* The theorems.                                                           *)
(***************************************************************************)
LEMMA InitInv == Init => Inv
<1> SUFFICES ASSUME Init PROVE Inv
  OBVIOUS
<1>1. Core
  BY InitType
<1>2. /\ pc = "idle" /\ ~ui.isConnected /\ ~alive /\ torn = {}
      /\ ui.RF_OUT = intent
  BY DEF Init
<1>3. RfPassed /\ RfIntentKept /\ ChangeTold /\ LinkIsSelected
  BY <1>2 DEF RfPassed, RfIntentKept, ChangeTold, LinkIsSelected
<1>4. \A rf \in BOOLEAN : Fresh(rf).mail = NoPacket /\ Fresh(rf).macro = <<0, 0>>
  BY DEF Fresh
<1>5. \A d \in Devices : dev[d].mail.cmd = "none" /\ dev[d].macro[1] = dev[d].macro[2]
  <2> SUFFICES ASSUME NEW d \in Devices
               PROVE  dev[d].mail.cmd = "none" /\ dev[d].macro[1] = dev[d].macro[2]
    OBVIOUS
  <2>1. PICK rf \in BOOLEAN : dev[d] = Fresh(rf)
    BY DEF Init
  <2> QED
    BY <1>4, <2>1, CommandType
<1>6. MacroMoves /\ MacroIsWhole
  BY <1>2, <1>5 DEF MacroMoves, MacroIsWhole
<1> QED
  BY <1>1, <1>3, <1>6 DEF Inv, Core

(* Every state has the strengthened invariant. *)
THEOREM Invariance == Spec => []Inv
<1>1. Inv /\ [Next]_vars => Inv'
  BY TypeStep, CommandStep, MacroStep DEF Inv, Core, Commands, Selection, Macros
<1> QED
  BY InitInv, <1>1, PTL DEF Spec

(* Whatever devices and users do, the data of HID_PnP keeps its types, a   *)
(* queue never holds more than HIDAPI lets it, and HID_PnP takes itself    *)
(* for connected exactly while a device is open.                           *)
THEOREM TypesKept == Spec => []TypeOK
<1>1. Inv => TypeOK
  BY DEF Inv
<1> QED
  BY Invariance, <1>1, PTL

(* PollUSB and the slots: a late reply does not change an RF command that  *)
(* waits to be sent.                                                       *)
THEOREM RfIntent == Spec => []RfIntentKept
<1>1. Inv => RfIntentKept
  BY DEF Inv
<1> QED
  BY Invariance, <1>1, PTL

(* update_gui and PollUSB: while no change of the selection is on its way, *)
(* the device that is open is the one selected.                            *)
THEOREM LinkSelected == Spec => []LinkIsSelected
<1>1. Inv => LinkIsSelected
  BY DEF Inv
<1> QED
  BY Invariance, <1>1, PTL

(* PollUSB's two writes of a macro: a device in which neither was lost     *)
(* holds two blocks of one program.                                        *)
THEOREM MacroWhole == Spec => []MacroIsWhole
<1>1. Inv => MacroIsWhole
  BY DEF Inv
<1> QED
  BY Invariance, <1>1, PTL
=============================================================================
