---------------------------- MODULE HidApiProofs ----------------------------
(***************************************************************************)
(* HIDAPI with whichever back end a build links: types, wake-ups, the run  *)
(* loop, the event, and the safety part of the implementation of           *)
(* ReportDevice, for every value of the constants.  The Linux and macOS    *)
(* back ends have their invariants in HidLibusbProofs and HidMacProofs;    *)
(* the one of the Windows back end comes first.                            *)
(***************************************************************************)
EXTENDS HidApi, SequenceTheorems, TLAPS

(* Where the caller is in a call, and what is open meanwhile.              *)
CallerPlaces ==
  /\ app = "open" <=> link = "opening"
  /\ app = "free" <=> link = "closing"
  /\ app \in {"reset", "start", "wait", "result"} <=> call # "none"
  /\ app \in {"reset", "start", "wait", "result", "writing"} => link = "open"

(* What becomes of the read: none is left while the device is not open, it *)
(* waits only when the driver has nothing, and fails only without device.  *)
ReadPlaces ==
  /\ link \in {"closed", "opening"} => io = "none" /\ reports = <<>>
  /\ io = "pending" => reports = <<>>
  /\ io = "failed" => ~plugged

(* read_pending says of the read that it runs or is done, the event that   *)
(* it is done, wherever the next call looks at them.                       *)
FlagsTell ==
  /\ app \in {"idle", "writing"} /\ link = "open" => (pending <=> io # "none")
  /\ app = "reset" => ~pending /\ io = "none"
  /\ app = "start" => pending /\ ~event /\ io = "none"
  /\ app \in {"wait", "result"} => pending /\ io # "none"
  /\ app = "wait" \/ (app \in {"idle", "writing"} /\ link = "open" /\ pending)
       => (event <=> io \in {"done", "failed"})

WindowsInv == Windows!TypeOK /\ CallerPlaces /\ ReadPlaces /\ FlagsTell

-----------------------------------------------------------------------------
LEMMA EmptyQueue == <<>> \in Windows!Queue
BY LimitsAssumption DEF Windows!Queue

LEMMA QueuedStays ==
  ASSUME NEW list \in Windows!Queue, NEW report \in Nat
  PROVE  Windows!Queued(list, report) \in Windows!Queue
BY LimitsAssumption DEF Windows!Queue, Windows!Queued

LEMMA TailStays ==
  ASSUME NEW list \in Windows!Queue, list # <<>>
  PROVE  Tail(list) \in Windows!Queue /\ Head(list) \in Nat /\ <<Head(list)>> \o Tail(list) = list
BY LimitsAssumption DEF Windows!Queue

(* Every step keeps the invariant.                                         *)
LEMMA WindowsStepKeeps ==
  ASSUME WindowsInv, Windows!Next
  PROVE  WindowsInv'
<1> USE ModesAssumption, LimitsAssumption, EmptyQueue
    DEF WindowsInv, Windows!TypeOK, Windows!CallerOK, CallerPlaces, ReadPlaces,
         FlagsTell, Windows!device, Windows!caller, Windows!winVars
<1>1. CASE Windows!Unplug /\ UNCHANGED Windows!winVars
  BY <1>1 DEF Windows!Unplug
<1>2. CASE Windows!Plug /\ UNCHANGED Windows!winVars
  BY <1>2 DEF Windows!Plug
<1>3. CASE Windows!Find
  BY <1>3 DEF Windows!Find, Windows!Finds, Windows!Listed, Windows!OpenDevice
<1>4. CASE Windows!CannotOpen
  BY <1>4 DEF Windows!CannotOpen, Windows!NotOpened
<1>5. CASE Windows!OpenPath
  BY <1>5 DEF Windows!OpenPath, Windows!Opened, Windows!OpenDevice, Windows!NewDevice
<1>6. CASE \E mode \in Modes : Windows!Read(mode)
  BY <1>6 DEF Windows!Read, Windows!Reading
<1>7. CASE Windows!ResetEvent
  BY <1>7 DEF Windows!ResetEvent, Windows!Goes
<1>8. CASE Windows!ReadFileFails
  BY <1>8 DEF Windows!ReadFileFails, Windows!ReturnsNothing, Windows!Returns
<1>9. CASE Windows!WaitEnds
  BY <1>9 DEF Windows!WaitEnds, Windows!Goes
<1>10. CASE Windows!WaitTimesOut
  BY <1>10 DEF Windows!WaitTimesOut, Windows!ReturnsNothing, Windows!Returns
<1>11. CASE Windows!NoWait
  BY <1>11 DEF Windows!NoWait, Windows!Goes
<1>12. CASE Windows!ReadIsFailed
  BY <1>12 DEF Windows!ReadIsFailed
<1>13. CASE Windows!Close
  BY <1>13 DEF Windows!Close, Windows!Closing
<1>14. CASE Windows!ReadFile
  BY <1>14, TailStays DEF Windows!ReadFile, Windows!Goes
<1>15. CASE Windows!Result
  BY <1>15 DEF Windows!Result, Windows!ReturnsNothing, Windows!Returns
<1>16. CASE Windows!Arrives
  <2>1. sent' \in Nat /\ plugged /\ sent' \in 0 .. MaxReports /\ link = "open"
    BY <1>16 DEF Windows!Arrives, Windows!Send
  <2>2. UNCHANGED <<plugged, broken, link, call, given, opens, app, pending>>
    BY <1>16 DEF Windows!Arrives, Windows!Send
  <2>3. CASE io = "pending"
    <3>1. io' = "done" /\ event' = TRUE /\ bytes' = sent' /\ UNCHANGED reports
      BY <1>16, <2>3 DEF Windows!Arrives
    <3> QED BY <2>1, <2>2, <2>3, <3>1
  <2>4. CASE io # "pending"
    <3>1. reports' = Windows!Queued(reports, sent') /\ UNCHANGED <<io, event, bytes>>
      BY <1>16, <2>4 DEF Windows!Arrives
    <3>2. reports' \in Windows!Queue
      BY <2>1, <3>1, QueuedStays
    <3> QED BY <2>1, <2>2, <2>4, <3>1, <3>2
  <2> QED BY <2>3, <2>4
<1>17. CASE Windows!CloseFrees
  BY <1>17 DEF Windows!CloseFrees, Windows!Closed
<1>18. CASE Windows!Write \/ Windows!WriteEnds
  BY <1>18 DEF Windows!Write, Windows!WriteEnds, Windows!Goes
<1> QED
  BY <1>1, <1>2, <1>3, <1>4, <1>5, <1>6, <1>7, <1>8, <1>9,
     <1>10, <1>11, <1>12, <1>13, <1>14, <1>15, <1>16, <1>17, <1>18
  DEF Windows!Next, Windows!Caller

-----------------------------------------------------------------------------
(* The report that the overlapped read brought comes before those that the *)
(* driver keeps.                                                           *)
LEMMA WaitingOnWindows ==
  ASSUME backend = "windows", reports \in Windows!Queue
  PROVE  Waiting = IF io = "done" THEN <<bytes>> \o reports ELSE reports
BY DEF Waiting, Windows!Queue

LEMMA WaitingThen ==
  ASSUME (backend = "windows")', (reports \in Windows!Queue)'
  PROVE  Waiting' = IF io' = "done" THEN <<bytes'>> \o reports' ELSE reports'
BY DEF Waiting, Windows!Queue

(* A step that leaves the read and the reports alone leaves the queue so.  *)
LEMMA SameWaiting ==
  ASSUME backend = "windows", backend' = backend,
         reports' = reports, bytes' = bytes, io' = "done" <=> io = "done"
  PROVE  Waiting' = Waiting
BY DEF Waiting

LEMMA SecondLeftOut ==
  ASSUME NEW more \in Seq(Nat), more # <<>>, NEW first \in Nat
  PROVE  <<first>> \o Tail(more) = Device!Without(<<first>> \o more, 2)
<1> DEFINE all   == <<first>> \o more
           left  == SubSeq(all, 1, 1)
           right == SubSeq(all, 3, Len(all))
<1>1. Len(more) \in Nat /\ Len(more) > 0 /\ <<first>> \in Seq(Nat) /\ Len(<<first>>) = 1
      /\ <<first>>[1] = first
  BY EmptySeq
<1>2. /\ all \in Seq(Nat) /\ Len(all) = Len(more) + 1
      /\ \A i \in 1 .. Len(more) + 1 : all[i] = IF i =< 1 THEN first ELSE more[i - 1]
  BY <1>1, ConcatProperties
<1> HIDE DEF all
<1>3. \A i \in 1 .. Len(all) : all[i] \in Nat
  BY <1>2, ElementOfSeq
<1>4. left \in Seq(Nat) /\ Len(left) = 1 /\ left[1] = first
  <2>1. \A i \in 1 .. 1 : all[i] \in Nat
    BY <1>1, <1>2, <1>3
  <2>2. /\ left \in Seq(Nat) /\ Len(left) = 1 - 1 + 1
        /\ \A i \in 1 .. 1 - 1 + 1 : left[i] = all[1 + i - 1]
    BY <2>1, SubSeqProperties
  <2> HIDE DEF left
  <2>3. all[1] = first
    BY <1>1, <1>2
  <2>4. Len(left) = 1
    BY <2>2
  <2>5. left[1] = all[1]
    <3>1. 1 \in 1 .. 1 - 1 + 1 /\ 1 + 1 - 1 = 1
      OBVIOUS
    <3> QED BY <2>2, <3>1
  <2> QED BY <2>2, <2>3, <2>4, <2>5
<1>5. left = <<first>>
  <2> HIDE DEF left
  <2>1. Len(left) = Len(<<first>>) /\ \A i \in 1 .. Len(left) : left[i] = <<first>>[i]
    BY <1>1, <1>4
  <2> QED BY <1>1, <1>4, <2>1, SeqEqual
<1>6. /\ right \in Seq(Nat) /\ Len(right) = Len(more) - 1
      /\ \A i \in 1 .. Len(more) - 1 : right[i] = more[i + 1]
  <2>1. \A i \in 3 .. Len(all) : all[i] \in Nat
    BY <1>3
  <2>0. Len(all) \in Int
    BY <1>1, <1>2
  <2>2. /\ right \in Seq(Nat) /\ Len(right) = IF 3 <= Len(all) THEN Len(all) - 3 + 1 ELSE 0
        /\ \A i \in 1 .. Len(all) - 3 + 1 : right[i] = all[3 + i - 1]
    BY <2>0, <2>1, SubSeqProperties
  <2> HIDE DEF right
  <2>3. Len(right) = Len(more) - 1
    <3>1. CASE Len(more) = 1
      BY <1>2, <2>2, <3>1
    <3>2. CASE Len(more) > 1
      BY <1>1, <1>2, <2>2, <3>2
    <3>3. Len(more) \in Nat /\ Len(more) > 0
      BY <1>1
    <3>4. \A n \in Nat : n > 0 => n = 1 \/ n > 1
      OBVIOUS
    <3> QED BY <3>1, <3>2, <3>3, <3>4
  <2>4. ASSUME NEW i \in 1 .. Len(more) - 1 PROVE right[i] = more[i + 1]
    <3>1. i \in 1 .. Len(all) - 3 + 1 /\ 3 + i - 1 = i + 2
      BY <1>1, <1>2
    <3>2. right[i] = all[i + 2]
      BY <2>2, <3>1
    <3>3. i + 2 \in 1 .. Len(more) + 1 /\ ~(i + 2 =< 1) /\ i + 2 - 1 = i + 1
      BY <1>1
    <3> QED BY <1>2, <3>2, <3>3
  <2> QED BY <2>2, <2>3, <2>4
<1>7. right = Tail(more)
  <2>1. Tail(more) \in Seq(Nat) /\ Len(Tail(more)) = Len(more) - 1
        /\ \A i \in 1 .. Len(Tail(more)) : Tail(more)[i] = more[i + 1]
    BY HeadTailProperties
  <2> HIDE DEF right
  <2> QED BY <1>6, <2>1, SeqEqual
<1>8. Device!Without(all, 2) = left \o right
  BY DEF Device!Without
<1> QED
  BY <1>5, <1>7, <1>8 DEF all

(* Of too many reports the driver drops its oldest: the oldest of all, or  *)
(* the one behind the report that the read has brought.                    *)
LEMMA QueuedDrops ==
  ASSUME NEW list \in Windows!Queue, NEW first \in Nat, NEW report \in Nat
  PROVE  /\ Windows!Queued(list, report)
              \in {Append(list, report)} \cup Device!Dropped(Append(list, report))
         /\ <<first>> \o Windows!Queued(list, report)
              \in {Append(<<first>> \o list, report)}
                    \cup Device!Dropped(Append(<<first>> \o list, report))
<1> DEFINE more == Append(list, report)
           all  == Append(<<first>> \o list, report)
<1>1. list \in Seq(Nat) /\ QueueLimit \in Nat
  BY LimitsAssumption DEF Windows!Queue
<1>2. CASE Len(list) > QueueLimit + 1
  <2>1. Windows!Queued(list, report) = Tail(more)
    BY <1>2 DEF Windows!Queued
  <2>2. Len(more) > QueueLimit /\ Len(all) > QueueLimit
    BY <1>1, <1>2
  <2>3. Tail(more) = Device!Without(more, 1)
    BY <1>1, <1>2 DEF Device!Without
  <2>4. <<first>> \o Tail(more) = Device!Without(all, 2)
    <3>1. more \in Seq(Nat) /\ more # <<>> /\ all = <<first>> \o more
      BY <1>1
    <3> QED BY <3>1, SecondLeftOut
  <2> QED BY <2>1, <2>2, <2>3, <2>4 DEF Device!Dropped
<1>3. CASE ~(Len(list) > QueueLimit + 1)
  <2>1. Windows!Queued(list, report) = more
    BY <1>3 DEF Windows!Queued
  <2>2. <<first>> \o more = all
    BY <1>1
  <2> QED BY <2>1, <2>2
<1> QED
  BY <1>2, <1>3

(* Every step is one of the device's, or a stutter.                        *)
LEMMA WindowsImplements ==
  ASSUME WindowsInv, Windows!Next, backend = "windows", backend' = backend
  PROVE  [Device!Next]_(Device!vars)
<1>a. reports' \in Windows!Queue
  BY WindowsStepKeeps DEF WindowsInv, Windows!TypeOK
<1>b. Waiting = IF io = "done" THEN <<bytes>> \o reports ELSE reports
  BY WaitingOnWindows DEF WindowsInv, Windows!TypeOK
<1>c. Waiting' = IF io' = "done" THEN <<bytes'>> \o reports' ELSE reports'
  BY <1>a, WaitingThen
<1> USE DEF WindowsInv, Windows!TypeOK, Windows!CallerOK, CallerPlaces, ReadPlaces,
      FlagsTell, Windows!device, Windows!caller, Windows!winVars
<1>1. CASE Windows!Unplug /\ UNCHANGED Windows!winVars
  <2>1. Waiting' = Waiting BY <1>1, SameWaiting DEF Windows!Unplug
  <2> QED BY <1>1, <2>1 DEF Windows!Unplug, Device!Next, Device!Unplug
<1>2. CASE Windows!Plug /\ UNCHANGED Windows!winVars
  <2>1. Waiting' = Waiting BY <1>2, SameWaiting DEF Windows!Plug
  <2> QED BY <1>2, <2>1 DEF Windows!Plug, Device!Next, Device!Plug
<1>3. CASE Windows!Find
  <2>1. Waiting' = Waiting BY <1>3, SameWaiting DEF Windows!Find, Windows!Finds, Windows!Listed, Windows!OpenDevice
  <2> QED BY <1>3, <2>1
    DEF Windows!Find, Windows!Finds, Windows!Listed, Windows!OpenDevice, Device!Next, Device!Open
<1>4. CASE Windows!CannotOpen
  <2>1. Waiting' = Waiting BY <1>4, SameWaiting DEF Windows!CannotOpen, Windows!NotOpened
  <2> QED BY <1>4, <2>1 DEF Windows!CannotOpen, Windows!NotOpened, Device!Next, Device!NotOpened
<1>5. CASE Windows!OpenPath
  <2>1. Waiting' = Waiting BY <1>5, SameWaiting DEF Windows!OpenPath, Windows!Opened, Windows!OpenDevice, Windows!NewDevice
  <2> QED BY <1>5, <2>1 DEF Windows!OpenPath, Windows!Opened, Windows!NewDevice, Device!Next, Device!Opened
<1>6. CASE \E mode \in Modes : Windows!Read(mode)
  <2>1. Waiting' = Waiting BY <1>6, SameWaiting DEF Windows!Read, Windows!Reading
  <2> QED BY <1>6, <2>1 DEF Windows!Read, Windows!Reading, Device!Next, Device!Ask
<1>7. CASE Windows!ResetEvent
  <2>1. Waiting' = Waiting BY <1>7, SameWaiting DEF Windows!ResetEvent, Windows!Goes
  <2> QED BY <1>7, <2>1 DEF Windows!ResetEvent, Windows!Goes, Device!vars
<1>8. CASE Windows!ReadFileFails
  <2>1. Waiting' = Waiting BY <1>8, SameWaiting
    DEF Windows!ReadFileFails, Windows!ReturnsNothing, Windows!Returns
  <2> QED BY <1>8, <2>1
    DEF Windows!ReadFileFails, Windows!ReturnsNothing, Windows!Returns, Device!Next,
        Device!ReadEnds, Device!Fail
<1>9. CASE Windows!WaitEnds
  <2>1. Waiting' = Waiting BY <1>9, SameWaiting DEF Windows!WaitEnds, Windows!Goes
  <2> QED BY <1>9, <2>1 DEF Windows!WaitEnds, Windows!Goes, Device!vars
<1>10. CASE Windows!WaitTimesOut
  <2>1. Waiting' = Waiting BY <1>10, SameWaiting
    DEF Windows!WaitTimesOut, Windows!ReturnsNothing, Windows!Returns
  <2> QED BY <1>10, <2>1, ModesAssumption
    DEF Windows!WaitTimesOut, Windows!ReturnsNothing, Windows!Returns, Device!Next,
        Device!ReadEnds, Device!GiveUp
<1>11. CASE Windows!NoWait
  <2>1. Waiting' = Waiting BY <1>11, SameWaiting DEF Windows!NoWait, Windows!Goes
  <2> QED BY <1>11, <2>1 DEF Windows!NoWait, Windows!Goes, Device!vars
<1>12. CASE Windows!ReadIsFailed
  <2>1. Waiting' = Waiting BY <1>12, SameWaiting DEF Windows!ReadIsFailed
  <2> QED BY <1>12, <2>1 DEF Windows!ReadIsFailed, Device!vars
<1>13. CASE Windows!Close
  <2>1. Waiting' = Waiting BY <1>13, SameWaiting DEF Windows!Close, Windows!Closing
  <2> QED BY <1>13, <2>1 DEF Windows!Close, Windows!Closing, Device!Next, Device!Close
<1>14. CASE Windows!ReadFile
  <2>1. UNCHANGED <<plugged, sent, link, call, given, broken>>
    BY <1>14 DEF Windows!ReadFile, Windows!Goes
  <2>2. CASE reports = <<>>
    <3>1. Waiting' = Waiting BY <1>14, <2>2, SameWaiting DEF Windows!ReadFile
    <3> QED BY <2>1, <3>1 DEF Device!vars
  <2>3. CASE reports # <<>>
    <3>1. Waiting' = <<Head(reports)>> \o Tail(reports) /\ Waiting = reports
      BY <1>14, <1>b, <1>c, <2>3 DEF Windows!ReadFile
    <3>2. Waiting' = Waiting
      BY <2>3, <3>1, TailStays
    <3> QED BY <2>1, <3>2 DEF Device!vars
  <2> QED BY <2>2, <2>3
<1>15. CASE Windows!Result
  <2>1. /\ call # "none" /\ call' = "none" /\ UNCHANGED <<plugged, sent, link, broken>>
        /\ io' = "none" /\ reports' = reports /\ io \in {"done", "failed"}
        /\ given' = IF io = "done" THEN bytes ELSE given
    BY <1>15 DEF Windows!Result, Windows!ReturnsNothing, Windows!Returns
  <2>2. CASE io = "done"
    <3>1. Waiting = <<bytes>> \o reports /\ Waiting' = reports
      BY <1>b, <1>c, <2>1, <2>2
    <3>2. Waiting # <<>> /\ Head(Waiting) = bytes /\ Waiting' = Tail(Waiting)
      BY <3>1 DEF Windows!Queue
    <3> QED BY <2>1, <2>2, <3>2 DEF Device!Next, Device!ReadEnds, Device!Answer
  <2>3. CASE io = "failed"
    <3>1. Waiting' = Waiting BY <1>b, <1>c, <2>1, <2>3
    <3> QED BY <2>1, <2>3, <3>1 DEF Device!Next, Device!ReadEnds, Device!Fail
  <2> QED BY <2>1, <2>2, <2>3
<1>16. CASE Windows!Arrives
  <2>1. /\ link # "closed" /\ plugged /\ sent' = sent + 1
        /\ UNCHANGED <<plugged, link, call, given, broken>>
    BY <1>16 DEF Windows!Arrives, Windows!Send
  <2>2. sent' \in Nat /\ reports \in Windows!Queue /\ bytes \in Nat
    BY <2>1, LimitsAssumption
  <2>3. CASE io = "pending"
    <3>1. Waiting = <<>> /\ Waiting' = <<sent'>> \o <<>>
      BY <1>16, <1>b, <1>c, <2>3 DEF Windows!Arrives
    <3>2. Waiting' = Append(Waiting, sent')
      BY <3>1
    <3> QED BY <2>1, <3>2 DEF Device!Next, Device!Arrive
  <2>4. CASE io # "pending"
    <3>1. reports' = Windows!Queued(reports, sent') /\ io' = io /\ bytes' = bytes
      BY <1>16, <2>4 DEF Windows!Arrives
    <3>2. Waiting' \in {Append(Waiting, sent')} \cup Device!Dropped(Append(Waiting, sent'))
      BY <1>b, <1>c, <2>2, <3>1, QueuedDrops
    <3> QED BY <2>1, <3>2 DEF Device!Next, Device!Arrive
  <2> QED BY <2>3, <2>4
<1>17. CASE Windows!CloseFrees
  <2>1. Waiting' = <<>> BY <1>17, <1>c DEF Windows!CloseFrees
  <2> QED BY <1>17, <2>1 DEF Windows!CloseFrees, Windows!Closed, Device!Next, Device!Closed
<1>18. CASE Windows!Write \/ Windows!WriteEnds
  <2>1. Waiting' = Waiting
    BY <1>18, SameWaiting DEF Windows!Write, Windows!WriteEnds, Windows!Goes
  <2> QED BY <1>18, <2>1 DEF Windows!Write, Windows!WriteEnds, Windows!Goes, Device!vars
<1> QED
  BY <1>1, <1>2, <1>3, <1>4, <1>5, <1>6, <1>7, <1>8, <1>9,
     <1>10, <1>11, <1>12, <1>13, <1>14, <1>15, <1>16, <1>17, <1>18
  DEF Windows!Next, Windows!Caller

-----------------------------------------------------------------------------
LEMMA WindowsInitially ==
  ASSUME Windows!Init
  PROVE  WindowsInv
<1>0. opens \in 0 .. MaxOpens /\ sent \in 0 .. MaxReports
  BY LimitsAssumption DEF Windows!Init, Windows!CallerInit
<1>1. Windows!CallerOK BY <1>0 DEF Windows!Init, Windows!CallerInit, Windows!CallerOK
<1>2. Windows!TypeOK BY <1>1, EmptyQueue DEF Windows!Init, Windows!CallerInit, Windows!TypeOK
<1>3. CallerPlaces /\ ReadPlaces BY
  DEF Windows!Init, Windows!CallerInit, CallerPlaces, ReadPlaces
<1>4. FlagsTell BY DEF Windows!Init, Windows!CallerInit, FlagsTell
<1> QED BY <1>2, <1>3, <1>4 DEF WindowsInv

LEMMA WindowsStutters ==
  ASSUME WindowsInv, UNCHANGED Windows!vars, backend = "windows", backend' = backend
  PROVE  WindowsInv' /\ UNCHANGED Device!vars
<1>1. /\ UNCHANGED <<plugged, sent, broken, link, call, given, opens, app>>
      /\ UNCHANGED <<pending, io, bytes, event, reports>>
  BY DEF Windows!vars, Windows!device, Windows!caller, Windows!winVars
<1>2. Waiting' = Waiting
  BY <1>1, SameWaiting
<1>3. WindowsInv'
  BY <1>1 DEF WindowsInv, Windows!TypeOK, Windows!CallerOK, CallerPlaces, ReadPlaces, FlagsTell
<1> QED BY <1>1, <1>2, <1>3 DEF Device!vars


-----------------------------------------------------------------------------
(***************************************************************************)
(* The other back ends.  Their modules of proofs define the same formulas  *)
(* again, and what waits to be read as the device of ReportDevice has it.  *)
(***************************************************************************)
LibusbProofs == INSTANCE HidLibusbProofs WITH Modes <- Modes \ {"block"}
MacProofs    == INSTANCE HidMacProofs WITH Modes <- Modes \ {"block"}

LEMMA LibusbAssumptions == LibusbProofs!ModesAssumption /\ LibusbProofs!LimitsAssumption
BY ModesAssumption, LimitsAssumption
  DEF LibusbProofs!ModesAssumption, LibusbProofs!LimitsAssumption

LEMMA MacAssumptions == MacProofs!ModesAssumption /\ MacProofs!LimitsAssumption
BY ModesAssumption, LimitsAssumption DEF MacProofs!ModesAssumption, MacProofs!LimitsAssumption

LEMMA SameLibusb ==
  /\ Libusb!Init = LibusbProofs!Init
  /\ Libusb!Next = LibusbProofs!Next
  /\ Libusb!TypeOK = LibusbProofs!TypeOK
  /\ Libusb!SleeperIsWoken = LibusbProofs!SleeperIsWoken
  /\ Libusb!Waiting = LibusbProofs!Waiting
BY
  DEF Libusb!libVars, LibusbProofs!libVars, Libusb!vars, LibusbProofs!vars,
      Libusb!MutexFree, LibusbProofs!MutexFree, Libusb!Done, LibusbProofs!Done,
      Libusb!Init, LibusbProofs!Init, Libusb!Find, LibusbProofs!Find, Libusb!CannotOpen,
      LibusbProofs!CannotOpen, Libusb!OpenPath, LibusbProofs!OpenPath, Libusb!Submitted,
      LibusbProofs!Submitted, Libusb!ReaderStarts, LibusbProofs!ReaderStarts,
      Libusb!Barrier, LibusbProofs!Barrier, Libusb!LoopTest, LibusbProofs!LoopTest,
      Libusb!EventsReturn, LibusbProofs!EventsReturn, Libusb!EventsFail,
      LibusbProofs!EventsFail, Libusb!Handles,
      LibusbProofs!Handles, Libusb!Signal, LibusbProofs!Signal, Libusb!CallbackQueues,
      LibusbProofs!CallbackQueues, Libusb!CallbackGoesOn, LibusbProofs!CallbackGoesOn,
      Libusb!HandledBy, LibusbProofs!HandledBy, Libusb!CallbackEnds,
      LibusbProofs!CallbackEnds, Libusb!Resubmit, LibusbProofs!Resubmit,
      Libusb!ReaderCancels, LibusbProofs!ReaderCancels, Libusb!Broadcast,
      LibusbProofs!Broadcast, Libusb!Completes, LibusbProofs!Completes, Libusb!Settles,
      LibusbProofs!Settles, Libusb!Read, LibusbProofs!Read, Libusb!ReadReport,
      LibusbProofs!ReadReport, Libusb!ReadFails, LibusbProofs!ReadFails,
      Libusb!ReadFindsNothing, LibusbProofs!ReadFindsNothing, Libusb!ReadWaits,
      LibusbProofs!ReadWaits, Libusb!Sleep, LibusbProofs!Sleep, Libusb!WaitTimesOut,
      LibusbProofs!WaitTimesOut, Libusb!SpuriousWakeUp, LibusbProofs!SpuriousWakeUp,
      Libusb!Write, LibusbProofs!Write, Libusb!WriteEnds, LibusbProofs!WriteEnds,
      Libusb!CloseShutsDown, LibusbProofs!CloseShutsDown, Libusb!CloseCancels,
      LibusbProofs!CloseCancels, Libusb!CloseJoins, LibusbProofs!CloseJoins,
      Libusb!Reader, LibusbProofs!Reader, Libusb!Caller, LibusbProofs!Caller,
      Libusb!Next, LibusbProofs!Next, Libusb!TypeOK, LibusbProofs!TypeOK,
      Libusb!SleeperIsWoken, LibusbProofs!SleeperIsWoken, Libusb!Waiting,
      LibusbProofs!Waiting, Libusb!device, LibusbProofs!device, Libusb!caller,
      LibusbProofs!caller, Libusb!CallerInit, LibusbProofs!CallerInit, Libusb!Unplug,
      LibusbProofs!Unplug, Libusb!Plug, LibusbProofs!Plug, Libusb!Send,
      LibusbProofs!Send, Libusb!Listed, LibusbProofs!Listed, Libusb!Finds,
      LibusbProofs!Finds, Libusb!Opened, LibusbProofs!Opened, Libusb!NotOpened,
      LibusbProofs!NotOpened, Libusb!Reading, LibusbProofs!Reading, Libusb!Returns,
      LibusbProofs!Returns, Libusb!ReturnsNothing, LibusbProofs!ReturnsNothing,
      Libusb!Closing, LibusbProofs!Closing, Libusb!Closed, LibusbProofs!Closed,
      Libusb!Goes, LibusbProofs!Goes, Libusb!CallerOK, LibusbProofs!CallerOK,
      Libusb!Queue, LibusbProofs!Queue, Libusb!Queued, LibusbProofs!Queued

LEMMA SameMac ==
  /\ Mac!Init = MacProofs!Init
  /\ Mac!Next = MacProofs!Next
  /\ Mac!TypeOK = MacProofs!TypeOK
  /\ Mac!SleeperIsWoken = MacProofs!SleeperIsWoken
  /\ Mac!RunLoopAlive = MacProofs!RunLoopAlive
BY
  DEF Mac!macVars, MacProofs!macVars, Mac!vars, MacProofs!vars, Mac!MutexFree,
      MacProofs!MutexFree, Mac!Init, MacProofs!Init, Mac!Find, MacProofs!Find,
      Mac!CannotOpen, MacProofs!CannotOpen, Mac!OpenPath, MacProofs!OpenPath,
      Mac!ReaderStarts, MacProofs!ReaderStarts, Mac!Barrier, MacProofs!Barrier,
      Mac!LoopTest, MacProofs!LoopTest, Mac!RunInMode, MacProofs!RunInMode,
      Mac!RunTimesOut, MacProofs!RunTimesOut, Mac!RunFinishes, MacProofs!RunFinishes,
      Mac!PerformSignal, MacProofs!PerformSignal, Mac!RunStops, MacProofs!RunStops,
      Mac!SkipsBarrier, MacProofs!SkipsBarrier, Mac!Broadcast, MacProofs!Broadcast,
      Mac!Signal, MacProofs!Signal, Mac!ReportCallback, MacProofs!ReportCallback,
      Mac!RemovalCallback, MacProofs!RemovalCallback, Mac!Gone, MacProofs!Gone,
      Mac!Read, MacProofs!Read, Mac!ReadReport, MacProofs!ReadReport, Mac!ReadFails,
      MacProofs!ReadFails, Mac!ReadFindsNothing, MacProofs!ReadFindsNothing,
      Mac!ReadWaits, MacProofs!ReadWaits, Mac!Sleep, MacProofs!Sleep, Mac!WaitTimesOut,
      MacProofs!WaitTimesOut, Mac!SpuriousWakeUp, MacProofs!SpuriousWakeUp,
      Mac!Write, MacProofs!Write, Mac!WriteEnds, MacProofs!WriteEnds, Mac!Close,
      MacProofs!Close, Mac!CloseUnregisters, MacProofs!CloseUnregisters,
      Mac!CloseShutsDown, MacProofs!CloseShutsDown, Mac!CloseSignals,
      MacProofs!CloseSignals, Mac!CloseWakesUp, MacProofs!CloseWakesUp,
      Mac!ShutdownBarrier, MacProofs!ShutdownBarrier, Mac!CloseJoins,
      MacProofs!CloseJoins, Mac!Reader, MacProofs!Reader, Mac!Caller, MacProofs!Caller,
      Mac!Next, MacProofs!Next, Mac!TypeOK, MacProofs!TypeOK, Mac!SleeperIsWoken,
      MacProofs!SleeperIsWoken, Mac!RunLoopAlive, MacProofs!RunLoopAlive, Mac!device,
      MacProofs!device, Mac!caller, MacProofs!caller, Mac!CallerInit,
      MacProofs!CallerInit, Mac!Unplug, MacProofs!Unplug, Mac!Plug, MacProofs!Plug,
      Mac!Send, MacProofs!Send, Mac!Listed, MacProofs!Listed, Mac!Finds,
      MacProofs!Finds, Mac!Opened, MacProofs!Opened, Mac!NotOpened, MacProofs!NotOpened,
      Mac!Reading, MacProofs!Reading, Mac!Returns, MacProofs!Returns,
      Mac!ReturnsNothing, MacProofs!ReturnsNothing, Mac!Closing, MacProofs!Closing,
      Mac!Closed, MacProofs!Closed, Mac!Goes, MacProofs!Goes, Mac!CallerOK,
      MacProofs!CallerOK, Mac!Queue, MacProofs!Queue, Mac!Queued, MacProofs!Queued

-----------------------------------------------------------------------------
(***************************************************************************)
(* A step of a back end is a step of the device that HidApi shows.         *)
(***************************************************************************)
LEMMA DeviceOfLibusb ==
  ASSUME LibusbProofs!Device!Next \/ UNCHANGED LibusbProofs!Device!vars,
         Waiting = LibusbProofs!Waiting, Waiting' = LibusbProofs!Waiting'
  PROVE  [Device!Next]_(Device!vars)
<1>1. CASE UNCHANGED LibusbProofs!Device!vars
  BY <1>1 DEF LibusbProofs!Device!vars, Device!vars
<1>2. CASE LibusbProofs!Device!Next
  BY <1>2 DEF LibusbProofs!Device!Next, Device!Next,
       LibusbProofs!Device!Plug, Device!Plug, LibusbProofs!Device!Unplug, Device!Unplug,
       LibusbProofs!Device!Break, Device!Break,
       LibusbProofs!Device!Arrive, Device!Arrive, LibusbProofs!Device!Drop, Device!Drop,
       LibusbProofs!Device!Dropped, Device!Dropped,
       LibusbProofs!Device!Without, Device!Without,
       LibusbProofs!Device!Ask, Device!Ask, LibusbProofs!Device!ReadEnds, Device!ReadEnds,
       LibusbProofs!Device!Answer, Device!Answer, LibusbProofs!Device!GiveUp, Device!GiveUp,
       LibusbProofs!Device!Fail, Device!Fail, LibusbProofs!Device!Open, Device!Open,
       LibusbProofs!Device!Opened, Device!Opened,
       LibusbProofs!Device!NotOpened, Device!NotOpened,
       LibusbProofs!Device!Close, Device!Close, LibusbProofs!Device!Closed, Device!Closed
<1> QED BY <1>1, <1>2

LEMMA DeviceOfMac ==
  ASSUME MacProofs!Device!Next \/ UNCHANGED MacProofs!Device!vars,
         Waiting = reports, Waiting' = reports'
  PROVE  [Device!Next]_(Device!vars)
<1>1. CASE UNCHANGED MacProofs!Device!vars
  BY <1>1 DEF MacProofs!Device!vars, Device!vars
<1>2. CASE MacProofs!Device!Next
  BY <1>2 DEF MacProofs!Device!Next, Device!Next,
       MacProofs!Device!Plug, Device!Plug, MacProofs!Device!Unplug, Device!Unplug,
       MacProofs!Device!Break, Device!Break,
       MacProofs!Device!Arrive, Device!Arrive, MacProofs!Device!Drop, Device!Drop,
       MacProofs!Device!Dropped, Device!Dropped,
       MacProofs!Device!Without, Device!Without,
       MacProofs!Device!Ask, Device!Ask, MacProofs!Device!ReadEnds, Device!ReadEnds,
       MacProofs!Device!Answer, Device!Answer, MacProofs!Device!GiveUp, Device!GiveUp,
       MacProofs!Device!Fail, Device!Fail, MacProofs!Device!Open, Device!Open,
       MacProofs!Device!Opened, Device!Opened,
       MacProofs!Device!NotOpened, Device!NotOpened,
       MacProofs!Device!Close, Device!Close, MacProofs!Device!Closed, Device!Closed
<1> QED BY <1>1, <1>2

-----------------------------------------------------------------------------
(***************************************************************************)
(* HIDAPI as it is built.  The back end stays the same, and what holds of  *)
(* it is the invariant of its proofs.                                      *)
(***************************************************************************)
Inv ==
  /\ backend \in {"libusb", "mac", "windows"}
  /\ backend = "libusb" => LibusbProofs!Inv
  /\ backend = "mac" => MacProofs!Inv
  /\ backend = "windows" => WindowsInv

LEMMA Initially == Init => Inv /\ Device!Init
<1> SUFFICES ASSUME Init PROVE Inv /\ Device!Init
  OBVIOUS
<1>1. LibusbProofs!Init /\ MacProofs!Init /\ Windows!Init
  BY SameLibusb, SameMac DEF Init
<1>2. LibusbProofs!Inv
  BY <1>1, LibusbAssumptions, LibusbProofs!Initially
<1>3. MacProofs!Inv
  BY <1>1, MacAssumptions, MacProofs!Initially
<1>4. WindowsInv
  BY <1>1, WindowsInitially
<1>5. Waiting = <<>>
  BY DEF Init, Waiting, Windows!Init, Libusb!Init, Libusb!Waiting
<1>6. Device!Init
  BY <1>1, <1>5 DEF Windows!Init, Windows!CallerInit, Device!Init
<1> QED BY <1>2, <1>3, <1>4, <1>6 DEF Init, Inv

LEMMA StepOnLibusb ==
  ASSUME Inv, OnLibusb(Libusb!Next)
  PROVE  Inv' /\ [Device!Next]_(Device!vars)
<1>1. backend = "libusb" /\ backend' = backend /\ LibusbProofs!Inv /\ LibusbProofs!Next
  BY SameLibusb DEF Inv, OnLibusb
<1>2. LibusbProofs!Inv'
  BY <1>1, LibusbAssumptions, LibusbProofs!StepKeeps
<1>3. LibusbProofs!Device!Next \/ UNCHANGED LibusbProofs!Device!vars
  BY <1>1, LibusbAssumptions, LibusbProofs!StepImplements
<1>4. Waiting = LibusbProofs!Waiting /\ Waiting' = LibusbProofs!Waiting'
  BY <1>1 DEF Waiting, Libusb!Waiting, LibusbProofs!Waiting
<1>5. [Device!Next]_(Device!vars)
  BY <1>3, <1>4, DeviceOfLibusb
<1> QED BY <1>1, <1>2, <1>5 DEF Inv

LEMMA StepOnMac ==
  ASSUME Inv, OnMac(Mac!Next)
  PROVE  Inv' /\ [Device!Next]_(Device!vars)
<1>1. backend = "mac" /\ backend' = backend /\ MacProofs!Inv /\ MacProofs!Next
  BY SameMac DEF Inv, OnMac
<1>2. MacProofs!Inv'
  BY <1>1, MacAssumptions, MacProofs!StepKeeps
<1>3. MacProofs!Device!Next \/ UNCHANGED MacProofs!Device!vars
  BY <1>1, MacAssumptions, MacProofs!StepImplements
<1>4. Waiting = reports /\ Waiting' = reports'
  BY <1>1 DEF Waiting
<1>5. [Device!Next]_(Device!vars)
  BY <1>3, <1>4, DeviceOfMac
<1> QED BY <1>1, <1>2, <1>5 DEF Inv

LEMMA StepOnWindows ==
  ASSUME Inv, OnWindows(Windows!Next)
  PROVE  Inv' /\ [Device!Next]_(Device!vars)
<1>1. backend = "windows" /\ backend' = backend /\ WindowsInv /\ Windows!Next
  BY DEF Inv, OnWindows
<1>2. WindowsInv'
  BY <1>1, WindowsStepKeeps
<1>3. [Device!Next]_(Device!vars)
  BY <1>1, WindowsImplements
<1> QED BY <1>1, <1>2, <1>3 DEF Inv

LEMMA StutterKeeps ==
  ASSUME Inv, UNCHANGED vars
  PROVE  Inv' /\ UNCHANGED Device!vars
<1>1. /\ UNCHANGED <<plugged, sent, broken, link, call, given, opens, app, backend, bytes, reports>>
      /\ UNCHANGED <<handler, transfer, disconnected, callbacks, signalled, reader, shutdown>>
      /\ UNCHANGED <<pending, io, event>>
  BY DEF vars, device, caller, notWindows
<1>2. Waiting' = Waiting
  BY <1>1 DEF Waiting, Libusb!Waiting
<1>3. CASE backend = "libusb"
  <2>1. LibusbProofs!Inv'
    BY <1>1, <1>3, LibusbAssumptions, LibusbProofs!StutterKeeps
    DEF Inv, LibusbProofs!vars, LibusbProofs!device, LibusbProofs!caller, LibusbProofs!libVars
  <2> QED BY <1>1, <1>2, <1>3, <2>1 DEF Inv, Device!vars
<1>4. CASE backend = "mac"
  <2>1. MacProofs!Inv'
    BY <1>1, <1>4, MacAssumptions, MacProofs!StutterKeeps
    DEF Inv, MacProofs!vars, MacProofs!device, MacProofs!caller, MacProofs!macVars
  <2> QED BY <1>1, <1>2, <1>4, <2>1 DEF Inv, Device!vars
<1>5. CASE backend = "windows"
  <2>1. WindowsInv' /\ UNCHANGED Device!vars
    BY <1>1, <1>5, WindowsStutters
    DEF Inv, Windows!vars, Windows!device, Windows!caller, Windows!winVars
  <2> QED BY <1>1, <1>5, <2>1 DEF Inv
<1> QED BY <1>3, <1>4, <1>5 DEF Inv

LEMMA NextKeeps == Inv /\ [Next]_vars => Inv' /\ [Device!Next]_(Device!vars)
BY StepOnLibusb, StepOnMac, StepOnWindows, StutterKeeps DEF Next

LEMMA Invariance == Spec => []Inv
BY Initially, NextKeeps, PTL DEF Spec

(* Whichever back end is linked, its data keeps its types and its list of  *)
(* reports the bound.                                                      *)
THEOREM TypesKept == Spec => []TypeOK
<1>1. Inv => TypeOK
  BY SameLibusb, SameMac DEF Inv, TypeOK, LibusbProofs!Inv, MacProofs!Inv, WindowsInv
<1> QED BY <1>1, Invariance, PTL

(* No wake-up is lost: a thread that sleeps in hid_read has a read thread  *)
(* that will wake it, whatever came between its test and its sleep, unless *)
(* the thread had broken off after an error of libusb.                     *)
THEOREM SleeperWoken == Spec => []SleeperIsWoken
<1>1. Inv => SleeperIsWoken
  BY SameLibusb, SameMac DEF Inv, SleeperIsWoken, LibusbProofs!Inv, MacProofs!Inv,
     LibusbProofs!SleepsSoundly, MacProofs!SleepsSoundly,
     LibusbProofs!SleeperIsWoken, MacProofs!SleeperIsWoken
<1> QED BY <1>1, Invariance, PTL

(* hid_close and the removal callback find a run loop that lives.          *)
THEOREM RunLoopLives == Spec => []RunLoopAlive
<1>1. Inv => RunLoopAlive
  BY SameMac DEF Inv, RunLoopAlive, MacProofs!Inv, MacProofs!CallerPlaces,
     MacProofs!ReaderPlaces, MacProofs!RunLoopAlive
<1> QED BY <1>1, Invariance, PTL

(* The event and read_pending tell of the overlapped read, whichever call  *)
(* started it.                                                             *)
THEOREM EventTells == Spec => []EventTellsRead
<1>1. Inv => EventTellsRead
  BY DEF Inv, EventTellsRead, Windows!EventTellsRead, WindowsInv, FlagsTell
<1> QED BY <1>1, Invariance, PTL

(* HIDAPI does only what ReportDevice allows, the safety part of           *)
(* DeviceSpec: reports in order and each once, dropped only when more than *)
(* the limit wait, and reads that fail only when the device has gone or    *)
(* libusb has failed.                                                      *)
THEOREM ImplementsDevice == Spec => Device!Init /\ [][Device!Next]_(Device!vars)
BY Initially, NextKeeps, Invariance, PTL DEF Spec
=============================================================================
