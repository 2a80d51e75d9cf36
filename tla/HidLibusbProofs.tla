--------------------------- MODULE HidLibusbProofs ---------------------------
(***************************************************************************)
(* HIDAPI's libusb back end, for any limit of its queue, any ways to read  *)
(* and any number of reports and openings: its types, the wake-up of a     *)
(* sleeper, and the safety part of its implementation of ReportDevice.     *)
(*                                                                         *)
(* Inv says what the two threads know of each other: how far the caller    *)
(* and the read thread are follows the link, a thread that leaves its loop *)
(* was told to or broke off after an error of libusb, and while the device *)
(* is open it is told to only when the device has gone, or after such an   *)
(* error.                                                                  *)
(***************************************************************************)
EXTENDS HidLibusb, TLAPS

(* Where the caller is in a call, and what is open meanwhile.              *)
CallerPlaces ==
  /\ app \in {"open", "barrier"} <=> link = "opening"
  /\ app \in {"cancel", "join"} <=> link = "closing"
  /\ app \in {"locking", "tested", "asleep", "woken"} <=> call # "none"
  /\ app \in {"locking", "tested", "asleep", "woken", "writing"} => link = "open"

(* Where the read thread is.                                               *)
ReaderPlaces ==
  /\ reader = "none" <=> link = "closed" \/ app = "open"
  /\ reader \in {"start", "barrier"} <=> app = "barrier"
  /\ reader \in {"cancel", "drain", "wake", "ended"} => shutdown \/ broken
  /\ handler = "reader" => reader \in {"events", "drain"}
  /\ handler = "caller" => app = "writing"

(* The transfer: there is none before the thread has submitted it, and the *)
(* thread that runs its callback holds it.                                 *)
TransferPlaces ==
  /\ reader \in {"none", "start"} => transfer = "none" /\ reports = <<>>
  /\ handler # "none" => transfer = "idle"

(* The thread is told to stop, or its transfer cancelled, when the device  *)
(* is being closed or has gone, or libusb has failed.                      *)
StopsWhenGone ==
  /\ app = "barrier" => ~shutdown
  /\ link = "open" /\ shutdown => ~plugged \/ broken
  /\ link # "closing" /\ transfer \in {"cancelling", "cancelled"} => ~plugged \/ broken
  /\ transfer = "no_device" => ~plugged

(* A thread that found nothing and will sleep is waited for: it has the    *)
(* mutex, and the read thread still has to take it, or broke off before.   *)
SleepsSoundly ==
  app \in {"tested", "asleep"} =>
    /\ reports = <<>> /\ reader # "none"
    /\ reader = "ended" => broken /\ ~shutdown

Inv == TypeOK /\ CallerPlaces /\ ReaderPlaces /\ TransferPlaces /\ StopsWhenGone /\ SleepsSoundly


-----------------------------------------------------------------------------
LEMMA EmptyQueue == <<>> \in Queue
BY LimitsAssumption DEF Queue

LEMMA QueuedStays ==
  ASSUME NEW list \in Queue, NEW report \in Nat
  PROVE  Queued(list, report) \in Queue
BY LimitsAssumption DEF Queue, Queued

LEMMA TailStays ==
  ASSUME NEW list \in Queue, list # <<>>
  PROVE  Tail(list) \in Queue /\ Head(list) \in Nat
BY LimitsAssumption DEF Queue

LEMMA StepKeeps ==
  ASSUME Inv, Next
  PROVE  Inv'
<1> USE ModesAssumption, LimitsAssumption, EmptyQueue DEF Inv, TypeOK, CallerOK, CallerPlaces, ReaderPlaces, TransferPlaces, StopsWhenGone, SleepsSoundly,
       Done, device, caller, libVars
<1>1. CASE Unplug /\ UNCHANGED libVars
  <2>1. /\ plugged' = FALSE
        /\ UNCHANGED <<sent, broken, link, call, given, opens, app>>
        /\ UNCHANGED <<reader, handler, transfer, bytes, reports, shutdown>>
    BY <1>1 DEF Unplug
  <2>2. TypeOK' BY <2>1
  <2>3. CallerPlaces' /\ ReaderPlaces' BY <2>1
  <2>4. TransferPlaces' /\ StopsWhenGone' BY <2>1
  <2>5. SleepsSoundly' BY <2>1
  <2> QED BY <2>2, <2>3, <2>4, <2>5
<1>2. CASE Plug /\ UNCHANGED libVars
  BY <1>2 DEF Plug
<1>3. CASE Find
  BY <1>3 DEF Find, Finds, Listed
<1>4. CASE CannotOpen
  BY <1>4 DEF CannotOpen, NotOpened
<1>5. CASE OpenPath
  BY <1>5 DEF OpenPath, Goes
<1>6. CASE ReaderStarts
  BY <1>6 DEF ReaderStarts, Submitted
<1>7. CASE Barrier
  BY <1>7 DEF Barrier, Opened
<1>8. CASE LoopTest
  BY <1>8 DEF LoopTest
<1>9. CASE EventsReturn
  BY <1>9 DEF EventsReturn
<1>10. CASE CallbackGoesOn("reader") \/ CallbackGoesOn("caller")
  BY <1>10 DEF CallbackGoesOn, Handles
<1>11. CASE CallbackEnds("reader") \/ CallbackEnds("caller")
  <2>1. CASE CallbackEnds("reader") BY <2>1 DEF CallbackEnds, Handles, HandledBy
  <2>2. CASE CallbackEnds("caller") BY <2>2 DEF CallbackEnds, Handles, HandledBy
  <2> QED BY <1>11, <2>1, <2>2
<1>12. CASE Resubmit("reader") \/ Resubmit("caller")
  BY <1>12 DEF Resubmit, HandledBy, Submitted
<1>13. CASE ReaderCancels
  BY <1>13 DEF ReaderCancels
<1>14. CASE Broadcast
  BY <1>14 DEF Broadcast, MutexFree, Goes
<1>15. CASE Completes
  BY <1>15 DEF Completes, Send
<1>16. CASE Settles
  BY <1>16 DEF Settles
<1>17. CASE \E mode \in Modes : Read(mode)
  BY <1>17 DEF Read, Reading
<1>18. CASE ReadFails
  BY <1>18 DEF ReadFails, ReturnsNothing, Returns
<1>19. CASE ReadFindsNothing
  BY <1>19 DEF ReadFindsNothing, ReturnsNothing, Returns
<1>20. CASE ReadWaits
  BY <1>20 DEF ReadWaits, Goes
<1>21. CASE Sleep
  BY <1>21 DEF Sleep, Goes
<1>22. CASE WaitTimesOut
  BY <1>22 DEF WaitTimesOut, ReturnsNothing, Returns
<1>23. CASE SpuriousWakeUp
  BY <1>23 DEF SpuriousWakeUp, Goes
<1>24. CASE Write \/ WriteEnds
  BY <1>24 DEF Write, WriteEnds, Goes
<1>25. CASE CloseShutsDown
  BY <1>25 DEF CloseShutsDown, Closing
<1>26. CASE CloseCancels
  BY <1>26 DEF CloseCancels, Goes
<1>27. CASE CloseJoins
  BY <1>27 DEF CloseJoins, Closed
<1>28. CASE CallbackQueues("reader") \/ CallbackQueues("caller")
  BY <1>28, QueuedStays DEF CallbackQueues, Handles, MutexFree, Signal, Goes
<1>29. CASE ReadReport
  BY <1>29, TailStays DEF ReadReport, Returns
<1>30. CASE EventsFail
  BY <1>30 DEF EventsFail
<1> QED
  BY <1>1, <1>2, <1>3, <1>4, <1>5, <1>6, <1>7, <1>8, <1>9, <1>10, <1>11, <1>12, <1>13, <1>14, <1>15, <1>16, <1>17, <1>18, <1>19, <1>20, <1>21, <1>22, <1>23, <1>24, <1>25, <1>26, <1>27, <1>28, <1>29, <1>30
  DEF Next, Reader, Caller

-----------------------------------------------------------------------------
(* A step that leaves the reports alone leaves the queue alone.            *)
LEMMA SameWaiting ==
  ASSUME reports' = reports, bytes' = bytes, transfer' = "completed" <=> transfer = "completed"
  PROVE  Waiting' = Waiting
BY DEF Waiting

(* Every step is one of the device's, or a stutter.                        *)
LEMMA StepImplements ==
  ASSUME Inv, Next
  PROVE  [Device!Next]_(Device!vars)
<1> USE DEF Inv, TypeOK, CallerOK, CallerPlaces, ReaderPlaces, TransferPlaces, StopsWhenGone,
       SleepsSoundly, Done, device, caller, libVars
<1>1. CASE Unplug /\ UNCHANGED libVars
  <2>1. Waiting' = Waiting BY <1>1, SameWaiting DEF Unplug
  <2> QED BY <1>1, <2>1 DEF Unplug, Device!Next, Device!Unplug
<1>2. CASE Plug /\ UNCHANGED libVars
  <2>1. Waiting' = Waiting BY <1>2, SameWaiting DEF Plug
  <2> QED BY <1>2, <2>1 DEF Plug, Device!Next, Device!Plug
<1>3. CASE Find
  <2>1. Waiting' = Waiting BY <1>3, SameWaiting DEF Find, Finds, Listed
  <2> QED BY <1>3, <2>1 DEF Find, Finds, Listed, Device!Next, Device!Open
<1>4. CASE CannotOpen
  <2>1. Waiting' = Waiting BY <1>4, SameWaiting DEF CannotOpen, NotOpened
  <2> QED BY <1>4, <2>1 DEF CannotOpen, NotOpened, Device!Next, Device!NotOpened
<1>5. CASE OpenPath
  <2>1. Waiting' = Waiting BY <1>5, SameWaiting DEF OpenPath, Goes
  <2> QED BY <1>5, <2>1 DEF OpenPath, Goes, Device!vars
<1>6. CASE ReaderStarts
  <2>1. Waiting' = Waiting BY <1>6, SameWaiting DEF ReaderStarts, Submitted
  <2> QED BY <1>6, <2>1 DEF ReaderStarts, Submitted, Device!vars
<1>7. CASE Barrier
  <2>1. Waiting' = Waiting BY <1>7, SameWaiting DEF Barrier, Opened
  <2> QED BY <1>7, <2>1 DEF Barrier, Opened, Device!Next, Device!Opened
<1>8. CASE LoopTest
  <2>1. Waiting' = Waiting BY <1>8, SameWaiting DEF LoopTest
  <2> QED BY <1>8, <2>1 DEF LoopTest, Device!vars
<1>9. CASE EventsReturn
  <2>1. Waiting' = Waiting BY <1>9, SameWaiting DEF EventsReturn
  <2> QED BY <1>9, <2>1 DEF EventsReturn, Device!vars
<1>10. CASE CallbackGoesOn("reader") \/ CallbackGoesOn("caller")
  <2>1. Waiting' = Waiting BY <1>10, SameWaiting DEF CallbackGoesOn, Handles
  <2> QED BY <1>10, <2>1 DEF CallbackGoesOn, Handles, Device!vars
<1>11. CASE CallbackEnds("reader") \/ CallbackEnds("caller")
  <2>1. Waiting' = Waiting BY <1>11, SameWaiting DEF CallbackEnds, Handles, HandledBy
  <2> QED BY <1>11, <2>1 DEF CallbackEnds, Handles, HandledBy, Device!vars
<1>12. CASE Resubmit("reader") \/ Resubmit("caller")
  <2>1. Waiting' = Waiting BY <1>12, SameWaiting DEF Resubmit, HandledBy, Submitted
  <2> QED BY <1>12, <2>1 DEF Resubmit, HandledBy, Submitted, Device!vars
<1>13. CASE ReaderCancels
  <2>1. Waiting' = Waiting BY <1>13, SameWaiting DEF ReaderCancels
  <2> QED BY <1>13, <2>1 DEF ReaderCancels, Device!vars
<1>14. CASE Broadcast
  <2>1. Waiting' = Waiting BY <1>14, SameWaiting DEF Broadcast, MutexFree, Goes
  <2> QED BY <1>14, <2>1 DEF Broadcast, MutexFree, Goes, Device!vars
<1>15. CASE Settles
  <2>1. Waiting' = Waiting BY <1>15, SameWaiting DEF Settles
  <2> QED BY <1>15, <2>1 DEF Settles, Device!vars
<1>16. CASE \E mode \in Modes : Read(mode)
  <2>1. Waiting' = Waiting BY <1>16, SameWaiting DEF Read, Reading
  <2> QED BY <1>16, <2>1 DEF Read, Reading, Device!Next, Device!Ask
<1>17. CASE ReadFails
  <2>1. Waiting' = Waiting BY <1>17, SameWaiting DEF ReadFails, ReturnsNothing, Returns
  <2> QED BY <1>17, <2>1 DEF ReadFails, ReturnsNothing, Returns, Device!Next, Device!ReadEnds, Device!Fail
<1>18. CASE ReadFindsNothing
  <2>1. Waiting' = Waiting BY <1>18, SameWaiting DEF ReadFindsNothing, ReturnsNothing, Returns
  <2> QED BY <1>18, <2>1 DEF ReadFindsNothing, ReturnsNothing, Returns, Device!Next, Device!ReadEnds, Device!GiveUp
<1>19. CASE ReadWaits
  <2>1. Waiting' = Waiting BY <1>19, SameWaiting DEF ReadWaits, Goes
  <2> QED BY <1>19, <2>1 DEF ReadWaits, Goes, Device!vars
<1>20. CASE Sleep
  <2>1. Waiting' = Waiting BY <1>20, SameWaiting DEF Sleep, Goes
  <2> QED BY <1>20, <2>1 DEF Sleep, Goes, Device!vars
<1>21. CASE WaitTimesOut
  <2>1. Waiting' = Waiting BY <1>21, SameWaiting DEF WaitTimesOut, ReturnsNothing, Returns
  <2> QED BY <1>21, <2>1 DEF WaitTimesOut, ReturnsNothing, Returns, Device!Next, Device!ReadEnds, Device!GiveUp
<1>22. CASE SpuriousWakeUp
  <2>1. Waiting' = Waiting BY <1>22, SameWaiting DEF SpuriousWakeUp, Goes
  <2> QED BY <1>22, <2>1 DEF SpuriousWakeUp, Goes, Device!vars
<1>23. CASE Write \/ WriteEnds
  <2>1. Waiting' = Waiting BY <1>23, SameWaiting DEF Write, WriteEnds, Goes
  <2> QED BY <1>23, <2>1 DEF Write, WriteEnds, Goes, Device!vars
<1>24. CASE CloseShutsDown
  <2>1. Waiting' = Waiting BY <1>24, SameWaiting DEF CloseShutsDown, Closing
  <2> QED BY <1>24, <2>1 DEF CloseShutsDown, Closing, Device!Next, Device!Close
<1>25. CASE CloseCancels
  <2>1. Waiting' = Waiting BY <1>25, SameWaiting DEF CloseCancels, Goes
  <2> QED BY <1>25, <2>1 DEF CloseCancels, Goes, Device!vars
<1>26. CASE CloseJoins
  <2>1. Waiting' = <<>> BY <1>26 DEF CloseJoins, Closed, Waiting
  <2> QED BY <1>26, <2>1 DEF CloseJoins, Closed, Device!Next, Device!Closed
<1>27. CASE Completes
  <2>1. Waiting' = Append(Waiting, sent')
    BY <1>27 DEF Completes, Send, Waiting, Queue
  <2>2. link # "closed" /\ plugged /\ sent' = sent + 1 /\ UNCHANGED <<plugged, link, call, given, broken>>
    BY <1>27 DEF Completes, Send
  <2> QED BY <2>1, <2>2 DEF Device!Next, Device!Arrive
<1>28. CASE CallbackQueues("reader") \/ CallbackQueues("caller")
  <2>1. /\ transfer = "completed" /\ reports' = Queued(reports, bytes) /\ transfer' = "idle"
        /\ UNCHANGED <<plugged, sent, link, call, given, broken>>
    BY <1>28 DEF CallbackQueues, Handles, Signal, Goes
  <2>2. Waiting = Append(reports, bytes) /\ Waiting' = Queued(reports, bytes)
    BY <2>1 DEF Waiting, Queue, Queued
  <2>3. CASE Len(reports) > QueueLimit + 1
    <3>1. Waiting' = Device!Without(Waiting, 1) /\ Len(Waiting) > QueueLimit
      BY <2>2, <2>3, LimitsAssumption DEF Queue, Queued, Device!Without
    <3> QED BY <2>1, <3>1 DEF Device!Next, Device!Drop, Device!Dropped
  <2>4. CASE ~(Len(reports) > QueueLimit + 1)
    BY <2>1, <2>2, <2>4 DEF Queued, Device!vars
  <2> QED BY <2>3, <2>4
<1>29. CASE ReadReport
  <2>1. /\ reports # <<>> /\ given' = Head(reports) /\ reports' = Tail(reports)
        /\ call # "none" /\ call' = "none" /\ UNCHANGED <<plugged, sent, link, transfer, bytes, broken>>
    BY <1>29 DEF ReadReport, Returns
  <2>2. Waiting # <<>> /\ Head(Waiting) = Head(reports) /\ Waiting' = Tail(Waiting)
    BY <2>1 DEF Waiting, Queue
  <2> QED BY <2>1, <2>2 DEF Device!Next, Device!ReadEnds, Device!Answer
<1>30. CASE EventsFail
  <2>1. Waiting' = Waiting BY <1>30, SameWaiting DEF EventsFail
  <2> QED BY <1>30, <2>1 DEF EventsFail, Device!Next, Device!Break
<1> QED
  BY <1>1, <1>2, <1>3, <1>4, <1>5, <1>6, <1>7, <1>8, <1>9, <1>10, <1>11,
  <1>12, <1>13, <1>14, <1>15, <1>16, <1>17, <1>18, <1>19, <1>20, <1>21,
  <1>22, <1>23, <1>24, <1>25, <1>26, <1>27, <1>28, <1>29, <1>30
  DEF Next, Reader, Caller

-----------------------------------------------------------------------------
LEMMA Initially == Init => Inv /\ Device!Init
<1> SUFFICES ASSUME Init PROVE Inv /\ Device!Init
  OBVIOUS
<1>1. Inv
  <2>0. opens \in 0 .. MaxOpens /\ sent \in 0 .. MaxReports
    BY LimitsAssumption DEF Init, CallerInit
  <2>1. CallerOK BY <2>0 DEF Init, CallerInit, CallerOK
  <2>2. TypeOK BY <2>1, EmptyQueue DEF Init, CallerInit, TypeOK
  <2>3. CallerPlaces /\ ReaderPlaces BY DEF Init, CallerInit, CallerPlaces, ReaderPlaces
  <2>4. TransferPlaces /\ StopsWhenGone /\ SleepsSoundly
    BY DEF Init, CallerInit, TransferPlaces, StopsWhenGone, SleepsSoundly
  <2> QED BY <2>2, <2>3, <2>4 DEF Inv
<1>2. Waiting = <<>>
  BY DEF Init, Waiting
<1>3. Device!Init
  BY <1>2 DEF Init, CallerInit, Device!Init
<1> QED BY <1>1, <1>3

LEMMA StutterKeeps ==
  ASSUME Inv, UNCHANGED vars
  PROVE  Inv' /\ UNCHANGED Device!vars
<1>1. /\ UNCHANGED <<plugged, sent, broken, link, call, given, opens, app>>
      /\ UNCHANGED <<reader, handler, transfer, bytes, reports, shutdown>>
  BY DEF vars, device, caller, libVars
<1>2. Waiting' = Waiting
  BY <1>1, SameWaiting
<1>3. Inv'
  BY <1>1 DEF Inv, TypeOK, CallerOK, CallerPlaces, ReaderPlaces, TransferPlaces, StopsWhenGone,
     SleepsSoundly
<1> QED BY <1>1, <1>2, <1>3 DEF Device!vars

LEMMA Invariance == Spec => []Inv
<1>1. Inv /\ [Next]_vars => Inv'
  BY StepKeeps, StutterKeeps
<1> QED BY <1>1, Initially, PTL DEF Spec

(* The data keeps its types, and the list of reports its bound.            *)
THEOREM TypesKept == Spec => []TypeOK
<1>1. Inv => TypeOK
  BY DEF Inv
<1> QED BY <1>1, Invariance, PTL

(* No wake-up is lost: the read thread has yet to wake a thread that       *)
(* sleeps, whatever comes between its test of the queue and its sleep,     *)
(* unless it broke off after an error of libusb before the read began.     *)
THEOREM SleeperWoken == Spec => []SleeperIsWoken
<1>1. Inv => SleeperIsWoken
  BY DEF Inv, SleepsSoundly, SleeperIsWoken
<1> QED BY <1>1, Invariance, PTL

(* The back end does only what ReportDevice allows: reports in order and   *)
(* each once, dropped only when more than the limit wait, and reads that   *)
(* fail only when the device has gone or libusb has failed.                *)
THEOREM ImplementsDevice == Spec => Device!Init /\ [][Device!Next]_(Device!vars)
<1>1. Inv /\ [Next]_vars => [Device!Next]_(Device!vars)
  BY StepImplements, StutterKeeps
<1> QED BY <1>1, Initially, Invariance, PTL DEF Spec
=============================================================================
