----------------------------- MODULE HidMacProofs -----------------------------
(***************************************************************************)
(* HIDAPI's macOS back end, for any limit of its queue, any ways to read   *)
(* and any number of reports and openings: its types, the wake-up of a     *)
(* sleeper, the life of the run loop that others wake up and stop, and the *)
(* safety part of its implementation of ReportDevice.                      *)
(***************************************************************************)
EXTENDS HidMac, TLAPS

Device == INSTANCE ReportDevice WITH queue <- reports

(* Where the caller is in a call, and what is open meanwhile.              *)
CallerPlaces ==
  /\ app \in {"open", "barrier"} <=> link = "opening"
  /\ app \in {"unregister", "shutdown", "signal", "wakeup", "parked", "join"} <=> link = "closing"
  /\ app \in {"locking", "tested", "asleep", "woken"} <=> call # "none"
  /\ app \in {"locking", "tested", "asleep", "woken", "writing"} => link = "open"

(* Where the read thread is: it ends only when hid_close has met it at the *)
(* second barrier.                                                         *)
ReaderPlaces ==
  /\ reader = "none" <=> link = "closed" \/ app = "open"
  /\ reader \in {"start", "barrier"} <=> app = "barrier"
  /\ reader = "ended" <=> app = "join"
  /\ reader \in {"wake", "parked", "ended"} => Gone
  /\ reader \in {"none", "start"} => reports = <<>>

(* The thread's loop ends when the device is being closed or has gone: the *)
(* source is signalled by hid_close only.                                  *)
StopsWhenGone ==
  /\ app = "barrier" => ~Gone
  /\ link = "open" /\ Gone => ~plugged
  /\ link \in {"opening", "open"} /\ signalled => app = "open"
  /\ reader = "told" /\ link # "closing" => ~plugged

(* A thread that found nothing and will sleep is waited for.               *)
SleepsSoundly ==
  app \in {"tested", "asleep"} => reports = <<>> /\ reader \notin {"none", "parked", "ended"}

Inv == TypeOK /\ CallerPlaces /\ ReaderPlaces /\ StopsWhenGone /\ SleepsSoundly

-----------------------------------------------------------------------------
LEMMA EmptyQueue == <<>> \in Queue
BY LimitsAssumption DEF Queue

LEMMA QueuedStays ==
  ASSUME NEW list \in Queue, NEW report \in Nat
  PROVE  Queued(list, report) \in Queue
BY LimitsAssumption DEF Queue, Queued

LEMMA TailStays ==
  ASSUME NEW list \in Queue, list # <<>>
  PROVE  Tail(list) \in Queue /\ Head(list) \in Nat
BY LimitsAssumption DEF Queue

(* Every step keeps the invariant.                                         *)
LEMMA StepKeeps ==
  ASSUME Inv, Next
  PROVE  Inv'
<1> USE ModesAssumption, LimitsAssumption, EmptyQueue
    DEF Inv, TypeOK, CallerOK, CallerPlaces, ReaderPlaces, StopsWhenGone, SleepsSoundly, Gone,
        device, caller, macVars
<1>1. CASE Unplug /\ UNCHANGED macVars
  <2>1. /\ plugged' = FALSE
        /\ UNCHANGED <<sent, broken, link, call, given, opens, app>>
        /\ UNCHANGED <<reader, reports, shutdown, disconnected, callbacks, signalled>>
    BY <1>1 DEF Unplug
  <2>2. TypeOK' BY <2>1
  <2>3. CallerPlaces' BY <2>1
  <2>4. ReaderPlaces' BY <2>1
  <2>5. StopsWhenGone' BY <2>1
  <2>6. SleepsSoundly' BY <2>1
  <2> QED BY <2>2, <2>3, <2>4, <2>5, <2>6
<1>2. CASE Plug /\ UNCHANGED macVars
  BY <1>2 DEF Plug
<1>3. CASE Find
  BY <1>3 DEF Find, Finds, Listed
<1>4. CASE CannotOpen
  BY <1>4 DEF CannotOpen, NotOpened
<1>5. CASE OpenPath
  BY <1>5 DEF OpenPath, Goes
<1>6. CASE ReaderStarts
  BY <1>6 DEF ReaderStarts
<1>7. CASE Barrier
  BY <1>7 DEF Barrier, Opened
<1>8. CASE LoopTest
  BY <1>8 DEF LoopTest
<1>9. CASE RunInMode \/ RunTimesOut
  BY <1>9 DEF RunInMode, RunTimesOut
<1>10. CASE RunFinishes
  BY <1>10 DEF RunFinishes
<1>11. CASE PerformSignal
  BY <1>11 DEF PerformSignal
<1>12. CASE RunStops
  BY <1>12 DEF RunStops
<1>13. CASE Broadcast
  BY <1>13 DEF Broadcast, MutexFree, Goes
<1>14. CASE RemovalCallback
  BY <1>14 DEF RemovalCallback
<1>15. CASE \E mode \in Modes : Read(mode)
  BY <1>15 DEF Read, Reading
<1>16. CASE ReadFails
  BY <1>16 DEF ReadFails, ReturnsNothing, Returns
<1>17. CASE ReadFindsNothing
  BY <1>17 DEF ReadFindsNothing, ReturnsNothing, Returns
<1>18. CASE ReadWaits
  BY <1>18 DEF ReadWaits, Goes
<1>19. CASE Sleep \/ SpuriousWakeUp
  BY <1>19 DEF Sleep, SpuriousWakeUp, Goes
<1>20. CASE WaitTimesOut
  BY <1>20 DEF WaitTimesOut, ReturnsNothing, Returns
<1>21. CASE Close
  BY <1>21 DEF Close, Closing
<1>22. CASE CloseUnregisters
  BY <1>22 DEF CloseUnregisters, Goes
<1>23. CASE CloseShutsDown
  BY <1>23 DEF CloseShutsDown, Goes
<1>24. CASE CloseSignals
  BY <1>24 DEF CloseSignals, Goes
<1>25. CASE CloseWakesUp
  BY <1>25 DEF CloseWakesUp, Goes
<1>26. CASE ShutdownBarrier
  BY <1>26 DEF ShutdownBarrier, Goes
<1>27. CASE CloseJoins
  BY <1>27 DEF CloseJoins, Closed
<1>28. CASE ReportCallback
  BY <1>28, QueuedStays DEF ReportCallback, MutexFree, Signal
<1>29. CASE ReadReport
  BY <1>29, TailStays DEF ReadReport, Returns
<1>30. CASE Write \/ WriteEnds
  BY <1>30 DEF Write, WriteEnds, Goes
<1> QED
  BY <1>1, <1>2, <1>3, <1>4, <1>5, <1>6, <1>7, <1>8, <1>9, <1>10, <1>11,
     <1>12, <1>13, <1>14, <1>15, <1>16, <1>17, <1>18, <1>19, <1>20, <1>21,
     <1>22, <1>23, <1>24, <1>25, <1>26, <1>27, <1>28, <1>29, <1>30
  DEF Next, Reader, Caller

-----------------------------------------------------------------------------
(* Every step is one of the device's, or a stutter.                        *)
LEMMA StepImplements ==
  ASSUME Inv, Next
  PROVE  [Device!Next]_(Device!vars)
<1> USE DEF Inv, TypeOK, CallerOK, CallerPlaces, ReaderPlaces, StopsWhenGone, SleepsSoundly, Gone,
        device, caller, macVars
<1>1. CASE Unplug /\ UNCHANGED macVars
  BY <1>1 DEF Unplug, Device!Next, Device!Unplug
<1>2. CASE Plug /\ UNCHANGED macVars
  BY <1>2 DEF Plug, Device!Next, Device!Plug
<1>3. CASE Find
  BY <1>3 DEF Find, Finds, Listed, Device!Next, Device!Open
<1>4. CASE CannotOpen
  BY <1>4 DEF CannotOpen, NotOpened, Device!Next, Device!NotOpened
<1>5. CASE OpenPath
  BY <1>5 DEF OpenPath, Goes, Device!vars
<1>6. CASE ReaderStarts
  BY <1>6 DEF ReaderStarts, Device!vars
<1>7. CASE Barrier
  BY <1>7 DEF Barrier, Opened, Device!Next, Device!Opened
<1>8. CASE LoopTest
  BY <1>8 DEF LoopTest, Device!vars
<1>9. CASE RunInMode \/ RunTimesOut
  BY <1>9 DEF RunInMode, RunTimesOut, Device!vars
<1>10. CASE RunFinishes
  BY <1>10 DEF RunFinishes, Device!vars
<1>11. CASE PerformSignal
  BY <1>11 DEF PerformSignal, Device!vars
<1>12. CASE RunStops
  BY <1>12 DEF RunStops, Device!vars
<1>13. CASE Broadcast
  BY <1>13 DEF Broadcast, MutexFree, Goes, Device!vars
<1>14. CASE RemovalCallback
  BY <1>14 DEF RemovalCallback, Device!vars
<1>15. CASE \E mode \in Modes : Read(mode)
  BY <1>15 DEF Read, Reading, Device!Next, Device!Ask
<1>16. CASE ReadFails
  BY <1>16 DEF ReadFails, ReturnsNothing, Returns, Device!Next, Device!ReadEnds, Device!Fail
<1>17. CASE ReadFindsNothing
  BY <1>17 DEF ReadFindsNothing, ReturnsNothing, Returns, Device!Next, Device!ReadEnds, Device!GiveUp
<1>18. CASE ReadWaits
  BY <1>18 DEF ReadWaits, Goes, Device!vars
<1>19. CASE Sleep \/ SpuriousWakeUp
  BY <1>19 DEF Sleep, SpuriousWakeUp, Goes, Device!vars
<1>20. CASE WaitTimesOut
  BY <1>20 DEF WaitTimesOut, ReturnsNothing, Returns, Device!Next, Device!ReadEnds, Device!GiveUp
<1>21. CASE Close
  BY <1>21 DEF Close, Closing, Device!Next, Device!Close
<1>22. CASE CloseUnregisters
  BY <1>22 DEF CloseUnregisters, Goes, Device!vars
<1>23. CASE CloseShutsDown
  BY <1>23 DEF CloseShutsDown, Goes, Device!vars
<1>24. CASE CloseSignals
  BY <1>24 DEF CloseSignals, Goes, Device!vars
<1>25. CASE CloseWakesUp
  BY <1>25 DEF CloseWakesUp, Goes, Device!vars
<1>26. CASE ShutdownBarrier
  BY <1>26 DEF ShutdownBarrier, Goes, Device!vars
<1>27. CASE CloseJoins
  BY <1>27 DEF CloseJoins, Closed, Device!Next, Device!Closed
<1>28. CASE ReportCallback
  <2>1. /\ plugged /\ link # "closed" /\ sent' = sent + 1 /\ reports' = Queued(reports, sent')
        /\ UNCHANGED <<plugged, link, call, given, broken>>
    BY <1>28 DEF ReportCallback, Signal
  <2> DEFINE more == Append(reports, sent')
  <2>2. CASE Len(reports) > QueueLimit + 1
    <3>1. reports' = Device!Without(more, 1) /\ Len(more) > QueueLimit
      BY <2>1, <2>2, LimitsAssumption DEF Queue, Queued, Device!Without
    <3>2. Device!Without(more, 1) \in Device!Dropped(more)
      BY <3>1 DEF Device!Dropped
    <3> QED BY <2>1, <3>1, <3>2 DEF Device!Next, Device!Arrive
  <2>3. CASE ~(Len(reports) > QueueLimit + 1)
    BY <2>1, <2>3 DEF Queued, Device!Next, Device!Arrive
  <2> QED BY <2>2, <2>3
<1>29. CASE ReadReport
  <2>1. /\ reports # <<>> /\ given' = Head(reports) /\ reports' = Tail(reports)
        /\ call # "none" /\ call' = "none" /\ UNCHANGED <<plugged, sent, link, broken>>
    BY <1>29 DEF ReadReport, Returns
  <2> QED BY <2>1 DEF Device!Next, Device!ReadEnds, Device!Answer
<1>30. CASE Write \/ WriteEnds
  BY <1>30 DEF Write, WriteEnds, Goes, Device!vars
<1> QED
  BY <1>1, <1>2, <1>3, <1>4, <1>5, <1>6, <1>7, <1>8, <1>9, <1>10, <1>11,
     <1>12, <1>13, <1>14, <1>15, <1>16, <1>17, <1>18, <1>19, <1>20, <1>21,
     <1>22, <1>23, <1>24, <1>25, <1>26, <1>27, <1>28, <1>29, <1>30
  DEF Next, Reader, Caller

-----------------------------------------------------------------------------
LEMMA Initially == Init => Inv /\ Device!Init
<1> SUFFICES ASSUME Init PROVE Inv /\ Device!Init
  OBVIOUS
<1>0. opens \in 0 .. MaxOpens /\ sent \in 0 .. MaxReports
  BY LimitsAssumption DEF Init, CallerInit
<1>1. CallerOK BY <1>0 DEF Init, CallerInit, CallerOK
<1>2. TypeOK BY <1>1, EmptyQueue DEF Init, CallerInit, TypeOK
<1>3. CallerPlaces /\ ReaderPlaces BY DEF Init, CallerInit, CallerPlaces, ReaderPlaces
<1>4. StopsWhenGone /\ SleepsSoundly
  BY DEF Init, CallerInit, StopsWhenGone, SleepsSoundly, Gone
<1>5. Device!Init BY DEF Init, CallerInit, Device!Init
<1> QED BY <1>2, <1>3, <1>4, <1>5 DEF Inv

LEMMA StutterKeeps ==
  ASSUME Inv, UNCHANGED vars
  PROVE  Inv' /\ UNCHANGED Device!vars
<1>1. /\ UNCHANGED <<plugged, sent, broken, link, call, given, opens, app>>
      /\ UNCHANGED <<reader, reports, shutdown, disconnected, callbacks, signalled>>
  BY DEF vars, device, caller, macVars
<1>2. Inv'
  BY <1>1 DEF Inv, TypeOK, CallerOK, CallerPlaces, ReaderPlaces, StopsWhenGone, SleepsSoundly, Gone
<1> QED BY <1>1, <1>2 DEF Device!vars

LEMMA Invariance == Spec => []Inv
<1>1. Inv /\ [Next]_vars => Inv'
  BY StepKeeps, StutterKeeps
<1> QED BY <1>1, Initially, PTL DEF Spec

(* The data keeps its types, and the list of reports its bound.            *)
THEOREM TypesKept == Spec => []TypeOK
<1>1. Inv => TypeOK
  BY DEF Inv
<1> QED BY <1>1, Invariance, PTL

(* No wake-up is lost: the read thread has yet to wake a thread that       *)
(* sleeps.                                                                 *)
THEOREM SleeperWoken == Spec => []SleeperIsWoken
<1>1. Inv => SleeperIsWoken
  BY DEF Inv, SleepsSoundly, SleeperIsWoken
<1> QED BY <1>1, Invariance, PTL

(* hid_close and the removal callback find a run loop that lives.          *)
THEOREM RunLoopLives == Spec => []RunLoopAlive
<1>1. Inv => RunLoopAlive
  BY DEF Inv, CallerPlaces, ReaderPlaces, RunLoopAlive
<1> QED BY <1>1, Invariance, PTL

(* The back end does only what ReportDevice allows.                        *)
THEOREM ImplementsDevice == Spec => Device!Init /\ [][Device!Next]_(Device!vars)
<1>1. Inv /\ [Next]_vars => [Device!Next]_(Device!vars)
  BY StepImplements, StutterKeeps
<1> QED BY <1>1, Initially, Invariance, PTL DEF Spec
=============================================================================
