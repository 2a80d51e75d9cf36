------------------------------- MODULE HidMac -------------------------------
(***************************************************************************)
(* HIDAPI on macOS: a read thread runs a Core Foundation run loop, which   *)
(* calls hid_report_callback for every report; unplugging is told to the   *)
(* run loop of the thread that opened the library, the caller's, between   *)
(* two of its calls.                                                       *)
(*                                                                         *)
(* As in HidLibusb the mutex is held over a step only by a caller that is  *)
(* about to sleep (app = "tested"); disconnected and shutdown_thread are   *)
(* read and written without it.                                            *)
(***************************************************************************)
EXTENDS HidCaller

VARIABLES
  reader,        \* where the read thread is; "told": its run loop is to stop
  reports,       \* input_reports
  shutdown,      \* shutdown_thread
  disconnected,  \* set by the removal callback, or by the read thread
  callbacks,     \* the report and removal callbacks are registered
  signalled      \* dev->source

macVars == <<reader, reports, shutdown, disconnected, callbacks, signalled>>
vars    == <<device, caller, macVars>>

MutexFree == app # "tested"

Init ==
  /\ CallerInit
  /\ reader = "none" /\ reports = <<>> /\ shutdown = FALSE /\ disconnected = FALSE
  /\ callbacks = FALSE /\ signalled = FALSE

-----------------------------------------------------------------------------
(* hid_enumerate lists the devices of the HID manager; hid_open looks for  *)
(* the one that is wanted; hid_open_path opens its handle, registers the   *)
(* callbacks and starts the thread, or gives up.                           *)
Listed     == plugged
Find       == Listed /\ Finds("open") /\ UNCHANGED macVars
CannotOpen == app = "open" /\ NotOpened /\ UNCHANGED macVars

OpenPath ==
  /\ app = "open" /\ plugged /\ Goes("barrier")
  /\ reader' = "start" /\ reports' = <<>> /\ shutdown' = FALSE /\ disconnected' = FALSE
  /\ callbacks' = TRUE /\ signalled' = FALSE

ReaderStarts ==
  /\ reader = "start" /\ reader' = "barrier"
  /\ UNCHANGED <<device, caller, reports, shutdown, disconnected, callbacks, signalled>>

Barrier ==
  /\ app = "barrier" /\ reader = "barrier" /\ reader' = "loop" /\ Opened
  /\ UNCHANGED <<reports, shutdown, disconnected, callbacks, signalled>>

(***************************************************************************)
(* read_thread.  CFRunLoopStop stops a loop that runs and is lost on one   *)
(* that does not; a source that was signalled before is served by the next *)
(* run.                                                                    *)
(***************************************************************************)
LoopTest ==
  /\ reader = "loop" /\ reader' = IF shutdown \/ disconnected THEN "wake" ELSE "enter"
  /\ UNCHANGED <<device, caller, reports, shutdown, disconnected, callbacks, signalled>>

RunInMode ==
  /\ reader = "enter" /\ reader' = "running"
  /\ UNCHANGED <<device, caller, reports, shutdown, disconnected, callbacks, signalled>>

RunTimesOut ==
  /\ reader = "running" /\ reader' = "loop"
  /\ UNCHANGED <<device, caller, reports, shutdown, disconnected, callbacks, signalled>>

RunFinishes ==
  /\ reader = "running" /\ ~plugged /\ reader' = "wake" /\ disconnected' = TRUE
  /\ UNCHANGED <<device, caller, reports, shutdown, callbacks, signalled>>

(* perform_signal_callback. *)
PerformSignal ==
  /\ reader = "running" /\ signalled /\ reader' = "told" /\ signalled' = FALSE
  /\ UNCHANGED <<device, caller, reports, shutdown, disconnected, callbacks>>

RunStops ==
  /\ reader = "told" /\ reader' = "wake" /\ shutdown' = TRUE
  /\ UNCHANGED <<device, caller, reports, disconnected, callbacks, signalled>>

SkipsBarrier ==
  /\ reader = "wake" /\ MutexFree /\ reader' = "ended"
  /\ IF app = "asleep" THEN Goes("woken") ELSE UNCHANGED <<device, caller>>
  /\ UNCHANGED <<reports, shutdown, disconnected, callbacks, signalled>>

(* The handle of the device is closed, and the thread waits for hid_close. *)
Broadcast ==
  /\ reader = "wake" /\ MutexFree /\ reader' = "parked"
  /\ IF app = "asleep" THEN Goes("woken") ELSE UNCHANGED <<device, caller>>
  /\ UNCHANGED <<reports, shutdown, disconnected, callbacks, signalled>>

(* The device sends a report while the loop runs: hid_report_callback. *)
NeverSignals == UNCHANGED <<link, call, given, opens, app>>
Signal == /\ app' = IF app = "asleep" THEN "woken" ELSE app
          /\ UNCHANGED <<link, call, given, opens>>

ReportCallback ==
  /\ plugged /\ sent < MaxReports /\ sent' = sent + 1 /\ UNCHANGED <<plugged, broken>>
  /\ reader = "running" /\ callbacks /\ MutexFree
  /\ reports' = Queued(reports, sent') /\ Signal
  /\ UNCHANGED <<reader, shutdown, disconnected, callbacks, signalled>>

(* hid_device_removal_callback. *)
RemovalCallback ==
  /\ ~plugged /\ callbacks /\ ~disconnected /\ app = "idle" /\ link = "open"
  /\ disconnected' = TRUE /\ reader' = IF reader = "running" THEN "told" ELSE reader
  /\ UNCHANGED <<device, caller, reports, shutdown, callbacks, signalled>>

-----------------------------------------------------------------------------
(* hid_read_timeout; cond_wait and cond_timedwait look at disconnected and *)
(* shutdown_thread only after a wake-up, and then before the reports.      *)
Gone       == disconnected \/ shutdown
Read(mode) == Reading(mode, "locking") /\ UNCHANGED macVars

ReadReport ==
  /\ app \in {"locking", "woken"} /\ reports # <<>> /\ (app = "woken" => ~Gone)
  /\ Returns(Head(reports)) /\ reports' = Tail(reports)
  /\ UNCHANGED <<reader, shutdown, disconnected, callbacks, signalled>>

ReadFails ==
  /\ Gone /\ (app = "woken" \/ (app = "locking" /\ reports = <<>>))
  /\ ReturnsNothing /\ UNCHANGED macVars

ReadFindsNothing ==
  /\ app = "locking" /\ reports = <<>> /\ ~Gone /\ call = "poll"
  /\ ReturnsNothing /\ UNCHANGED macVars

ReadWaits ==
  /\ app \in {"locking", "woken"} /\ reports = <<>> /\ ~Gone /\ call # "poll"
  /\ Goes("tested") /\ UNCHANGED macVars

Sleep == app = "tested" /\ Goes("asleep") /\ UNCHANGED macVars

WaitTimesOut ==
  /\ app = "asleep" /\ call = "timeout" /\ ReturnsNothing /\ UNCHANGED macVars

SpuriousWakeUp == app = "asleep" /\ Goes("woken") /\ UNCHANGED macVars

(* hid_write gives up at once when the device is known to have gone, and   *)
(* otherwise waits for the kernel; the removal callback does not come      *)
(* meanwhile.                                                              *)
Write ==
  /\ app = "idle" /\ link = "open" /\ ~disconnected
  /\ Goes("writing") /\ UNCHANGED macVars

WriteEnds == app = "writing" /\ Goes("idle") /\ UNCHANGED macVars

-----------------------------------------------------------------------------
(* hid_close: callbacks off, shutdown_thread and the source, the wake-up   *)
(* call to the run loop, the barrier, the join.                            *)
Close == Closing("unregister") /\ UNCHANGED macVars

CloseUnregisters ==
  /\ app = "unregister" /\ Goes("shutdown") /\ callbacks' = (callbacks /\ disconnected)
  /\ UNCHANGED <<reader, reports, shutdown, disconnected, signalled>>

CloseShutsDown ==
  /\ app = "shutdown" /\ Goes("signal") /\ shutdown' = TRUE
  /\ UNCHANGED <<reader, reports, disconnected, callbacks, signalled>>

CloseSignals ==
  /\ app = "signal" /\ Goes("wakeup") /\ signalled' = TRUE
  /\ UNCHANGED <<reader, reports, shutdown, disconnected, callbacks>>

CloseWakesUp == app = "wakeup" /\ Goes("parked") /\ UNCHANGED macVars

ShutdownBarrier ==
  /\ app = "parked" /\ reader = "parked" /\ reader' = "ended" /\ Goes("join")
  /\ UNCHANGED <<reports, shutdown, disconnected, callbacks, signalled>>

CloseJoins ==
  /\ app = "join" /\ reader = "ended" /\ Closed
  /\ reader' = "none" /\ reports' = <<>> /\ callbacks' = FALSE
  /\ UNCHANGED <<shutdown, disconnected, signalled>>

-----------------------------------------------------------------------------
Reader ==
  \/ ReaderStarts \/ Barrier \/ LoopTest \/ RunInMode \/ RunTimesOut
  \/ PerformSignal \/ RunStops \/ Broadcast \/ ShutdownBarrier

Caller ==
  \/ CannotOpen \/ OpenPath
  \/ ReadReport \/ ReadFails \/ ReadFindsNothing \/ ReadWaits \/ Sleep \/ WaitTimesOut
  \/ WriteEnds \/ CloseUnregisters \/ CloseShutsDown \/ CloseSignals \/ CloseWakesUp \/ CloseJoins

Next ==
  \/ Unplug /\ UNCHANGED macVars
  \/ Plug /\ UNCHANGED macVars
  \/ Find \/ Reader \/ Caller \/ SpuriousWakeUp
  \/ RunFinishes \/ ReportCallback \/ RemovalCallback
  \/ (\E mode \in Modes : Read(mode)) \/ Write \/ Close

Fairness == SF_vars(Reader) /\ WF_vars(Caller) /\ SF_vars(WaitTimesOut)
Spec == Init /\ [][Next]_vars /\ Fairness

-----------------------------------------------------------------------------
(* Every variable keeps its type, and the list of reports stays bounded. *)
TypeOK ==
  /\ CallerOK
  /\ app \in {"idle", "open", "barrier", "locking", "tested", "asleep", "woken",
              "writing", "unregister", "shutdown", "signal", "wakeup", "parked", "join"}
  /\ reader \in {"none", "start", "barrier", "loop", "enter", "running", "told", "wake",
                 "parked", "ended"}
  /\ reports \in Queue /\ shutdown \in BOOLEAN /\ disconnected \in BOOLEAN
  /\ callbacks \in BOOLEAN /\ signalled \in BOOLEAN

(* While a thread sleeps for a report there is none, and the read thread   *)
(* has yet to wake it when it ends (mac/hid.c:662).                        *)
SleeperIsWoken ==
  app = "asleep" => reports = <<>> /\ reader \notin {"none", "parked", "ended"}

(***************************************************************************)
(* The run loop that hid_close wakes up, and that the removal callback     *)
(* stops, belongs to a thread that has not ended (mac/hid.c:683, "This     *)
(* thread still needs to be valid when that function is called").          *)
(***************************************************************************)
RunLoopAlive ==
  app = "wakeup" \/ (callbacks /\ link = "open") => reader \notin {"none", "start", "ended"}
=============================================================================
