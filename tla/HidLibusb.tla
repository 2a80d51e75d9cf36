----------------------------- MODULE HidLibusb ------------------------------
(***************************************************************************)
(* HIDAPI on Linux: a read thread that keeps one interrupt transfer with   *)
(* libusb and queues what it brings; hid_read_timeout waits on a condition *)
(* variable for the queue.                                                 *)
(*                                                                         *)
(* The mutex is held over a step only by a caller that has tested the      *)
(* queue and is about to sleep (app = "tested"); every other critical      *)
(* section is one step that finds it free.  shutdown_thread is set and     *)
(* read without it.  libusb runs the callback in whichever thread handles  *)
(* events: the read thread, or a caller that waits in hid_write.           *)
(***************************************************************************)
EXTENDS HidCaller

VARIABLES
  reader,     \* where the read thread is
  handler,    \* the thread whose callback is about to submit the transfer again
  transfer,   \* dev->transfer: what libusb knows of it
  bytes,      \* its buffer: the report that completed it
  reports,    \* input_reports
  shutdown    \* shutdown_thread

libVars == <<reader, handler, transfer, bytes, reports, shutdown>>
vars    == <<device, caller, libVars>>

MutexFree == app # "tested"
Done      == {"completed", "timed_out", "no_device", "cancelled"}

Init ==
  /\ CallerInit
  /\ reader = "none" /\ handler = "none" /\ transfer = "none" /\ bytes = 0
  /\ reports = <<>> /\ shutdown = FALSE

-----------------------------------------------------------------------------
(* hid_enumerate lists the devices on the bus; hid_open_path opens the one *)
(* that is wanted, takes it from the kernel's driver and claims its        *)
(* interface, or gives up; then it starts the thread, which submits the    *)
(* first transfer, and the two meet at the barrier.                        *)
Listed     == plugged
Find       == Listed /\ Finds("open") /\ UNCHANGED libVars
CannotOpen == app = "open" /\ NotOpened /\ UNCHANGED libVars

OpenPath ==
  /\ app = "open" /\ plugged /\ Goes("barrier") /\ reader' = "start"
  /\ reports' = <<>> /\ shutdown' = FALSE /\ UNCHANGED <<handler, transfer, bytes>>

(* libusb_submit_transfer refuses a device that has gone; nobody looks. *)
Submitted == IF plugged THEN "flight" ELSE "idle"

ReaderStarts ==
  /\ reader = "start" /\ reader' = "barrier" /\ transfer' = Submitted
  /\ UNCHANGED <<device, caller, handler, bytes, reports, shutdown>>

Barrier ==
  /\ app = "barrier" /\ reader = "barrier" /\ reader' = "loop" /\ Opened
  /\ UNCHANGED <<handler, transfer, bytes, reports, shutdown>>

(* The loop of read_thread: libusb_handle_events comes back when it has    *)
(* handled something, or for reasons of its own; an error ends the loop,   *)
(* with shutdown_thread as it was.  After the cancellation nobody looks    *)
(* whether it failed.                                                      *)
LoopTest ==
  /\ reader = "loop" /\ reader' = IF shutdown THEN "cancel" ELSE "events"
  /\ UNCHANGED <<device, caller, handler, transfer, bytes, reports, shutdown>>

EventsReturn ==
  /\ reader \in {"events", "drain"} /\ handler # "reader"
  /\ transfer \notin Done \/ handler = "caller"
  /\ reader' = IF reader = "events" THEN "loop" ELSE "wake"
  /\ UNCHANGED <<device, caller, handler, transfer, bytes, reports, shutdown>>

EventsFail ==
  /\ reader \in {"events", "drain"} /\ handler # "reader"
  /\ reader' = IF reader = "events" THEN "cancel" ELSE "wake"
  /\ broken' = TRUE
  /\ UNCHANGED <<plugged, sent, caller, handler, transfer, bytes, reports, shutdown>>

(***************************************************************************)
(* read_callback, in thread p.  A report is queued, and a sleeper woken    *)
(* if the queue was empty; then the transfer is submitted again, whatever  *)
(* comes of it, as after a timeout and an unknown status.  A transfer      *)
(* cancelled or without a device ends the loop.                            *)
(***************************************************************************)
Handles(p) ==
  /\ handler = "none" /\ transfer \in Done
  /\ p = "reader" => reader \in {"events", "drain"}
  /\ p = "caller" => app = "writing"

NeverSignals == UNCHANGED <<device, caller>>
Signal == IF app = "asleep" /\ reports = <<>> THEN Goes("woken") ELSE UNCHANGED <<device, caller>>

CallbackQueues(p) ==
  /\ Handles(p) /\ transfer = "completed" /\ MutexFree
  /\ reports' = Queued(reports, bytes) /\ Signal
  /\ handler' = p /\ transfer' = "idle"
  /\ UNCHANGED <<device, reader, bytes, shutdown>>

CallbackGoesOn(p) ==
  /\ Handles(p) /\ transfer = "timed_out" /\ handler' = p /\ transfer' = "idle"
  /\ UNCHANGED <<device, caller, reader, bytes, reports, shutdown>>

HandledBy(p) ==
  reader' = IF p = "caller" THEN reader ELSE IF reader = "events" THEN "loop" ELSE "wake"

CallbackEnds(p) ==
  /\ Handles(p) /\ transfer \in {"cancelled", "no_device"}
  /\ shutdown' = TRUE /\ transfer' = "idle" /\ HandledBy(p)
  /\ UNCHANGED <<device, caller, handler, bytes, reports>>

Resubmit(p) ==
  /\ handler = p /\ handler' = "none" /\ transfer' = Submitted /\ HandledBy(p)
  /\ UNCHANGED <<device, caller, bytes, reports, shutdown>>

(* After the loop: libusb_cancel_transfer fails unless the transfer is in  *)
(* flight, and then the thread does not wait for it.                       *)
ReaderCancels ==
  /\ reader = "cancel"
  /\ IF transfer = "flight" THEN transfer' = "cancelling" /\ reader' = "drain"
                            ELSE reader' = "wake" /\ UNCHANGED transfer
  /\ UNCHANGED <<device, caller, handler, bytes, reports, shutdown>>

NoBroadcast ==
  /\ reader = "wake" /\ MutexFree /\ reader' = "ended" /\ UNCHANGED <<device, caller>>
  /\ UNCHANGED <<handler, transfer, bytes, reports, shutdown>>

Broadcast ==
  /\ reader = "wake" /\ MutexFree /\ reader' = "ended"
  /\ IF app = "asleep" THEN Goes("woken") ELSE UNCHANGED <<device, caller>>
  /\ UNCHANGED <<handler, transfer, bytes, reports, shutdown>>

-----------------------------------------------------------------------------
(* libusb and the bus: what becomes of a transfer in flight. *)
Completes ==
  /\ transfer = "flight" /\ Send /\ transfer' = "completed" /\ bytes' = sent'
  /\ UNCHANGED <<reader, handler, reports, shutdown>>

Settles ==
  /\ \/ transfer = "flight" /\ plugged /\ transfer' = "timed_out"
     \/ transfer = "flight" /\ ~plugged /\ transfer' = "no_device"
     \/ transfer = "cancelling" /\ transfer' = "cancelled"
  /\ UNCHANGED <<device, caller, reader, handler, bytes, reports, shutdown>>

-----------------------------------------------------------------------------
(* hid_read_timeout. *)
Read(mode) == Reading(mode, "locking") /\ UNCHANGED libVars

ReadReport ==
  /\ app \in {"locking", "woken"} /\ reports # <<>>
  /\ Returns(Head(reports)) /\ reports' = Tail(reports)
  /\ UNCHANGED <<reader, handler, transfer, bytes, shutdown>>

ReadFails ==
  /\ app \in {"locking", "woken"} /\ reports = <<>> /\ shutdown
  /\ ReturnsNothing /\ UNCHANGED libVars

ReadFindsNothing ==
  /\ app = "locking" /\ reports = <<>> /\ ~shutdown /\ call = "poll"
  /\ ReturnsNothing /\ UNCHANGED libVars

ReadWaits ==
  /\ app \in {"locking", "woken"} /\ reports = <<>> /\ ~shutdown /\ call # "poll"
  /\ Goes("tested") /\ UNCHANGED libVars

Sleep == app = "tested" /\ Goes("asleep") /\ UNCHANGED libVars

WaitTimesOut ==
  /\ app = "asleep" /\ call = "timeout" /\ ReturnsNothing /\ UNCHANGED libVars

SpuriousWakeUp == app = "asleep" /\ Goes("woken") /\ UNCHANGED libVars

(* hid_write waits for its own transfer, and handles events meanwhile. *)
Write     == app = "idle" /\ link = "open" /\ Goes("writing") /\ UNCHANGED libVars
WriteEnds == app = "writing" /\ handler # "caller" /\ Goes("idle") /\ UNCHANGED libVars

(* hid_close. *)
ForgetsShutdown == Closing("cancel") /\ UNCHANGED libVars
CloseShutsDown ==
  /\ Closing("cancel") /\ shutdown' = TRUE
  /\ UNCHANGED <<reader, handler, transfer, bytes, reports>>

CloseCancels ==
  /\ app = "cancel" /\ Goes("join")
  /\ transfer' = IF transfer = "flight" THEN "cancelling" ELSE transfer
  /\ UNCHANGED <<reader, handler, bytes, reports, shutdown>>

CloseJoins ==
  /\ app = "join" /\ reader = "ended" /\ Closed
  /\ reader' = "none" /\ transfer' = "none" /\ reports' = <<>>
  /\ UNCHANGED <<handler, bytes, shutdown>>

-----------------------------------------------------------------------------
Reader ==
  \/ ReaderStarts \/ Barrier \/ LoopTest \/ EventsReturn
  \/ CallbackQueues("reader") \/ CallbackGoesOn("reader") \/ CallbackEnds("reader")
  \/ Resubmit("reader") \/ ReaderCancels \/ Broadcast

Caller ==
  \/ CannotOpen \/ OpenPath
  \/ ReadReport \/ ReadFails \/ ReadFindsNothing \/ ReadWaits \/ Sleep \/ WaitTimesOut
  \/ CallbackQueues("caller") \/ CallbackGoesOn("caller") \/ CallbackEnds("caller")
  \/ Resubmit("caller") \/ WriteEnds \/ CloseCancels \/ CloseJoins

Next ==
  \/ Unplug /\ UNCHANGED libVars
  \/ Plug /\ UNCHANGED libVars
  \/ Find \/ Reader \/ EventsFail \/ Caller \/ SpuriousWakeUp
  \/ Completes \/ Settles
  \/ (\E mode \in Modes : Read(mode)) \/ Write \/ CloseShutsDown

(***************************************************************************)
(* The scheduler runs both threads, and neither waits for ever for a mutex *)
(* that is released again and again; libusb reports what became of a       *)
(* transfer; time passes.  Nothing says that libusb ever fails.            *)
(***************************************************************************)
Fairness == SF_vars(Reader) /\ WF_vars(Caller) /\ WF_vars(Settles) /\ SF_vars(WaitTimesOut)
Spec == Init /\ [][Next]_vars /\ Fairness

-----------------------------------------------------------------------------
(* Every variable keeps its type, and the list of reports stays bounded. *)
TypeOK ==
  /\ CallerOK
  /\ app \in {"idle", "open", "barrier", "locking", "tested", "asleep", "woken", "writing",
              "cancel", "join"}
  /\ reader \in {"none", "start", "barrier", "loop", "events", "cancel", "drain",
                 "wake", "ended"}
  /\ handler \in {"none", "reader", "caller"}
  /\ transfer \in {"none", "idle", "flight", "cancelling"} \cup Done
  /\ bytes \in Nat /\ reports \in Queue /\ shutdown \in BOOLEAN

(***************************************************************************)
(* No wake-up is lost: while a thread sleeps for a report there is none,   *)
(* and the read thread that will wake it has yet to do so, also when it is *)
(* told to stop between the thread's test and its sleep                    *)
(* (hid-libusb.c:713, "make sure that a thread which is about to go to     *)
(* sleep ... will go to sleep before the condition is signaled").  Only    *)
(* after libusb has failed (703-706) may the thread be gone: it ends with  *)
(* shutdown_thread unset, and a read that begins then sleeps until its     *)
(* time is up.                                                             *)
(***************************************************************************)
SleeperIsWoken ==
  app = "asleep" => /\ reports = <<>> /\ reader # "none"
                    /\ reader = "ended" => broken /\ ~shutdown

(***************************************************************************)
(* hid_close frees a transfer that libusb has given back: "the objects can *)
(* be safely cleaned up after the call to pthread_join()"                  *)
(* (hid-libusb.c:727).                                                     *)
(***************************************************************************)
FreesWhatIsDone == [][transfer' = "none" => transfer \in {"none", "idle"}]_vars

(* The device, as the thread that reads it sees it. *)
Waiting == reports \o IF transfer = "completed" THEN <<bytes>> ELSE <<>>
Device  == INSTANCE ReportDevice WITH queue <- Waiting
DeviceSpec == Device!Spec
=============================================================================
