------------------------------- MODULE HidApi -------------------------------
(***************************************************************************)
(* HIDAPI as the application links it: the project file of the build takes *)
(* one back end, whose read it implements with a thread and libusb, with a *)
(* thread and a run loop, or with overlapped I/O.  All three keep what     *)
(* ReportDevice promises.                                                  *)
(*                                                                         *)
(* Only Windows is read without a time limit here: on Linux such a read    *)
(* hangs when the device goes between two submissions of the transfer, on  *)
(* macOS when the thread that reads is the one that opened the library.    *)
(***************************************************************************)
EXTENDS HidCaller

VARIABLES
  backend,                                       \* HIDAPI.pro
  reader, reports, shutdown, bytes,              \* as in the back ends
  handler, transfer,                             \* of libusb,
  disconnected, callbacks, signalled,            \* of macOS,
  pending, io, event                             \* of Windows

Libusb  == INSTANCE HidLibusb WITH Modes <- Modes \ {"block"}
Mac     == INSTANCE HidMac WITH Modes <- Modes \ {"block"}
Windows == INSTANCE HidWindows

notWindows == <<handler, transfer, disconnected, callbacks, signalled, reader, shutdown>>
notLibusb  == <<disconnected, callbacks, signalled, pending, io, event>>
notMac     == <<handler, transfer, bytes, pending, io, event>>
vars       == <<device, caller, backend, bytes, reports, notWindows, pending, io, event>>

Init ==
  /\ backend \in {"libusb", "mac", "windows"}
  /\ Libusb!Init /\ Mac!Init /\ Windows!Init

OnLibusb(A)  == backend = "libusb" /\ A /\ UNCHANGED <<backend, notLibusb>>
OnMac(A)     == backend = "mac" /\ A /\ UNCHANGED <<backend, notMac>>
OnWindows(A) == backend = "windows" /\ A /\ UNCHANGED <<backend, notWindows>>

Next == OnLibusb(Libusb!Next) \/ OnMac(Mac!Next) \/ OnWindows(Windows!Next)

Fairness ==
  /\ SF_vars(OnLibusb(Libusb!Reader)) /\ WF_vars(OnLibusb(Libusb!Caller))
  /\ SF_vars(OnLibusb(Libusb!WaitTimesOut)) /\ WF_vars(OnLibusb(Libusb!Settles))
  /\ SF_vars(OnMac(Mac!Reader)) /\ WF_vars(OnMac(Mac!Caller))
  /\ SF_vars(OnMac(Mac!WaitTimesOut))
  /\ WF_vars(OnWindows(Windows!Caller)) /\ WF_vars(OnWindows(Windows!ReadIsFailed))

Spec == Init /\ [][Next]_vars /\ Fairness

-----------------------------------------------------------------------------
(* Every variable of the back end keeps its type. *)
TypeOK ==
  /\ backend = "libusb" => Libusb!TypeOK
  /\ backend = "mac" => Mac!TypeOK
  /\ backend = "windows" => Windows!TypeOK

(* No back end loses the wake-up of a thread that sleeps in hid_read.      *)
SleeperIsWoken ==
  /\ backend = "libusb" => Libusb!SleeperIsWoken
  /\ backend = "mac" => Mac!SleeperIsWoken

(* hid_close wakes up the run loop of a thread that lives (mac/hid.c:683). *)
RunLoopAlive == backend = "mac" => Mac!RunLoopAlive

(* The event says of the read of an earlier call what is true of it        *)
(* (windows/hid.c:612).                                                    *)
EventTellsRead == backend = "windows" => Windows!EventTellsRead

(***************************************************************************)
(* Every back end implements ReportDevice: the report that libusb has      *)
(* completed waits behind those that were queued, the one that the         *)
(* overlapped read brought before those that the driver keeps.             *)
(***************************************************************************)
Waiting ==
  CASE backend = "libusb" -> Libusb!Waiting
    [] backend = "mac" -> reports
    [] backend = "windows" -> (IF io = "done" THEN <<bytes>> ELSE <<>>) \o reports
Device  == INSTANCE ReportDevice WITH queue <- Waiting
DeviceSpec == Device!Spec
=============================================================================
