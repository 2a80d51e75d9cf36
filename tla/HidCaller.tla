----------------------------- MODULE HidCaller ------------------------------
(***************************************************************************)
(* What the back ends of HIDAPI have in common: the device, which is       *)
(* unplugged and plugged in again and sends numbered reports, and the one  *)
(* thread of the application (HID_PnP) that opens it, reads it, writes to  *)
(* it and closes it.  Each back end adds what its calls do in between, and *)
(* moves app, the place of the calling thread.                             *)
(***************************************************************************)
EXTENDS Naturals, Sequences

CONSTANTS
  Modes,        \* the ways to read that are used
  QueueLimit,   \* 30 in the code
  MaxReports,   \* bound: reports the device sends
  MaxOpens      \* bound: times the device is opened

ASSUME ModesAssumption == Modes \subseteq {"poll", "timeout", "block"}
ASSUME LimitsAssumption == QueueLimit \in Nat /\ MaxReports \in Nat /\ MaxOpens \in Nat

VARIABLES
  plugged,   \* the device is on the bus
  sent,      \* reports it has sent
  broken,    \* what carries its reports has failed since it was opened
  link,      \* closed, opening, open, closing
  call,      \* the read in progress, or "none"
  given,     \* the report read last
  opens,     \* bound
  app        \* where the caller is in the call

device == <<plugged, sent, broken>>
caller == <<link, call, given, opens, app>>

CallerInit ==
  /\ plugged = TRUE /\ sent = 0 /\ link = "closed" /\ call = "none" /\ given = 0
  /\ broken = FALSE /\ opens = 0 /\ app = "idle"

Unplug == plugged /\ plugged' = FALSE /\ UNCHANGED <<sent, broken, caller>>
Plug   == ~plugged /\ link = "closed" /\ plugged' = TRUE /\ UNCHANGED <<sent, broken, caller>>

(* The device sends its next report. *)
Send ==
  /\ plugged /\ link # "closed" /\ sent < MaxReports /\ sent' = sent + 1
  /\ UNCHANGED <<plugged, broken, caller>>

(* hid_open takes the first of the devices listed with the identifiers and *)
(* the serial number it wants; hid_open_path goes on at next, where the    *)
(* device may have gone or be refused.                                     *)
Finds(next) ==
  /\ app = "idle" /\ link = "closed"
  /\ opens < MaxOpens /\ opens' = opens + 1
  /\ link' = "opening" /\ app' = next
  /\ UNCHANGED <<device, call, given>>

Opened    == link' = "open" /\ app' = "idle" /\ UNCHANGED <<device, call, given, opens>>
NotOpened == link' = "closed" /\ app' = "idle" /\ UNCHANGED <<device, call, given, opens>>

(* hid_read: hid_read_timeout without a limit ("block"), or with 0 ms      *)
(* ("poll") once hid_set_nonblocking was called.                           *)
Reading(mode, next) ==
  /\ app = "idle" /\ link = "open"
  /\ call' = mode /\ app' = next
  /\ UNCHANGED <<device, link, given, opens>>

(* It returns a report, 0 or -1. *)
Returns(report) ==
  /\ call' = "none" /\ app' = "idle" /\ given' = report
  /\ UNCHANGED <<device, link, opens>>
ReturnsNothing == Returns(given)

Closing(next) ==
  /\ app = "idle" /\ link = "open" /\ link' = "closing" /\ app' = next
  /\ UNCHANGED <<device, call, given, opens>>

Closed ==
  /\ link' = "closed" /\ app' = "idle" /\ broken' = FALSE
  /\ UNCHANGED <<plugged, sent, call, given, opens>>

Goes(next) == app' = next /\ UNCHANGED <<device, link, call, given, opens>>

CallerOK ==
  /\ plugged \in BOOLEAN /\ sent \in 0 .. MaxReports /\ broken \in BOOLEAN
  /\ link \in {"closed", "opening", "open", "closing"}
  /\ call \in Modes \cup {"none"} /\ given \in Nat /\ opens \in 0 .. MaxOpens

Queue == {list \in Seq(Nat) : Len(list) <= QueueLimit + 2}

(* A report is put at the end of the list of those that wait; the list     *)
(* counts the links it follows to get there (read_callback,                *)
(* hid_report_callback).                                                   *)
NeverDrops(list, report) == Append(list, report)
Queued(list, report) ==
  IF Len(list) > QueueLimit + 1 THEN Tail(Append(list, report)) ELSE Append(list, report)
=============================================================================
