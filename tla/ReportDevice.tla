---------------------------- MODULE ReportDevice ----------------------------
(***************************************************************************)
(* What hidapi.h promises the thread that uses a device, whichever back    *)
(* end implements it: reports are read in the order in which they arrive,  *)
(* each once; only when more than QueueLimit of them wait may the oldest   *)
(* be dropped; a read fails only when the device has gone, or what carries *)
(* its reports has failed (-1 "on error"), and never hangs when there is   *)
(* something to read, when its time is up or when the device has gone;     *)
(* opening and closing come to an end.                                     *)
(***************************************************************************)
EXTENDS Naturals, Sequences

CONSTANTS
  Modes,       \* how a read may wait: "poll", "timeout", "block"
  QueueLimit   \* the reports that are kept for a thread that does not read

VARIABLES
  plugged,   \* the device is there
  sent,      \* the number of reports it has sent, their names
  link,      \* the device is closed, opening, open or closing
  queue,     \* the reports that wait to be read
  call,      \* the read in progress: its mode, or "none"
  given,     \* the report that was read last
  broken     \* what carries the reports has failed since the device was opened

vars == <<plugged, sent, link, queue, call, given, broken>>

Init == plugged = TRUE /\ sent = 0 /\ link = "closed" /\ queue = <<>>
        /\ call = "none" /\ given = 0 /\ broken = FALSE

Plug   == plugged' = TRUE /\ UNCHANGED <<sent, link, queue, call, given, broken>>
Unplug == plugged' = FALSE /\ UNCHANGED <<sent, link, queue, call, given, broken>>

Break  == broken' = TRUE /\ UNCHANGED <<plugged, sent, link, queue, call, given>>

Without(list, i) == SubSeq(list, 1, i - 1) \o SubSeq(list, i + 1, Len(list))

(* Of too many reports the oldest, or the oldest that is not being handed  *)
(* over, is dropped.                                                       *)
Dropped(list) == {Without(list, i) : i \in {k \in {1, 2} : Len(list) > QueueLimit}}

Arrive ==
  /\ link # "closed" /\ plugged
  /\ sent' = sent + 1
  /\ queue' \in {Append(queue, sent')} \cup Dropped(Append(queue, sent'))
  /\ UNCHANGED <<plugged, link, call, given, broken>>

Drop == queue' \in Dropped(queue) /\ UNCHANGED <<plugged, sent, link, call, given, broken>>

Ask(mode) ==
  /\ link = "open" /\ call = "none" /\ call' = mode
  /\ UNCHANGED <<plugged, sent, link, queue, given, broken>>

Answer ==
  /\ call # "none" /\ queue # <<>>
  /\ given' = Head(queue) /\ queue' = Tail(queue) /\ call' = "none"
  /\ UNCHANGED <<plugged, sent, link, broken>>

GiveUp ==
  /\ call \in {"poll", "timeout"} /\ call' = "none"
  /\ UNCHANGED <<plugged, sent, link, queue, given, broken>>

Fail ==
  /\ call # "none" /\ (~plugged \/ broken) /\ call' = "none"
  /\ UNCHANGED <<plugged, sent, link, queue, given, broken>>

Open ==
  /\ link = "closed" /\ plugged /\ link' = "opening"
  /\ UNCHANGED <<plugged, sent, queue, call, given, broken>>

Opened ==
  /\ link = "opening" /\ link' = "open"
  /\ UNCHANGED <<plugged, sent, queue, call, given, broken>>

NotOpened ==
  /\ link = "opening" /\ link' = "closed"
  /\ UNCHANGED <<plugged, sent, queue, call, given, broken>>

Close ==
  /\ link = "open" /\ call = "none" /\ link' = "closing"
  /\ UNCHANGED <<plugged, sent, queue, call, given, broken>>

Closed ==
  /\ link = "closing" /\ link' = "closed" /\ queue' = <<>> /\ broken' = FALSE
  /\ UNCHANGED <<plugged, sent, call, given>>

ReadEnds == Answer \/ GiveUp \/ Fail

Next ==
  \/ Plug \/ Unplug \/ Break \/ Arrive \/ Drop
  \/ \E mode \in Modes : Ask(mode)
  \/ ReadEnds \/ Open \/ Opened \/ NotOpened \/ Close \/ Closed

Spec ==
  /\ Init /\ [][Next]_vars
  /\ WF_vars(ReadEnds) /\ WF_vars(Opened \/ NotOpened) /\ WF_vars(Closed)
=============================================================================
