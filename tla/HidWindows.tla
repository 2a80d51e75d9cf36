----------------------------- MODULE HidWindows -----------------------------
(***************************************************************************)
(* HIDAPI on Windows: no thread, but one overlapped read per device, left  *)
(* running from one hid_read_timeout to the next, with an auto-reset event *)
(* that says when it is done.  The driver keeps the reports for which no   *)
(* read waits.                                                             *)
(***************************************************************************)
EXTENDS HidCaller

VARIABLES
  pending,   \* read_pending
  io,        \* the overlapped read: none, pending, done, failed
  bytes,     \* read_buf: the report it brought
  event,     \* ol.hEvent is signalled
  reports    \* the driver's ring of reports

winVars == <<pending, io, bytes, event, reports>>
vars    == <<device, caller, winVars>>

Init ==
  /\ CallerInit
  /\ pending = FALSE /\ io = "none" /\ bytes = 0 /\ event = FALSE /\ reports = <<>>

-----------------------------------------------------------------------------
(* hid_enumerate lists the devices that it can open, if only to ask for    *)
(* their identifiers; hid_open looks for the one that is wanted;           *)
(* hid_open_path opens it, or gives up.                                    *)
OpenDevice == plugged
Listed     == OpenDevice
Find       == Listed /\ Finds("open") /\ UNCHANGED winVars
CannotOpen == app = "open" /\ NotOpened /\ UNCHANGED winVars

NewDevice == pending' = FALSE /\ event' = FALSE
OpenPath ==
  /\ app = "open" /\ OpenDevice /\ Opened
  /\ NewDevice /\ io' = "none" /\ reports' = <<>>
  /\ UNCHANGED bytes

(***************************************************************************)
(* hid_read_timeout: a read is started unless one is left from an earlier  *)
(* call (ResetEvent, then ReadFile, which may be done or fail at once).    *)
(***************************************************************************)
Read(mode) == Reading(mode, IF pending THEN "wait" ELSE "reset") /\ UNCHANGED winVars

KeepsEvent ==
  app = "reset" /\ Goes("start") /\ pending' = TRUE /\ UNCHANGED <<event, io, bytes, reports>>

ResetEvent ==
  /\ app = "reset" /\ Goes("start") /\ pending' = TRUE /\ event' = FALSE
  /\ UNCHANGED <<io, bytes, reports>>

ReadFile ==
  /\ app = "start" /\ plugged /\ Goes("wait")
  /\ IF reports = <<>> THEN io' = "pending" /\ UNCHANGED <<bytes, event, reports>>
     ELSE io' = "done" /\ event' = TRUE /\ bytes' = Head(reports) /\ reports' = Tail(reports)
  /\ UNCHANGED pending

ReadFileFails ==
  /\ app = "start" /\ ~plugged /\ ReturnsNothing /\ pending' = FALSE
  /\ UNCHANGED <<io, bytes, event, reports>>

(* WaitForSingleObject, which takes the signal, *)
WaitEnds ==
  /\ app = "wait" /\ call # "block" /\ event /\ event' = FALSE /\ Goes("result")
  /\ UNCHANGED <<pending, io, bytes, reports>>

(* or leaves the read running; *)
WaitTimesOut ==
  /\ app = "wait" /\ call # "block" /\ ~event /\ ReturnsNothing /\ UNCHANGED winVars

NoWait == app = "wait" /\ call = "block" /\ Goes("result") /\ UNCHANGED winVars

(* GetOverlappedResult waits until the read is done; whether it takes the  *)
(* signal depends on whether it had to.                                    *)
Result ==
  /\ app = "result" /\ io \in {"done", "failed"}
  /\ IF io = "done" THEN Returns(bytes) ELSE ReturnsNothing
  /\ pending' = FALSE /\ io' = "none" /\ event' \in {event, FALSE}
  /\ UNCHANGED <<bytes, reports>>

(* hid_write waits in GetOverlappedResult, with an OVERLAPPED of its own:  *)
(* without an event, so that it waits for the handle, which the end of the *)
(* read signals as well as that of the write.                              *)
Write     == app = "idle" /\ link = "open" /\ Goes("writing") /\ UNCHANGED winVars
WriteEnds == app = "writing" /\ Goes("idle") /\ UNCHANGED winVars

-----------------------------------------------------------------------------
(* The driver: a report completes the read or is kept; a device that has   *)
(* gone fails it.                                                          *)
Arrives ==
  /\ link = "open" /\ Send
  /\ IF io = "pending" THEN io' = "done" /\ event' = TRUE /\ bytes' = sent' /\ UNCHANGED reports
     ELSE reports' = Queued(reports, sent') /\ UNCHANGED <<io, event, bytes>>
  /\ UNCHANGED pending

ReadIsFailed ==
  /\ ~plugged /\ io = "pending" /\ io' = "failed" /\ event' = TRUE
  /\ UNCHANGED <<device, caller, pending, bytes, reports>>

(* hid_close. *)
Close == Closing("free") /\ UNCHANGED winVars

CloseFrees ==
  /\ app = "free" /\ Closed /\ io' = "none" /\ reports' = <<>>
  /\ UNCHANGED <<pending, bytes, event>>

-----------------------------------------------------------------------------
Caller ==
  \/ CannotOpen \/ OpenPath \/ ResetEvent \/ ReadFile \/ ReadFileFails
  \/ WaitEnds \/ WaitTimesOut \/ NoWait \/ Result \/ WriteEnds \/ CloseFrees

Next ==
  \/ Unplug /\ UNCHANGED winVars
  \/ Plug /\ UNCHANGED winVars
  \/ Find \/ Caller \/ Arrives \/ ReadIsFailed
  \/ (\E mode \in Modes : Read(mode)) \/ Write \/ Close

Fairness == WF_vars(Caller) /\ WF_vars(ReadIsFailed)
Spec == Init /\ [][Next]_vars /\ Fairness

-----------------------------------------------------------------------------
(* Every variable keeps its type, and the list of reports stays bounded. *)
TypeOK ==
  /\ CallerOK
  /\ app \in {"idle", "open", "reset", "start", "wait", "result", "writing", "free"}
  /\ pending \in BOOLEAN /\ io \in {"none", "pending", "done", "failed"}
  /\ bytes \in Nat /\ event \in BOOLEAN /\ reports \in Queue

(***************************************************************************)
(* A read that is done, in whichever call it was started, is still         *)
(* signalled when the next call looks, and a signal never comes from an    *)
(* earlier one (windows/hid.c:612): a report would not be noticed, or a    *)
(* read that is not to wait would.                                         *)
(***************************************************************************)
EventTellsRead ==
  /\ app = "wait" /\ call # "block" => (event <=> io \in {"done", "failed"})
  /\ app = "idle" /\ link = "open" => (pending <=> io # "none")
=============================================================================
