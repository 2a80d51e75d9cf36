---------------------------- MODULE ControlPipe ----------------------------
(***************************************************************************)
(* What the firmware promises a host on endpoint 0, whatever it takes from *)
(* descriptors, pointers and interrupts to keep it: one control transfer   *)
(* at a time, whose reply arrives in order, complete and without a byte of *)
(* another transfer, and which ends.  A host may begin a new transfer, or  *)
(* reset the bus, at any time.                                             *)
(*                                                                         *)
(* One freedom is given away: when the host did not see the status stage   *)
(* acknowledged, it repeats it, and the repetition may be stalled.         *)
(***************************************************************************)
EXTENDS Integers

CONSTANTS
  Requests,    \* the requests a host makes: records with a field len
  NoRequest,   \* before the first one
  PacketSize   \* the most bytes one packet carries

VARIABLES
  stage,   \* of the current transfer
  req,     \* its request
  due,     \* the bytes its reply has, or Refused
  moved    \* the bytes of the reply that have arrived

vars == <<stage, req, due, moved>>

Refused  == -1
Open     == {"data", "status", "repeat"}
Smaller(a, b) == IF a < b THEN a ELSE b

Init == stage = "idle" /\ req = NoRequest /\ due = 0 /\ moved = 0

(* A new request ends whatever went on before. *)
Setup ==
  \E r \in Requests :
    /\ req' = r /\ moved' = 0
    /\ due' \in 0 .. r.len \cup {Refused}
    /\ stage' = IF r.len > 0 THEN "data" ELSE "status"

(* One packet: as full as can be; one that is not full ends the stage. *)
Receive ==
  /\ stage = "data" /\ due # Refused
  /\ LET k == Smaller(PacketSize, due - moved) IN
       /\ moved' = moved + k
       /\ stage' = IF moved' = req.len \/ k < PacketSize THEN "status" ELSE "data"
  /\ UNCHANGED <<req, due>>

(* The host has read enough. *)
StopEarly == stage = "data" /\ stage' = "status" /\ UNCHANGED <<req, due, moved>>

Complete ==
  /\ stage \in {"status", "repeat"} /\ due # Refused
  /\ stage' = "done" /\ UNCHANGED <<req, due, moved>>

LoseStatus ==
  /\ stage = "status" /\ due # Refused
  /\ stage' = "repeat" /\ UNCHANGED <<req, due, moved>>

(* Only a request the firmware does not know is refused. *)
Refuse ==
  /\ stage \in Open /\ (due = Refused \/ stage = "repeat")
  /\ stage' = "failed" /\ UNCHANGED <<req, due, moved>>

Reset == stage' = "idle" /\ req' = NoRequest /\ due' = 0 /\ moved' = 0

Answer == Receive \/ Complete \/ Refuse
Next == Setup \/ Answer \/ StopEarly \/ LoseStatus \/ Reset

(* The device answers whatever the host does not give up. *)
Spec == Init /\ [][Next]_vars /\ WF_vars(Answer)
=============================================================================
