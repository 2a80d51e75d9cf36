-------------------------- MODULE UsbControlProofs --------------------------
(***************************************************************************)
(* Endpoint 0, for any requests, packet size, timeout and number of        *)
(* transfers and faults: the types, the endpoint that is ready for the     *)
(* next SETUP, the pointers that agree, that every transfer is one of      *)
(* ControlPipe's, with no reply mixed, and the address that is agreed on.  *)
(*                                                                         *)
(* The invariant Inv says what the USTAT queue may hold, each with what    *)
(* it means for the buffer descriptors: at most one IN packet; at most one *)
(* empty OUT packet; and a SETUP, which is the last, as packets are        *)
(* disabled until it is served.  TransferInv, further down, says what the  *)
(* descriptors hold at each point of a transfer.                           *)
(***************************************************************************)
EXTENDS UsbControl, TLAPS

Holds(d) == \E i \in 1 .. Len(fifo) : fifo[i].dir = d

(* One IN packet at most is done and not served; then no other is armed.   *)
InSide ==
  /\ \A i, j \in 1 .. Len(fifo) : fifo[i].dir = "IN" /\ fifo[j].dir = "IN" => i = j
  /\ Holds("IN") => sie["IN"] = 1 - inPtr /\ ~bd["IN"][0].uown /\ ~bd["IN"][1].uown
  /\ ~Holds("IN") => sie["IN"] = inPtr /\ ~bd["IN"][1 - inPtr].uown

(* A SETUP is the last of the queue, and nothing follows it.               *)
SetupIsLast ==
  /\ pktdis => /\ Len(fifo) > 0 /\ fifo[Len(fifo)].dir = "OUT"
               /\ fifo[Len(fifo)].pp = 1 - sie["OUT"]
  /\ \A i \in 1 .. Len(fifo) : fifo[i].dir = "OUT" =>
       (bd["OUT"][fifo[i].pp].isSetup <=> pktdis /\ i = Len(fifo))

(* The empty OUT packet of a status stage came in while both descriptors   *)
(* were set, so that the other still waits for a SETUP.                    *)
IsStatus(i) == fifo[i].dir = "OUT" /\ ~(pktdis /\ i = Len(fifo))

StatusIsOne ==
  /\ \A i, j \in 1 .. Len(fifo) : IsStatus(i) /\ IsStatus(j) => i = j
  /\ \A i \in 1 .. Len(fifo) : IsStatus(i) =>
       /\ bothSet
       /\ fifo[i].pp = IF pktdis THEN sie["OUT"] ELSE 1 - sie["OUT"]
       /\ ~pktdis => bd["OUT"][sie["OUT"]].uown /\ bd["OUT"][sie["OUT"]].stall

(* With nothing to serve on OUT, the next descriptor is the SIE's; when it *)
(* is for the status stage, the other waits for a SETUP.                   *)
OutSide ==
  ~pktdis /\ ~Holds("OUT") =>
    /\ bd["OUT"][sie["OUT"]].uown
    /\ ~bd["OUT"][sie["OUT"]].stall =>
         bothSet /\ bd["OUT"][1 - sie["OUT"]].uown /\ bd["OUT"][1 - sie["OUT"]].stall

Inv ==
  /\ TypeOK /\ statusArmed
  /\ InSide /\ SetupIsLast /\ StatusIsOne /\ OutSide

-----------------------------------------------------------------------------
LEMMA Numbers ==
  /\ PacketSize \in Nat /\ PacketSize > 0
  /\ \A a, b \in Nat : Smaller(a, b) \in Nat /\ Smaller(a, b) =< a /\ Smaller(a, b) =< b
  /\ \A a \in Nat : NextCount(a) \in Nat /\ a - NextCount(a) \in Nat
BY PacketSizeAssumption DEF Smaller, NextCount

LEMMA Entries ==
  /\ Idle \in Entry /\ Stalled \in Entry
  /\ \A t \in PP, k \in Nat : Armed(t, k) \in Entry
BY DEF Idle, Stalled, Armed, Entry, PP

LEMMA NoRequestIsOne == NoRequest \in Request
BY DEF NoRequest, Request, Names, What

(* What a request is answered with is a length, or Refused.                *)
LEMMA AnswerIsLength ==
  ASSUME NEW s \in Request
  PROVE  Answer(s) \in Nat \cup {Refused}
<1>1. Descriptor(s) \in Nat \cup {Refused}
  BY DEF Descriptor, StringLength, Refused, Request
<1>2. Feature(s) \in Nat \cup {Refused}
  BY DEF Feature, Refused
<1>3. Standard(s) \in Nat \cup {Refused}
  BY <1>1, <1>2 DEF Standard, StatusLength, Refused
<1>4. Hid(s) \in Nat \cup {Refused}
  BY DEF Hid, Refused
<1> QED
  BY <1>3, <1>4 DEF Answer

LEMMA AppendAt ==
  ASSUME NEW S, NEW f \in Seq(S), NEW e \in S
  PROVE  /\ Append(f, e) \in Seq(S) /\ Append(f, e) # <<>>
         /\ Len(f) \in Nat /\ Len(Append(f, e)) = Len(f) + 1
         /\ Append(f, e)[Len(f) + 1] = e
         /\ \A i \in 1 .. Len(f) : Append(f, e)[i] = f[i]
OBVIOUS

LEMMA ElementAt ==
  ASSUME NEW S, NEW f \in Seq(S)
  PROVE  \A i \in 1 .. Len(f) : f[i] \in S
OBVIOUS

LEMMA TailAt ==
  ASSUME NEW S, NEW f \in Seq(S), f # <<>>
  PROVE  /\ Tail(f) \in Seq(S) /\ Head(f) = f[1] /\ Head(f) \in S
         /\ Len(f) \in Nat /\ Len(f) > 0 /\ Len(Tail(f)) = Len(f) - 1
         /\ \A i \in 1 .. Len(f) - 1 : Tail(f)[i] = f[i + 1]
OBVIOUS
(* The table with a descriptor armed, or stalled.                          *)
Table == [Dirs -> [PP -> Entry]]

LEMMA TableSet ==
  ASSUME NEW b \in Table, NEW d \in Dirs, NEW i \in PP, NEW e \in Entry
  PROVE  [b EXCEPT ![d][i] = e] \in Table
BY DEF Table

LEMMA ClearIsTable == Clear \in Table
BY Entries DEF Clear, Table

LEMMA ArmStatusIsTable ==
  ASSUME NEW b \in Table, NEW state, NEW cur \in PP, NEW nxt \in PP, NEW i \in PP
  PROVE  ArmStatus(b, state, cur, nxt, i) \in Table
<1>1. Stalled \in Entry /\ Armed(0, 0) \in Entry /\ Armed(1, 0) \in Entry
  BY Entries DEF PP
<1>2. "OUT" \in Dirs /\ "IN" \in Dirs
  BY DEF Dirs
<1>3. [b EXCEPT !["IN"][i] = Armed(1, 0)] \in Table
  BY <1>1, <1>2, TableSet
<1>4. [b EXCEPT !["OUT"][cur] = Stalled] \in Table
  BY <1>1, <1>2, TableSet
<1>5. [[b EXCEPT !["OUT"][cur] = Stalled] EXCEPT !["OUT"][nxt] = Armed(0, 0)] \in Table
  BY <1>1, <1>2, <1>4, TableSet
<1> QED
  BY <1>3, <1>5 DEF ArmStatus

LEMMA AbandonedIsTable ==
  ASSUME bd \in Table, NEW cur \in PP
  PROVE  Abandoned(cur) \in Table
<1> DEFINE off == [k \in PP |-> [bd["IN"][k] EXCEPT !.uown = FALSE]]
           b == [bd EXCEPT !["IN"] = off]
<1>1. \A e \in Entry : [e EXCEPT !.uown = FALSE] \in Entry
  BY DEF Entry
<1>2. "OUT" \in Dirs /\ "IN" \in Dirs /\ 1 - cur \in PP
  BY DEF Dirs, PP
<1>3. \A k \in PP : bd["IN"][k] \in Entry
  BY <1>2 DEF Table
<1>4. off \in [PP -> Entry]
  BY <1>1, <1>3
<1> HIDE DEF off
<1>5. b \in Table /\ b["OUT"] = bd["OUT"]
  BY <1>2, <1>4 DEF Table
<1> HIDE DEF b
<1>6. [bd["OUT"][1 - cur] EXCEPT !.uown = FALSE] \in Entry
  BY <1>1, <1>2 DEF Table
<1>7. [b EXCEPT !["OUT"][1 - cur] = [bd["OUT"][1 - cur] EXCEPT !.uown = FALSE]] \in Table
  BY <1>2, <1>5, <1>6, TableSet
<1>8. Abandoned(cur)
        = [b EXCEPT !["OUT"][1 - cur] = [bd["OUT"][1 - cur] EXCEPT !.uown = FALSE]]
  BY <1>5 DEF Abandoned, b, off, Table
<1> QED
  BY <1>7, <1>8

-----------------------------------------------------------------------------
(* The types, action by action.                                            *)
PipeRecord == [of : Request, off : Nat, left : Nat]
DataRecord == [of : Request, off : Nat]

LEMMA Emptied ==
  ASSUME TypeOK
  PROVE  [pipe EXCEPT !.left = 0] \in PipeRecord
BY DEF TypeOK, PipeRecord

(* Serving the oldest entry of the queue. *)
LEMMA ServeTypes ==
  ASSUME TypeOK, NEW d \in Dirs, NEW isSetup, Serve(d, isSetup)
  PROVE  /\ fifo' \in Seq([dir : Dirs, pp : PP]) /\ Head(fifo).pp \in PP
         /\ timer' \in 0 .. Timeout
         /\ UNCHANGED <<epstall, stage, req, due, moved, hTog, hAddr, mixed, transfers, faults>>
<1>1. Head(fifo) \in [dir : Dirs, pp : PP] /\ Tail(fifo) \in Seq([dir : Dirs, pp : PP])
  BY TailAt DEF TypeOK, Serve
<1> QED
  BY <1>1, BoundsAssumption DEF Serve, host, bounds

LEMMA RefusalTypes ==
  ASSUME TypeOK, NEW b \in Table, NEW nxt \in PP, NEW i \in PP, Refusal(b, nxt, i)
  PROVE  /\ bd' \in Table /\ cts' = "WAIT_SETUP" /\ short' = "NOT_USED" /\ bothSet' = FALSE
         /\ pipe' \in PipeRecord /\ data' = data /\ statusArmed' = statusArmed
<1>1. [b EXCEPT !["OUT"][nxt] = Stalled] \in Table
  BY TableSet, Entries DEF Dirs
<1>2. [[b EXCEPT !["OUT"][nxt] = Stalled] EXCEPT !["IN"][i] = Stalled] \in Table
  BY <1>1, TableSet, Entries DEF Dirs
<1> QED
  BY <1>2, Emptied DEF Refusal

LEMMA ReadTransferTypes ==
  ASSUME TypeOK, NEW b \in Table, NEW cur \in PP, NEW nxt \in PP, NEW i \in PP,
         Answer(setup) # Refused, ReadTransfer(b, cur, nxt, i)
  PROVE  /\ bd' \in Table /\ cts' = "TX" /\ short' \in {"NOT_USED", "PENDING", "SENT"}
         /\ bothSet' = TRUE /\ pipe' \in PipeRecord /\ data' \in DataRecord /\ statusArmed' = TRUE
<1> DEFINE all == Smaller(Answer(setup), setup.len)
<1>1. setup \in Request /\ setup.len \in Nat
  BY DEF TypeOK, Request
<1>2. all \in Nat
  BY <1>1, AnswerIsLength, Numbers
<1>3. bd' = ArmStatus(FirstPacket(b, i, all), "TX", cur, nxt, i)
  BY DEF ReadTransfer
<1>4. pipe' = [of |-> setup, off |-> NextCount(all), left |-> all - NextCount(all)]
  BY DEF ReadTransfer
<1>5. short' = NextShort(all, "NOT_USED") /\ data' = [of |-> setup, off |-> 0]
      /\ cts' = "TX" /\ bothSet' = TRUE /\ statusArmed' = TRUE
  BY DEF ReadTransfer
<1> HIDE DEF all
<1>6. NextCount(all) \in Nat /\ all - NextCount(all) \in Nat
  BY <1>2, Numbers
<1>7. Armed(1, NextCount(all)) \in Entry
  BY <1>6, Entries DEF PP
<1>8. FirstPacket(b, i, all) \in Table
  BY <1>7, TableSet DEF FirstPacket, Dirs
<1>9. bd' \in Table
  BY <1>3, <1>8, ArmStatusIsTable
<1>10. short' \in {"NOT_USED", "PENDING", "SENT"}
  BY <1>5 DEF NextShort
<1>11. pipe' \in PipeRecord /\ data' \in DataRecord
  BY <1>1, <1>4, <1>5, <1>6 DEF PipeRecord, DataRecord
<1> QED
  BY <1>5, <1>9, <1>10, <1>11

LEMMA NoDataTransferTypes ==
  ASSUME TypeOK, NEW b \in Table, NEW cur \in PP, NEW nxt \in PP, NEW i \in PP,
         NoDataTransfer(b, cur, nxt, i)
  PROVE  /\ bd' \in Table /\ cts' = "RX" /\ short' = "NOT_USED" /\ bothSet' = FALSE
         /\ pipe' \in PipeRecord /\ data' = data /\ statusArmed' = TRUE
<1>1. [b EXCEPT !["OUT"][nxt] = Stalled] \in Table
  BY TableSet, Entries DEF Dirs
<1>2. bd' \in Table
  BY <1>1, ArmStatusIsTable DEF NoDataTransfer
<1> QED
  BY <1>2, Emptied DEF NoDataTransfer

LEMMA ServeSetupTypes ==
  ASSUME TypeOK, ServeSetup
  PROVE  TypeOK'
<1> DEFINE cur == Head(fifo).pp
<1>1. /\ fifo' \in Seq([dir : Dirs, pp : PP]) /\ cur \in PP
      /\ timer' \in 0 .. Timeout
      /\ UNCHANGED <<epstall, stage, req, due, moved, hTog, hAddr, mixed, transfers, faults>>
  BY ServeTypes DEF ServeSetup, Dirs
<1>2. outCur' = cur /\ outNext' = 1 - cur /\ pktdis' = FALSE
      /\ UNCHANGED <<sie, inPtr, setup, cfg, addr>>
      /\ devState' = IF IsStandard("SET_ADDRESS") THEN "ADR_PENDING" ELSE devState
  BY DEF ServeSetup
<1>3. \/ Refusal(Abandoned(cur), 1 - cur, inPtr)
      \/ Answer(setup) # Refused /\ ReadTransfer(Abandoned(cur), cur, 1 - cur, inPtr)
      \/ NoDataTransfer(Abandoned(cur), cur, 1 - cur, inPtr)
  BY DEF ServeSetup
<1> HIDE DEF cur
<1>4. 1 - cur \in PP /\ inPtr \in PP /\ bd \in Table /\ data \in DataRecord
  BY <1>1 DEF PP, TypeOK, Table, DataRecord
<1>5. Abandoned(cur) \in Table
  BY <1>1, <1>4, AbandonedIsTable
<1>6. /\ bd' \in Table /\ cts' \in {"WAIT_SETUP", "TX", "RX"}
      /\ short' \in {"NOT_USED", "PENDING", "SENT"} /\ bothSet' \in BOOLEAN
      /\ pipe' \in PipeRecord /\ data' \in DataRecord
  <2>1. CASE Refusal(Abandoned(cur), 1 - cur, inPtr)
    BY <1>4, <1>5, <2>1, RefusalTypes
  <2>2. CASE Answer(setup) # Refused /\ ReadTransfer(Abandoned(cur), cur, 1 - cur, inPtr)
    BY <1>1, <1>4, <1>5, <2>2, ReadTransferTypes
  <2>3. CASE NoDataTransfer(Abandoned(cur), cur, 1 - cur, inPtr)
    BY <1>1, <1>4, <1>5, <2>3, NoDataTransferTypes
  <2> QED BY <1>3, <2>1, <2>2, <2>3
<1>7. statusArmed' \in BOOLEAN
  <2>1. CASE Refusal(Abandoned(cur), 1 - cur, inPtr)
    BY <2>1 DEF Refusal, TypeOK
  <2>2. CASE Answer(setup) # Refused /\ ReadTransfer(Abandoned(cur), cur, 1 - cur, inPtr)
    BY <2>2 DEF ReadTransfer
  <2>3. CASE NoDataTransfer(Abandoned(cur), cur, 1 - cur, inPtr)
    BY <2>3 DEF NoDataTransfer
  <2> QED BY <1>3, <2>1, <2>2, <2>3
<1> QED
  BY <1>1, <1>2, <1>4, <1>6, <1>7 DEF TypeOK, Table, PipeRecord, DataRecord, States

LEMMA ServeSetConfigurationTypes ==
  ASSUME TypeOK, ServeSetConfiguration
  PROVE  TypeOK'
<1>1. /\ fifo' \in Seq([dir : Dirs, pp : PP])
      /\ timer' \in 0 .. Timeout
      /\ UNCHANGED <<epstall, stage, req, due, moved, hTog, hAddr, mixed, transfers, faults>>
  BY ServeTypes DEF ServeSetConfiguration, Dirs
<1>2. NoDataTransfer(Clear, 0, 0, 0)
      /\ sie' = [d \in Dirs |-> 0] /\ outCur' = 0 /\ outNext' = 0 /\ inPtr' = 0
      /\ cfg' = setup.val /\ pktdis' = FALSE /\ UNCHANGED <<setup, addr>>
      /\ devState' = IF setup.val = 0 THEN "ADDRESS" ELSE "CONFIGURED"
  BY DEF ServeSetConfiguration
<1>3. 0 \in PP /\ setup.val \in Nat
  BY DEF PP, TypeOK, Request
<1>4. /\ bd' \in Table /\ cts' = "RX" /\ short' = "NOT_USED" /\ bothSet' = FALSE
      /\ pipe' \in PipeRecord /\ data' = data /\ statusArmed' = TRUE
  BY <1>2, <1>3, ClearIsTable, NoDataTransferTypes
<1>5. sie' \in [Dirs -> PP]
  BY <1>2, <1>3
<1> QED
  BY <1>1, <1>2, <1>3, <1>4, <1>5 DEF TypeOK, Table, PipeRecord, States

LEMMA ServeOutTypes ==
  ASSUME TypeOK, ServeOut
  PROVE  TypeOK'
<1> DEFINE cur == Head(fifo).pp
<1>1. /\ fifo' \in Seq([dir : Dirs, pp : PP]) /\ cur \in PP
      /\ timer' \in 0 .. Timeout
      /\ UNCHANGED <<epstall, stage, req, due, moved, hTog, hAddr, mixed, transfers, faults>>
  BY ServeTypes DEF ServeOut, Dirs
<1>2. /\ outCur' = cur /\ outNext' = 1 - cur /\ cts' = "WAIT_SETUP" /\ bothSet' = FALSE
      /\ UNCHANGED <<sie, pktdis, inPtr, setup, data, pipe, short, statusArmed,
                     devState, cfg, addr>>
      /\ bd' = IF bothSet THEN bd ELSE [bd EXCEPT !["OUT"][1 - cur] = Stalled]
  BY DEF ServeOut, dev
<1> HIDE DEF cur
<1>3. bd \in Table /\ 1 - cur \in PP
  BY <1>1 DEF TypeOK, Table, PP
<1>4. bd' \in Table
  BY <1>2, <1>3, TableSet, Entries DEF Dirs
<1> QED
  BY <1>1, <1>2, <1>3, <1>4 DEF TypeOK, Table

LEMMA TakeAddressTypes ==
  ASSUME TypeOK, TakeAddress
  PROVE  devState' \in States /\ cfg' \in Nat /\ addr' \in 0 .. 127
<1>1. setup.val \in Nat
  BY DEF TypeOK, Request
<1>2. setup.val % 128 \in 0 .. 127
  BY <1>1
<1> QED
  BY <1>2 DEF TypeOK, TakeAddress, dev, States

LEMMA ServeInTypes ==
  ASSUME TypeOK, ServeIn
  PROVE  TypeOK'
<1>1. /\ fifo' \in Seq([dir : Dirs, pp : PP])
      /\ timer' \in 0 .. Timeout
      /\ UNCHANGED <<epstall, stage, req, due, moved, hTog, hAddr, mixed, transfers, faults>>
  BY ServeTypes DEF ServeIn, Dirs
<1>2. devState' \in States /\ cfg' \in Nat /\ addr' \in 0 .. 127
  BY TakeAddressTypes DEF ServeIn
<1>3. /\ inPtr' = 1 - inPtr
      /\ UNCHANGED <<sie, pktdis, outCur, outNext, setup, bothSet, statusArmed>>
  BY DEF ServeIn
<1>4. inPtr' \in PP /\ bd \in Table /\ inPtr \in PP /\ data \in DataRecord /\ pipe \in PipeRecord
  BY <1>3 DEF TypeOK, PP, Table, DataRecord, PipeRecord
<1>5. /\ bd' \in Table /\ data' \in DataRecord /\ pipe' \in PipeRecord /\ cts' \in {"WAIT_SETUP", "TX", "RX"}
      /\ short' \in {"NOT_USED", "PENDING", "SENT"}
  <2>1. CASE cts = "TX"
    <3> DEFINE k == NextCount(pipe.left)
               e == IF short' = "SENT" THEN Stalled
                    ELSE Armed(OtherToggle(bd["IN"][inPtr].dts), k)
    <3>1. /\ data' = [of |-> pipe.of, off |-> pipe.off]
          /\ short' = NextShort(pipe.left, short)
          /\ pipe' = [pipe EXCEPT !.off = @ + k, !.left = @ - k]
          /\ bd' = [bd EXCEPT !["IN"][1 - inPtr] = e]
          /\ cts' = cts
      BY <2>1 DEF ServeIn
    <3>a. pipe.left \in Nat /\ pipe.off \in Nat
      BY <1>4 DEF PipeRecord
    <3>b. k \in Nat /\ pipe.left - k \in Nat
      BY <3>a, Numbers
    <3>2. k \in Nat /\ pipe.left - k \in Nat /\ pipe.off + k \in Nat
      BY <3>a, <3>b
    <3>3. bd["IN"][inPtr].dts \in PP
      BY <1>4 DEF Table, Dirs, Entry
    <3>4. OtherToggle(bd["IN"][inPtr].dts) \in PP
      BY <3>3 DEF OtherToggle, PP
    <3> HIDE DEF k
    <3>5. e \in Entry
      BY <3>2, <3>4, Entries
    <3> HIDE DEF e
    <3>6. bd' \in Table
      BY <1>3, <1>4, <3>1, <3>5, TableSet DEF Dirs
    <3>7. data' \in DataRecord /\ pipe' \in PipeRecord
      BY <1>4, <3>1, <3>2 DEF DataRecord, PipeRecord
    <3>8. short' \in {"NOT_USED", "PENDING", "SENT"}
      BY <3>1 DEF NextShort, TypeOK
    <3> QED BY <2>1, <3>1, <3>6, <3>7, <3>8
  <2>2. CASE cts # "TX"
    BY <1>4, <2>2 DEF ServeIn, TypeOK
  <2> QED BY <2>1, <2>2
<1> QED
  BY <1>1, <1>2, <1>3, <1>4, <1>5 DEF TypeOK, Table, PipeRecord, DataRecord

LEMMA StartOfFrameTypes ==
  ASSUME TypeOK, StartOfFrame
  PROVE  TypeOK'
<1>1. UNCHANGED <<sie, fifo, pktdis, epstall, outCur, outNext, inPtr, setup, data, pipe, short,
                  cts, devState, cfg, addr, stage, req, due, moved, hTog, hAddr, mixed,
                  transfers, faults>>
  BY DEF StartOfFrame, sieVars, ptrs, dev, host, bounds
<1>2. timer' \in 0 .. Timeout
  BY BoundsAssumption DEF StartOfFrame, TypeOK
<1>3. ArmStatus(bd, cts, outCur, outNext, inPtr) \in Table /\ bd \in Table
  BY ArmStatusIsTable DEF TypeOK, Table
<1>4. bd' \in Table /\ statusArmed' \in BOOLEAN
  BY <1>3 DEF StartOfFrame, TypeOK
<1>5. bothSet' \in BOOLEAN
  BY DEF StartOfFrame, TypeOK
<1> QED
  BY <1>1, <1>2, <1>4, <1>5 DEF TypeOK, Table

LEMMA StallInterruptTypes ==
  ASSUME TypeOK, StallInterrupt
  PROVE  TypeOK'
<1>1. UNCHANGED <<sie, fifo, pktdis, outCur, outNext, inPtr, setup, data, pipe, short,
                  cts, bothSet, statusArmed, timer, devState, cfg, addr,
                  stage, req, due, moved, hTog, hAddr, mixed, transfers, faults>>
      /\ epstall' = FALSE
  BY DEF StallInterrupt, ptrs, xfer, dev, host, bounds
<1>2. bd \in Table /\ [bd EXCEPT !["OUT"][outCur] = Stalled] \in Table
  BY TableSet, Entries DEF TypeOK, Table, Dirs
<1>3. bd' \in Table
  BY <1>2 DEF StallInterrupt
<1>4. epstall' \in BOOLEAN
  BY <1>1
<1> QED
  BY <1>1, <1>3, <1>4 DEF TypeOK, Table

(* What a packet completed by the SIE leaves.                              *)
LEMMA CompletedTypes ==
  ASSUME TypeOK, NEW d \in Dirs, NEW isSetup \in BOOLEAN, Completed(d, isSetup)
  PROVE  bd' \in Table /\ fifo' \in Seq([dir : Dirs, pp : PP]) /\ sie' \in [Dirs -> PP]
<1>1. sie[d] \in PP /\ 1 - sie[d] \in PP /\ bd \in Table
  BY DEF TypeOK, PP, Table
<1>2. bd[d][sie[d]] \in Entry
  BY <1>1 DEF Table
<1>3. [bd[d][sie[d]] EXCEPT !.uown = FALSE, !.isSetup = isSetup] \in Entry
  BY <1>2 DEF Entry
<1>4. bd' = [bd EXCEPT ![d][sie[d]]
                    = [bd[d][sie[d]] EXCEPT !.uown = FALSE, !.isSetup = isSetup]]
  BY DEF Completed
<1>5. bd' \in Table
  BY <1>1, <1>3, <1>4, TableSet
<1>6. [dir |-> d, pp |-> sie[d]] \in [dir : Dirs, pp : PP]
  BY <1>1
<1>7. fifo' \in Seq([dir : Dirs, pp : PP])
  BY <1>6, AppendAt DEF Completed, TypeOK
<1>8. sie' \in [Dirs -> PP]
  BY <1>1 DEF Completed, TypeOK
<1> QED
  BY <1>5, <1>7, <1>8

LEMMA AcknowledgedTypes ==
  ASSUME TypeOK, NEW d \in Dirs, NEW seen \in BOOLEAN, Acknowledged(d, seen)
  PROVE  /\ bd' \in Table /\ fifo' \in Seq([dir : Dirs, pp : PP]) /\ sie' \in [Dirs -> PP]
         /\ faults' \in 0 .. MaxFaults
<1>1. CASE seen
  BY <1>1, CompletedTypes DEF Acknowledged, TypeOK
<1>2. CASE ~seen
  BY <1>2, BoundsAssumption DEF Acknowledged, TypeOK, Table
<1> QED
  BY <1>1, <1>2

LEMMA DueIsLength ==
  ASSUME NEW r \in Request
  PROVE  Due(r) \in Nat \cup {Refused}
<1>1. r.len \in Nat
  BY DEF Request
<1> QED
  BY <1>1, AnswerIsLength, Numbers DEF Due

LEMMA HostSetupTypes ==
  ASSUME TypeOK, NEW r \in Requests, HostSetup(r)
  PROVE  TypeOK'
<1>1. r \in Request
  BY RequestsAssumption
<1>2. bd' \in Table /\ fifo' \in Seq([dir : Dirs, pp : PP]) /\ sie' \in [Dirs -> PP]
  BY CompletedTypes DEF HostSetup, Dirs
<1>3. Due(r) \in Nat \cup {Refused}
  BY <1>1, DueIsLength
<1>4. /\ pktdis' = TRUE /\ setup' = r /\ req' = r /\ due' = Due(r) /\ moved' = 0 /\ hTog' = 1
      /\ stage' \in {"data", "status"}
      /\ UNCHANGED <<epstall, outCur, outNext, inPtr, data, pipe, short, cts, bothSet,
                     statusArmed, timer, devState, cfg, addr, hAddr, mixed>>
  BY DEF HostSetup, Untouched, ptrs, xfer, dev
<1>5. transfers' \in 0 .. MaxTransfers /\ faults' \in 0 .. MaxFaults
  BY BoundsAssumption DEF HostSetup, TypeOK
<1>6. pktdis' \in BOOLEAN /\ hTog' \in PP
  BY <1>4 DEF PP
<1> QED
  BY <1>1, <1>2, <1>3, <1>4, <1>5, <1>6 DEF TypeOK, Table

LEMMA HostReadsTypes ==
  ASSUME TypeOK, NEW seen \in BOOLEAN, HostReads(seen)
  PROVE  TypeOK'
<1> DEFINE e == bd["IN"][sie["IN"]]
<1>1. /\ bd' \in Table /\ fifo' \in Seq([dir : Dirs, pp : PP]) /\ sie' \in [Dirs -> PP]
      /\ faults' \in 0 .. MaxFaults
  BY AcknowledgedTypes DEF HostReads, Dirs
<1>2. UNCHANGED <<epstall, outCur, outNext, inPtr, data, pipe, short, cts, bothSet,
                  statusArmed, timer, devState, cfg, addr, hAddr, pktdis, setup, req, due,
                  transfers>>
  BY DEF HostReads, Untouched, ptrs, xfer, dev
<1>3. e \in Entry
  BY DEF TypeOK, Dirs
<1>4. e.n \in Nat
  BY <1>3 DEF Entry
<1>5. \/ UNCHANGED <<stage, moved, hTog, mixed>>
      \/ /\ hTog' = 1 - hTog /\ moved' = moved + e.n
         /\ mixed' = (mixed \/ moved' > req.len \/ (e.n > 0 /\ data # [of |-> req, off |-> moved]))
         /\ stage' \in {"data", "status"}
  BY DEF HostReads
<1> HIDE DEF e
<1>6. hTog' \in PP /\ moved' \in Nat
  BY <1>4, <1>5 DEF TypeOK, PP
<1>7. mixed' \in BOOLEAN /\ stage' \in {"idle", "data", "status", "repeat", "done", "failed"}
  BY <1>5 DEF TypeOK
<1> QED
  BY <1>1, <1>2, <1>6, <1>7 DEF TypeOK, Table

LEMMA HostReadsStatusTypes ==
  ASSUME TypeOK, NEW seen \in BOOLEAN, HostReadsStatus(seen)
  PROVE  TypeOK'
<1>1. /\ bd' \in Table /\ fifo' \in Seq([dir : Dirs, pp : PP]) /\ sie' \in [Dirs -> PP]
      /\ faults' \in 0 .. MaxFaults
  BY AcknowledgedTypes DEF HostReadsStatus, Dirs
<1>2. UNCHANGED <<epstall, outCur, outNext, inPtr, data, pipe, short, cts, bothSet,
                  statusArmed, timer, devState, cfg, addr, pktdis, setup, req, due, moved, hTog,
                  transfers>>
  BY DEF HostReadsStatus, Untouched, ptrs, xfer, dev
<1>3. hAddr' \in Nat /\ stage' = "done"
  BY DEF HostReadsStatus, TypeOK, Request
<1>4. mixed' \in BOOLEAN
  BY DEF HostReadsStatus
<1> QED
  BY <1>1, <1>2, <1>3, <1>4 DEF TypeOK, Table

LEMMA HostSendsStatusTypes ==
  ASSUME TypeOK, NEW seen \in BOOLEAN, HostSendsStatus(seen)
  PROVE  TypeOK'
<1>1. bd' \in Table /\ fifo' \in Seq([dir : Dirs, pp : PP]) /\ sie' \in [Dirs -> PP]
  BY CompletedTypes DEF HostSendsStatus, Dirs
<1>2. UNCHANGED <<epstall, outCur, outNext, inPtr, data, pipe, short, cts, bothSet,
                  statusArmed, timer, devState, cfg, addr, hAddr, pktdis, setup, req, due, moved,
                  hTog, mixed, transfers>>
  BY DEF HostSendsStatus, Untouched, ptrs, xfer, dev
<1>3. stage' \in {"done", "repeat"} /\ faults' \in 0 .. MaxFaults
  BY BoundsAssumption DEF HostSendsStatus, TypeOK
<1> QED
  BY <1>1, <1>2, <1>3 DEF TypeOK, Table

(* The steps of the host that touch neither a descriptor nor the queue.    *)
Untaken == HostStopsReading \/ HostIsStalled

LEMMA UntakenFrame ==
  ASSUME Untaken
  PROVE  UNCHANGED <<bd, sie, fifo, pktdis, outCur, outNext, inPtr, setup, data, pipe, short,
                     cts, bothSet, statusArmed, timer, devState, cfg, addr, req, due, moved,
                     hTog, hAddr, mixed, transfers>>
<1>1. CASE HostStopsReading
  BY <1>1 DEF HostStopsReading, sieVars, ptrs, xfer, dev
<1>2. CASE HostIsStalled
  BY <1>2 DEF HostIsStalled, Stall, ptrs, xfer, dev, bounds
<1> QED
  BY <1>1, <1>2 DEF Untaken

LEMMA UntakenTypes ==
  ASSUME TypeOK, Untaken
  PROVE  TypeOK'
<1>1. CASE HostStopsReading
  <2>1. stage' = "status" /\ epstall' = epstall
    BY <1>1 DEF HostStopsReading, sieVars
  <2>2. faults' \in 0 .. MaxFaults
    BY <1>1, BoundsAssumption DEF HostStopsReading, TypeOK
  <2> QED BY <2>1, <2>2, UntakenFrame DEF TypeOK
<1>2. CASE HostIsStalled
  <2>1. stage' = "failed" /\ epstall' = TRUE /\ faults' = faults
    BY <1>2 DEF HostIsStalled, Stall, bounds
  <2>2. epstall' \in BOOLEAN
    BY <2>1
  <2> QED BY <2>1, <2>2, UntakenFrame DEF TypeOK
<1> QED
  BY <1>1, <1>2 DEF Untaken

LEMMA ResetTable ==
  /\ [Clear EXCEPT !["OUT"][0] = Stalled] \in Table
  /\ [d \in Dirs |-> 0] \in [Dirs -> PP]
BY ClearIsTable, Entries, TableSet DEF Dirs, PP

LEMMA BusResetTypes ==
  ASSUME TypeOK, BusReset
  PROVE  TypeOK'
<1>1. bd' \in Table /\ sie' \in [Dirs -> PP]
  BY ResetTable DEF BusReset, AfterReset
<1>2. pipe' \in PipeRecord
  BY Emptied DEF BusReset, AfterReset
<1>3. /\ fifo' = <<>> /\ pktdis' = FALSE /\ epstall' = FALSE
      /\ inPtr' = 0 /\ statusArmed' = TRUE /\ devState' = "DEFAULT" /\ cfg' = 0 /\ addr' = 0
      /\ UNCHANGED <<outCur, outNext, setup, data, short, cts, bothSet, timer>>
  BY DEF BusReset, AfterReset
<1>4. /\ stage' = "idle" /\ req' = NoRequest /\ due' = 0 /\ moved' = 0 /\ hTog' = 1 /\ hAddr' = 0
      /\ UNCHANGED <<mixed, transfers>>
  BY DEF BusReset
<1>5. faults' \in 0 .. MaxFaults
  BY BoundsAssumption DEF BusReset, TypeOK
<1>6. req' \in Request /\ fifo' \in Seq([dir : Dirs, pp : PP])
  BY <1>3, <1>4, NoRequestIsOne
<1>7. pktdis' \in BOOLEAN /\ epstall' \in BOOLEAN /\ statusArmed' \in BOOLEAN
  BY <1>3
<1> QED
  BY <1>1, <1>2, <1>3, <1>4, <1>5, <1>6, <1>7 DEF TypeOK, Table, PipeRecord, PP, States

LEMMA TypeStep ==
  ASSUME TypeOK, Next
  PROVE  TypeOK'
BY ServeSetupTypes, ServeSetConfigurationTypes, ServeOutTypes, ServeInTypes, StartOfFrameTypes,
   StallInterruptTypes, HostSetupTypes, HostReadsTypes, HostReadsStatusTypes,
   HostSendsStatusTypes, UntakenTypes, BusResetTypes
DEF Next, Untaken

-----------------------------------------------------------------------------
(* What the queue holds, action by action.                                 *)
QueueInv == InSide /\ SetupIsLast /\ StatusIsOne /\ OutSide

LEMMA QueueFrame ==
  ASSUME QueueInv, UNCHANGED <<bd, sie, fifo, pktdis, inPtr, bothSet>>
  PROVE  QueueInv'
BY DEF QueueInv, InSide, SetupIsLast, StatusIsOne, OutSide, Holds, IsStatus

(* A packet that the SIE completes is put at the end of the queue.         *)
LEMMA CompletedFacts ==
  ASSUME TypeOK, NEW d \in Dirs, NEW isSetup \in BOOLEAN, Completed(d, isSetup)
  PROVE  /\ Len(fifo) \in Nat /\ Len(fifo') = Len(fifo) + 1
         /\ fifo'[Len(fifo) + 1].dir = d /\ fifo'[Len(fifo) + 1].pp = sie[d]
         /\ \A i \in 1 .. Len(fifo) : fifo'[i] = fifo[i]
         /\ sie'[d] = 1 - sie[d] /\ sie[d] \in PP
         /\ \A o \in Dirs : o # d => sie'[o] = sie[o] /\ bd'[o] = bd[o]
         /\ bd'[d][sie[d]].uown = FALSE /\ bd'[d][sie[d]].isSetup = isSetup
         /\ bd'[d][1 - sie[d]] = bd[d][1 - sie[d]]
<1> DEFINE e == [dir |-> d, pp |-> sie[d]]
           x == [bd[d][sie[d]] EXCEPT !.uown = FALSE, !.isSetup = isSetup]
<1>1. sie[d] \in PP /\ 1 - sie[d] \in PP /\ sie[d] # 1 - sie[d] /\ bd \in Table
  BY DEF TypeOK, PP, Table
<1>2. bd[d][sie[d]] \in Entry
  BY <1>1 DEF Table
<1>3. x.uown = FALSE /\ x.isSetup = isSetup
  BY <1>2 DEF Entry
<1>4. bd' = [bd EXCEPT ![d][sie[d]] = x] /\ fifo' = Append(fifo, e) /\ sie' = [sie EXCEPT ![d] = 1 - @]
  BY DEF Completed
<1>5. e \in [dir : Dirs, pp : PP] /\ e.dir = d /\ e.pp = sie[d]
  BY <1>1
<1> HIDE DEF e, x
<1>6. /\ Len(fifo) \in Nat /\ Len(fifo') = Len(fifo) + 1
      /\ fifo'[Len(fifo) + 1] = e /\ \A i \in 1 .. Len(fifo) : fifo'[i] = fifo[i]
  BY <1>4, <1>5, AppendAt DEF TypeOK
<1>7. sie'[d] = 1 - sie[d] /\ \A o \in Dirs : o # d => sie'[o] = sie[o]
  BY <1>4 DEF TypeOK
<1>8. /\ bd'[d][sie[d]] = x /\ bd'[d][1 - sie[d]] = bd[d][1 - sie[d]]
      /\ \A o \in Dirs : o # d => bd'[o] = bd[o]
  BY <1>1, <1>4 DEF Table
<1> QED
  BY <1>1, <1>3, <1>5, <1>6, <1>7, <1>8

LEMMA SetupQueue ==
  ASSUME TypeOK, QueueInv, NEW r \in Requests, HostSetup(r)
  PROVE  QueueInv'
<1> DEFINE n == Len(fifo)
           s == sie["OUT"]
<1>1. Completed("OUT", TRUE) /\ pktdis = FALSE /\ pktdis' = TRUE /\ inPtr' = inPtr /\ bothSet' = bothSet
  BY DEF HostSetup, Reached, Untouched, ptrs, xfer, TypeOK
<1>2. /\ n \in Nat /\ Len(fifo') = n + 1
      /\ fifo'[n + 1].dir = "OUT" /\ fifo'[n + 1].pp = s
      /\ \A i \in 1 .. n : fifo'[i] = fifo[i]
      /\ sie'["OUT"] = 1 - s /\ s \in PP /\ sie'["IN"] = sie["IN"] /\ bd'["IN"] = bd["IN"]
      /\ bd'["OUT"][s].uown = FALSE /\ bd'["OUT"][s].isSetup = TRUE
      /\ bd'["OUT"][1 - s] = bd["OUT"][1 - s]
  BY <1>1, CompletedFacts DEF Dirs
<1>3. 1 - (1 - s) = s /\ s # 1 - s
  BY <1>2 DEF PP
<1> HIDE DEF n, s
<1>4. \A i \in 1 .. n : fifo[i].dir = "OUT" =>
        bothSet /\ fifo[i].pp = 1 - s /\ ~bd["OUT"][1 - s].isSetup
  BY <1>1 DEF QueueInv, StatusIsOne, SetupIsLast, IsStatus, n, s
<1>5. \A i, j \in 1 .. n : fifo[i].dir = "OUT" /\ fifo[j].dir = "OUT" => i = j
  BY <1>1 DEF QueueInv, StatusIsOne, IsStatus, n
<1>6. InSide'
  <2>1. Holds("IN")' <=> Holds("IN")
    BY <1>2 DEF Holds, n
  <2>2. \A i, j \in 1 .. n + 1 : fifo'[i].dir = "IN" /\ fifo'[j].dir = "IN" => i = j
    BY <1>2 DEF QueueInv, InSide, n
  <2> QED BY <1>1, <1>2, <2>1, <2>2 DEF QueueInv, InSide
<1>7. SetupIsLast'
  BY <1>1, <1>2, <1>3, <1>4 DEF SetupIsLast
<1>8. StatusIsOne'
  BY <1>1, <1>2, <1>3, <1>4, <1>5 DEF StatusIsOne, IsStatus
<1>9. OutSide'
  BY <1>1 DEF OutSide
<1> QED
  BY <1>6, <1>7, <1>8, <1>9 DEF QueueInv

(* An IN packet that is acknowledged; one whose handshake is lost changes  *)
(* nothing.                                                                *)
LEMMA InQueue ==
  ASSUME TypeOK, QueueInv, NEW seen \in BOOLEAN, Reached("IN"), Acknowledged("IN", seen),
         UNCHANGED <<pktdis, inPtr, bothSet>>
  PROVE  QueueInv'
<1> DEFINE n == Len(fifo)
           t == sie["IN"]
<1>1. CASE ~seen
  BY <1>1, QueueFrame DEF Acknowledged
<1>2. CASE seen
  <2>1. Completed("IN", FALSE) /\ pktdis = FALSE /\ pktdis' = FALSE /\ bd["IN"][t].uown
    BY <1>2 DEF Acknowledged, Reached, TypeOK
  <2>2. /\ n \in Nat /\ Len(fifo') = n + 1
        /\ fifo'[n + 1].dir = "IN"
        /\ \A i \in 1 .. n : fifo'[i] = fifo[i]
        /\ sie'["IN"] = 1 - t /\ t \in PP /\ sie'["OUT"] = sie["OUT"] /\ bd'["OUT"] = bd["OUT"]
        /\ bd'["IN"][t].uown = FALSE /\ bd'["IN"][1 - t] = bd["IN"][1 - t]
    BY <2>1, CompletedFacts DEF Dirs
  <2>3. t = inPtr /\ ~bd["IN"][1 - t].uown /\ \A i \in 1 .. n : fifo[i].dir # "IN"
    <3>1. ~Holds("IN")
      BY <2>1, <2>2 DEF QueueInv, InSide, PP
    <3> QED BY <3>1 DEF QueueInv, InSide, Holds
  <2> HIDE DEF n, t
  <2>4. InSide'
    <3>1. \A i, j \in 1 .. n + 1 : fifo'[i].dir = "IN" /\ fifo'[j].dir = "IN" => i = j
      BY <2>2, <2>3
    <3>2. ~bd'["IN"][0].uown /\ ~bd'["IN"][1].uown
      BY <2>2, <2>3 DEF PP
    <3>3. Holds("IN")'
      BY <2>2 DEF Holds
    <3> QED BY <2>2, <2>3, <3>1, <3>2, <3>3 DEF InSide
  <2>5. SetupIsLast'
    BY <2>1, <2>2 DEF QueueInv, SetupIsLast, n
  <2>6. StatusIsOne'
    <3>1. \A i \in 1 .. n + 1 : IsStatus(i)' => i \in 1 .. n /\ IsStatus(i) /\ fifo'[i] = fifo[i]
      BY <2>1, <2>2 DEF IsStatus
    <3>2. bothSet' = bothSet
      OBVIOUS
    <3>3. \A i, j \in 1 .. n : IsStatus(i) /\ IsStatus(j) => i = j
      BY DEF QueueInv, StatusIsOne, n
    <3>4. \A i \in 1 .. n : IsStatus(i) =>
            /\ bothSet /\ fifo[i].pp = 1 - sie["OUT"]
            /\ bd["OUT"][sie["OUT"]].uown /\ bd["OUT"][sie["OUT"]].stall
      BY <2>1 DEF QueueInv, StatusIsOne, n
    <3> QED BY <2>1, <2>2, <3>1, <3>2, <3>3, <3>4 DEF StatusIsOne
  <2>7. OutSide'
    <3>1. Holds("OUT")' <=> Holds("OUT")
      BY <2>2 DEF Holds, n
    <3> QED BY <2>1, <2>2, <3>1 DEF QueueInv, OutSide
  <2> QED BY <2>4, <2>5, <2>6, <2>7 DEF QueueInv
<1> QED
  BY <1>1, <1>2

(* The empty OUT packet of a status stage finds the other descriptor set.  *)
LEMMA StatusQueue ==
  ASSUME TypeOK, QueueInv, NEW seen \in BOOLEAN, HostSendsStatus(seen)
  PROVE  QueueInv'
<1> DEFINE n == Len(fifo)
           s == sie["OUT"]
<1>1. /\ Completed("OUT", FALSE) /\ pktdis = FALSE /\ pktdis' = FALSE
      /\ inPtr' = inPtr /\ bothSet' = bothSet
      /\ bd["OUT"][s].uown /\ ~bd["OUT"][s].stall
  BY DEF HostSendsStatus, Reached, Untouched, ptrs, xfer, TypeOK
<1>2. /\ n \in Nat /\ Len(fifo') = n + 1
      /\ fifo'[n + 1].dir = "OUT" /\ fifo'[n + 1].pp = s
      /\ \A i \in 1 .. n : fifo'[i] = fifo[i]
      /\ sie'["OUT"] = 1 - s /\ s \in PP /\ sie'["IN"] = sie["IN"] /\ bd'["IN"] = bd["IN"]
      /\ bd'["OUT"][s].uown = FALSE /\ bd'["OUT"][s].isSetup = FALSE
      /\ bd'["OUT"][1 - s] = bd["OUT"][1 - s]
  BY <1>1, CompletedFacts DEF Dirs
<1>3. 1 - (1 - s) = s /\ s # 1 - s
  BY <1>2 DEF PP
<1> HIDE DEF n, s
<1>4. \A i \in 1 .. n : fifo[i].dir # "OUT"
  BY <1>1 DEF QueueInv, StatusIsOne, IsStatus, n, s
<1>5. bothSet /\ bd["OUT"][1 - s].uown /\ bd["OUT"][1 - s].stall
  BY <1>1, <1>4 DEF QueueInv, OutSide, Holds, n, s
<1>6. InSide'
  <2>1. Holds("IN")' <=> Holds("IN")
    BY <1>2 DEF Holds, n
  <2>2. \A i, j \in 1 .. n + 1 : fifo'[i].dir = "IN" /\ fifo'[j].dir = "IN" => i = j
    BY <1>2 DEF QueueInv, InSide, n
  <2> QED BY <1>1, <1>2, <2>1, <2>2 DEF QueueInv, InSide
<1>7. SetupIsLast'
  BY <1>1, <1>2, <1>4 DEF SetupIsLast
<1>8. StatusIsOne'
  BY <1>1, <1>2, <1>3, <1>4, <1>5 DEF StatusIsOne, IsStatus
<1>9. OutSide'
  <2>1. Holds("OUT")'
    BY <1>2 DEF Holds
  <2> QED BY <2>1 DEF OutSide
<1> QED
  BY <1>6, <1>7, <1>8, <1>9 DEF QueueInv

(* With an empty queue only the next descriptors count.                    *)
LEMMA EmptyIsFine ==
  ASSUME Len(fifo') = 0, pktdis' = FALSE,
         sie'["IN"] = inPtr', ~bd'["IN"][1 - inPtr'].uown,
         bd'["OUT"][sie'["OUT"]].uown,
         ~bd'["OUT"][sie'["OUT"]].stall =>
           bothSet' /\ bd'["OUT"][1 - sie'["OUT"]].uown /\ bd'["OUT"][1 - sie'["OUT"]].stall
  PROVE  QueueInv'
BY DEF QueueInv, InSide, SetupIsLast, StatusIsOne, OutSide, Holds

LEMMA TableGet ==
  ASSUME NEW b \in Table, NEW d \in Dirs, NEW i \in PP, NEW e
  PROVE  /\ [b EXCEPT ![d][i] = e][d][i] = e
         /\ \A o \in PP : o # i => [b EXCEPT ![d][i] = e][d][o] = b[d][o]
         /\ \A o \in Dirs : o # d => [b EXCEPT ![d][i] = e][o] = b[o]
BY DEF Table

LEMMA Flags ==
  /\ Stalled.uown = TRUE /\ Stalled.stall = TRUE
  /\ \A t, k : Armed(t, k).uown = TRUE /\ Armed(t, k).stall = FALSE
BY DEF Stalled, Armed, Idle

LEMMA AbandonedIn ==
  ASSUME bd \in Table, NEW cur \in PP, NEW i \in PP
  PROVE  ~Abandoned(cur)["IN"][i].uown
<1> DEFINE off == [k \in PP |-> [bd["IN"][k] EXCEPT !.uown = FALSE]]
<1>1. bd["IN"][i] \in Entry
  BY DEF Table, Dirs
<1>2. off[i].uown = FALSE
  BY <1>1 DEF Entry
<1>3. Abandoned(cur)["IN"] = off
  BY DEF Abandoned, Table, Dirs
<1> QED
  BY <1>2, <1>3

LEMMA ServedFacts ==
  ASSUME TypeOK, NEW d, NEW isSetup, Serve(d, isSetup)
  PROVE  /\ Len(fifo) \in Nat /\ Len(fifo) > 0 /\ Len(fifo') = Len(fifo) - 1
         /\ \A i \in 1 .. Len(fifo) - 1 : fifo'[i] = fifo[i + 1]
         /\ Head(fifo) = fifo[1] /\ fifo[1].dir = d /\ fifo[1].pp \in PP
         /\ d = "OUT" => bd["OUT"][fifo[1].pp].isSetup = isSetup
<1>1. fifo \in Seq([dir : Dirs, pp : PP]) /\ fifo # <<>>
  BY DEF Serve, TypeOK
<1>2. fifo' = Tail(fifo) /\ Head(fifo).dir = d
      /\ (d = "OUT" => bd["OUT"][Head(fifo).pp].isSetup = isSetup)
  BY DEF Serve
<1>3. /\ Len(fifo) \in Nat /\ Len(fifo) > 0 /\ Len(fifo') = Len(fifo) - 1
      /\ \A i \in 1 .. Len(fifo) - 1 : fifo'[i] = fifo[i + 1]
      /\ Head(fifo) = fifo[1] /\ fifo[1] \in [dir : Dirs, pp : PP]
  BY <1>1, <1>2, TailAt
<1>4. fifo[1].pp \in PP /\ fifo[1].dir = d
  BY <1>2, <1>3
<1>5. d = "OUT" => bd["OUT"][fifo[1].pp].isSetup = isSetup
  BY <1>2, <1>3
<1> QED
  BY <1>3, <1>4, <1>5

(* What the service of a SETUP does to the table.                          *)
LEMMA RefusalTable ==
  ASSUME NEW b \in Table, NEW nxt \in PP, NEW i \in PP, Refusal(b, nxt, i)
  PROVE  /\ bd'["OUT"][nxt] = Stalled /\ bd'["IN"][i] = Stalled
         /\ bd'["IN"][1 - i] = b["IN"][1 - i]
<1> DEFINE b1 == [b EXCEPT !["OUT"][nxt] = Stalled]
<1>1. "OUT" \in Dirs /\ "IN" \in Dirs /\ "IN" # "OUT" /\ 1 - i \in PP /\ 1 - i # i
  BY DEF Dirs, PP
<1>2. b1 \in Table
  BY <1>1, TableSet, Entries
<1>3. b1["OUT"][nxt] = Stalled /\ b1["IN"] = b["IN"]
  BY <1>1, TableGet
<1>4. bd' = [b1 EXCEPT !["IN"][i] = Stalled]
  BY DEF Refusal
<1> HIDE DEF b1
<1>5. /\ bd'["OUT"] = b1["OUT"] /\ bd'["IN"][i] = Stalled
      /\ bd'["IN"][1 - i] = b1["IN"][1 - i]
  BY <1>1, <1>2, <1>4, TableGet
<1> QED
  BY <1>3, <1>5

LEMMA ReadTransferTable ==
  ASSUME NEW b \in Table, NEW cur \in PP, NEW nxt \in PP, cur # nxt, NEW i \in PP,
         TypeOK, Answer(setup) # Refused, ReadTransfer(b, cur, nxt, i)
  PROVE  /\ bd'["OUT"][nxt] = Armed(0, 0) /\ bd'["OUT"][cur] = Stalled
         /\ bd'["IN"][i] = Armed(1, NextCount(Smaller(Answer(setup), setup.len)))
         /\ bd'["IN"][1 - i] = b["IN"][1 - i] /\ bothSet'
<1> DEFINE all == Smaller(Answer(setup), setup.len)
           b1 == [b EXCEPT !["IN"][i] = Armed(1, NextCount(all))]
           b2 == [b1 EXCEPT !["OUT"][cur] = Stalled]
<1>1. "OUT" \in Dirs /\ "IN" \in Dirs /\ "IN" # "OUT" /\ 1 - i \in PP /\ 1 - i # i
  BY DEF Dirs, PP
<1>2. setup \in Request /\ setup.len \in Nat
  BY DEF TypeOK, Request
<1>3. all \in Nat
  BY <1>2, AnswerIsLength, Numbers
<1>4. Armed(1, NextCount(all)) \in Entry
  BY <1>3, Numbers, Entries DEF PP
<1>5. b1 \in Table
  BY <1>1, <1>4, TableSet
<1>6. b1["IN"][1 - i] = b["IN"][1 - i] /\ b1["IN"][i] = Armed(1, NextCount(all))
  BY <1>1, TableGet
<1>7. bd' = [b2 EXCEPT !["OUT"][nxt] = Armed(0, 0)] /\ bothSet'
  BY DEF ReadTransfer, ArmStatus, FirstPacket
<1> HIDE DEF b1
<1>8. b2 \in Table
  BY <1>1, <1>5, TableSet, Entries
<1>9. b2["OUT"][cur] = Stalled /\ b2["IN"] = b1["IN"]
  BY <1>1, <1>5, TableGet
<1> HIDE DEF b2
<1>10. bd' = [b2 EXCEPT !["OUT"][nxt] = Armed(0, 0)]
  BY <1>7
<1>11. bd'["OUT"][nxt] = Armed(0, 0)
  BY <1>1, <1>8, <1>10 DEF Table
<1>12. bd'["OUT"][cur] = b2["OUT"][cur]
  BY <1>1, <1>8, <1>10, TableGet
<1>13. bd'["IN"] = b2["IN"]
  BY <1>1, <1>8, <1>10, TableGet
<1> QED
  BY <1>6, <1>7, <1>9, <1>11, <1>12, <1>13

LEMMA NoDataTransferTable ==
  ASSUME NEW b \in Table, NEW cur \in PP, NEW nxt \in PP, NEW i \in PP,
         NoDataTransfer(b, cur, nxt, i)
  PROVE  /\ bd'["OUT"][nxt] = Stalled /\ bd'["IN"][i] = Armed(1, 0)
         /\ bd'["IN"][1 - i] = b["IN"][1 - i]
<1> DEFINE b1 == [b EXCEPT !["OUT"][nxt] = Stalled]
<1>1. "OUT" \in Dirs /\ "IN" \in Dirs /\ "IN" # "OUT" /\ 1 - i \in PP /\ 1 - i # i
  BY DEF Dirs, PP
<1>2. b1 \in Table
  BY <1>1, TableSet, Entries
<1>3. b1["OUT"][nxt] = Stalled /\ b1["IN"] = b["IN"]
  BY <1>1, TableGet
<1>4. bd' = [b1 EXCEPT !["IN"][i] = Armed(1, 0)]
  BY DEF NoDataTransfer, ArmStatus
<1> HIDE DEF b1
<1>5. /\ bd'["OUT"] = b1["OUT"] /\ bd'["IN"][i] = Armed(1, 0)
      /\ bd'["IN"][1 - i] = b1["IN"][1 - i]
  BY <1>1, <1>2, <1>4, TableGet
<1> QED
  BY <1>3, <1>5

(* A SETUP that is served is the only entry, and its descriptor is not the *)
(* one that the SIE uses next.                                             *)
LEMMA SetupAlone ==
  ASSUME TypeOK, QueueInv, Serve("OUT", TRUE)
  PROVE  /\ pktdis /\ Len(fifo) = 1 /\ Len(fifo') = 0
         /\ Head(fifo).pp = 1 - sie["OUT"] /\ ~Holds("IN")
<1>1. /\ Len(fifo) \in Nat /\ Len(fifo) > 0 /\ Len(fifo') = Len(fifo) - 1
      /\ Head(fifo) = fifo[1] /\ fifo[1].dir = "OUT"
      /\ bd["OUT"][fifo[1].pp].isSetup = TRUE
  BY ServedFacts
<1>a. 1 \in 1 .. Len(fifo)
  BY <1>1
<1>2. pktdis /\ 1 = Len(fifo)
  BY <1>1, <1>a DEF QueueInv, SetupIsLast
<1>3. Head(fifo).pp = 1 - sie["OUT"]
  BY <1>1, <1>2 DEF QueueInv, SetupIsLast
<1>b. Len(fifo) = 1
  BY <1>2
<1>c. Len(fifo') = 1 - 1
  BY <1>1, <1>b
<1>4. Len(fifo) = 1 /\ Len(fifo') = 0
  BY <1>b, <1>c
<1>5. \A i \in 1 .. Len(fifo) : fifo[i].dir # "IN"
  <2>1. \A i \in 1 .. Len(fifo) : i = 1
    BY <1>4
  <2> QED BY <1>1, <2>1
<1>6. ~Holds("IN")
  BY <1>5 DEF Holds
<1> QED
  BY <1>2, <1>3, <1>4, <1>6

LEMMA ServeSetupQueue ==
  ASSUME TypeOK, QueueInv, ServeSetup
  PROVE  QueueInv'
<1> DEFINE cur == Head(fifo).pp
<1>1. Len(fifo') = 0 /\ cur = 1 - sie["OUT"] /\ sie["IN"] = inPtr
  BY SetupAlone DEF ServeSetup, QueueInv, InSide
<1>2. /\ pktdis' = FALSE /\ sie' = sie /\ inPtr' = inPtr
      /\ \/ Refusal(Abandoned(cur), 1 - cur, inPtr)
         \/ Answer(setup) # Refused /\ ReadTransfer(Abandoned(cur), cur, 1 - cur, inPtr)
         \/ NoDataTransfer(Abandoned(cur), cur, 1 - cur, inPtr)
  BY DEF ServeSetup
<1> HIDE DEF cur
<1>3. /\ sie["OUT"] \in PP /\ cur \in PP /\ 1 - cur \in PP /\ cur # 1 - cur /\ 1 - cur = sie["OUT"]
      /\ inPtr \in PP /\ 1 - inPtr \in PP /\ bd \in Table
  BY <1>1 DEF TypeOK, PP, Dirs, Table
<1>4. Abandoned(cur) \in Table /\ ~Abandoned(cur)["IN"][1 - inPtr].uown
  BY <1>3, AbandonedIsTable, AbandonedIn
<1>5. CASE Refusal(Abandoned(cur), 1 - cur, inPtr)
  <2>1. bd'["OUT"][sie["OUT"]] = Stalled /\ ~bd'["IN"][1 - inPtr].uown
    BY <1>3, <1>4, <1>5, RefusalTable
  <2> QED BY <1>1, <1>2, <2>1, Flags, EmptyIsFine
<1>6. CASE Answer(setup) # Refused /\ ReadTransfer(Abandoned(cur), cur, 1 - cur, inPtr)
  <2>1. /\ bd'["OUT"][sie["OUT"]] = Armed(0, 0) /\ bd'["OUT"][cur] = Stalled
        /\ ~bd'["IN"][1 - inPtr].uown /\ bothSet'
    BY <1>3, <1>4, <1>6, ReadTransferTable
  <2> QED BY <1>1, <1>2, <2>1, Flags, EmptyIsFine
<1>7. CASE NoDataTransfer(Abandoned(cur), cur, 1 - cur, inPtr)
  <2>1. bd'["OUT"][sie["OUT"]] = Stalled /\ ~bd'["IN"][1 - inPtr].uown
    BY <1>3, <1>4, <1>7, NoDataTransferTable
  <2> QED BY <1>1, <1>2, <2>1, Flags, EmptyIsFine
<1> QED
  BY <1>2, <1>5, <1>6, <1>7

LEMMA ServeSetConfigurationQueue ==
  ASSUME TypeOK, QueueInv, ServeSetConfiguration
  PROVE  QueueInv'
<1>1. Len(fifo') = 0
  BY SetupAlone DEF ServeSetConfiguration
<1>2. NoDataTransfer(Clear, 0, 0, 0) /\ inPtr' = 0 /\ pktdis' = FALSE
      /\ sie' = [d \in Dirs |-> 0]
  BY DEF ServeSetConfiguration
<1>3. sie'["OUT"] = 0 /\ sie'["IN"] = 0 /\ 0 \in PP /\ 1 - 0 = 1
  BY <1>2 DEF Dirs, PP
<1>4. bd'["OUT"][0] = Stalled /\ bd'["IN"][1 - 0] = Clear["IN"][1 - 0]
  BY <1>2, <1>3, ClearIsTable, NoDataTransferTable
<1>5. ~Clear["IN"][1].uown
  BY DEF Clear, Dirs, PP, Idle
<1> QED
  BY <1>1, <1>2, <1>3, <1>4, <1>5, Flags, EmptyIsFine

LEMMA BusResetQueue ==
  ASSUME BusReset
  PROVE  QueueInv'
<1>1. bd' = [Clear EXCEPT !["OUT"][0] = Stalled] /\ fifo' = <<>> /\ inPtr' = 0 /\ pktdis' = FALSE
      /\ sie' = [d \in Dirs |-> 0]
  BY DEF BusReset, AfterReset
<1>2. Len(fifo') = 0 /\ sie'["OUT"] = 0 /\ sie'["IN"] = 0 /\ 0 \in PP /\ 1 - 0 = 1
  BY <1>1 DEF Dirs, PP
<1>3. bd'["OUT"][0] = Stalled
  BY <1>1, <1>2, ClearIsTable DEF Dirs, Table
<1>a. bd'["IN"] = Clear["IN"]
  BY <1>1, <1>2, ClearIsTable, TableGet DEF Dirs
<1>4. ~Clear["IN"][1].uown
  BY DEF Clear, Dirs, PP, Idle
<1> QED
  BY <1>1, <1>2, <1>3, <1>a, <1>4, Flags, EmptyIsFine

(* Serving the first entry moves the others up.                            *)
LEMMA Shifted ==
  ASSUME TypeOK, QueueInv, NEW d, NEW isSetup, Serve(d, isSetup), UNCHANGED pktdis,
         pktdis => Len(fifo) # 1
  PROVE  /\ Len(fifo) \in Nat /\ Len(fifo) > 0 /\ Len(fifo') = Len(fifo) - 1
         /\ \A i \in 1 .. Len(fifo) - 1 : i + 1 \in 1 .. Len(fifo) /\ fifo'[i] = fifo[i + 1]
         /\ \A i \in 1 .. Len(fifo) - 1 : IsStatus(i)' <=> IsStatus(i + 1)
         /\ pktdis => /\ Len(fifo') > 0 /\ fifo'[Len(fifo')].dir = "OUT"
                      /\ fifo'[Len(fifo')].pp = 1 - sie["OUT"]
<1>1. /\ Len(fifo) \in Nat /\ Len(fifo) > 0 /\ Len(fifo') = Len(fifo) - 1
      /\ \A i \in 1 .. Len(fifo) - 1 : fifo'[i] = fifo[i + 1]
  BY ServedFacts
<1>2. \A i \in 1 .. Len(fifo) - 1 : i + 1 \in 1 .. Len(fifo)
  BY <1>1
<1>3. \A i \in 1 .. Len(fifo) - 1 : IsStatus(i)' <=> IsStatus(i + 1)
  <2> SUFFICES ASSUME NEW i \in 1 .. Len(fifo) - 1 PROVE IsStatus(i)' <=> IsStatus(i + 1)
    OBVIOUS
  <2>1. fifo'[i] = fifo[i + 1] /\ (i = Len(fifo') <=> i + 1 = Len(fifo))
    BY <1>1
  <2> QED BY <2>1 DEF IsStatus
<1>4. ASSUME pktdis
      PROVE  /\ Len(fifo') > 0 /\ fifo'[Len(fifo')].dir = "OUT"
             /\ fifo'[Len(fifo')].pp = 1 - sie["OUT"]
  <2>1. Len(fifo) - 1 \in 1 .. Len(fifo) - 1 /\ Len(fifo) - 1 + 1 = Len(fifo)
    BY <1>1, <1>4
  <2>2. fifo'[Len(fifo')] = fifo[Len(fifo)]
    BY <1>1, <2>1
  <2> QED BY <1>1, <1>4, <2>1, <2>2 DEF QueueInv, SetupIsLast
<1> QED
  BY <1>1, <1>2, <1>3, <1>4

LEMMA ServeOutFacts ==
  ASSUME TypeOK, QueueInv, ServeOut
  PROVE  /\ Len(fifo) \in Nat /\ Len(fifo) > 0 /\ fifo[1].dir = "OUT"
         /\ ~(pktdis /\ 1 = Len(fifo)) /\ IsStatus(1)
         /\ ~pktdis => bd["OUT"][sie["OUT"]].uown /\ bd["OUT"][sie["OUT"]].stall
         /\ bd' = bd
<1> DEFINE n == Len(fifo)
<1>1. /\ Serve("OUT", FALSE)
      /\ bd' = IF bothSet THEN bd ELSE [bd EXCEPT !["OUT"][1 - Head(fifo).pp] = Stalled]
  BY DEF ServeOut
<1>2. n \in Nat /\ n > 0 /\ fifo[1].dir = "OUT" /\ bd["OUT"][fifo[1].pp].isSetup = FALSE
  BY <1>1, ServedFacts
<1>3. 1 \in 1 .. n
  BY <1>2
<1>4. ~(pktdis /\ 1 = n)
  BY <1>2, <1>3 DEF QueueInv, SetupIsLast
<1>5. IsStatus(1)
  BY <1>2, <1>4 DEF IsStatus
<1>6. bothSet /\ (~pktdis => bd["OUT"][sie["OUT"]].uown /\ bd["OUT"][sie["OUT"]].stall)
  BY <1>3, <1>5 DEF QueueInv, StatusIsOne
<1> QED
  BY <1>1, <1>2, <1>4, <1>5, <1>6

LEMMA ServeOutQueue ==
  ASSUME TypeOK, QueueInv, ServeOut
  PROVE  QueueInv'
<1> DEFINE n == Len(fifo)
<1>1. Serve("OUT", FALSE) /\ pktdis' = pktdis /\ sie' = sie /\ inPtr' = inPtr
  BY DEF ServeOut
<1>2. /\ n \in Nat /\ n > 0 /\ fifo[1].dir = "OUT" /\ ~(pktdis /\ 1 = n) /\ IsStatus(1)
      /\ ~pktdis => bd["OUT"][sie["OUT"]].uown /\ bd["OUT"][sie["OUT"]].stall
      /\ bd' = bd
  BY ServeOutFacts
<1>3. 1 \in 1 .. n
  BY <1>2
<1>8. \A i \in 1 .. n : i # 1 => ~IsStatus(i)
  BY <1>2, <1>3 DEF QueueInv, StatusIsOne
<1>9. /\ n \in Nat /\ n > 0 /\ Len(fifo') = n - 1
      /\ \A i \in 1 .. n - 1 : i + 1 \in 1 .. n /\ fifo'[i] = fifo[i + 1]
      /\ \A i \in 1 .. n - 1 : IsStatus(i)' <=> IsStatus(i + 1)
      /\ pktdis => /\ Len(fifo') > 0 /\ fifo'[Len(fifo')].dir = "OUT"
                   /\ fifo'[Len(fifo')].pp = 1 - sie["OUT"]
  BY <1>1, <1>2, Shifted
<1>10. \A i \in 1 .. n - 1 : ~IsStatus(i)'
  BY <1>8, <1>9
<1>11. \A i \in 1 .. n - 1 : i + 1 = n <=> i = Len(fifo')
  BY <1>9
<1> HIDE DEF n
<1>12. InSide'
  <2>1. Holds("IN")' <=> Holds("IN")
    <3>1. Holds("IN")' => Holds("IN")
      BY <1>9 DEF Holds, n
    <3>2. ASSUME NEW i \in 1 .. n, fifo[i].dir = "IN" PROVE Holds("IN")'
      <4>1. i # 1
        BY <1>2, <3>2
      <4>2. i - 1 \in 1 .. n - 1 /\ i - 1 + 1 = i
        BY <1>9, <4>1
      <4>3. fifo'[i - 1].dir = "IN"
        BY <1>9, <3>2, <4>2
      <4> QED BY <1>9, <4>2, <4>3 DEF Holds
    <3> QED BY <3>1, <3>2 DEF Holds, n
  <2>2. \A i, j \in 1 .. n - 1 : fifo'[i].dir = "IN" /\ fifo'[j].dir = "IN" => i = j
    <3> SUFFICES ASSUME NEW i \in 1 .. n - 1, NEW j \in 1 .. n - 1,
                        fifo'[i].dir = "IN", fifo'[j].dir = "IN"
                 PROVE  i = j
      OBVIOUS
    <3>1. i + 1 = j + 1
      BY <1>9 DEF QueueInv, InSide, n
    <3> QED BY <3>1
  <2> QED BY <1>1, <1>2, <1>9, <2>1, <2>2 DEF QueueInv, InSide
<1>13. SetupIsLast'
  <2>1. \A i \in 1 .. n - 1 : fifo'[i].dir = "OUT" =>
          (bd'["OUT"][fifo'[i].pp].isSetup <=> pktdis' /\ i = Len(fifo'))
    BY <1>1, <1>2, <1>9, <1>11 DEF QueueInv, SetupIsLast, n
  <2> QED BY <1>1, <1>9, <2>1 DEF SetupIsLast
<1>14. StatusIsOne'
  BY <1>9, <1>10 DEF StatusIsOne
<1>15. OutSide'
  BY <1>1, <1>2 DEF OutSide
<1> QED
  BY <1>12, <1>13, <1>14, <1>15 DEF QueueInv

LEMMA ServeInTable ==
  ASSUME TypeOK, ServeIn
  PROVE  bd'["OUT"] = bd["OUT"] /\ bd'["IN"][inPtr] = bd["IN"][inPtr]
<1>1. "OUT" \in Dirs /\ "IN" \in Dirs /\ "IN" # "OUT" /\ bd \in Table
      /\ inPtr \in PP /\ 1 - inPtr \in PP /\ 1 - inPtr # inPtr
  BY DEF Dirs, PP, TypeOK, Table
<1>2. bd' = bd \/ \E e : bd' = [bd EXCEPT !["IN"][1 - inPtr] = e]
  BY DEF ServeIn
<1> QED
  BY <1>1, <1>2 DEF Table

LEMMA ServeInQueue ==
  ASSUME TypeOK, QueueInv, ServeIn
  PROVE  QueueInv'
<1> DEFINE n == Len(fifo)
<1>1. /\ Serve("IN", FALSE) /\ pktdis' = pktdis /\ sie' = sie /\ inPtr' = 1 - inPtr
      /\ bothSet' = bothSet
  BY DEF ServeIn
<1>2. n \in Nat /\ n > 0 /\ fifo[1].dir = "IN"
  BY <1>1, ServedFacts
<1>3. 1 \in 1 .. n /\ Holds("IN")
  BY <1>2 DEF Holds
<1>4. pktdis => n # 1
  BY <1>2 DEF QueueInv, SetupIsLast
<1>5. sie["IN"] = 1 - inPtr /\ ~bd["IN"][0].uown /\ ~bd["IN"][1].uown
  BY <1>3 DEF QueueInv, InSide
<1>6. \A i \in 1 .. n : i # 1 => fifo[i].dir # "IN"
  BY <1>2, <1>3 DEF QueueInv, InSide
<1>7. bd'["OUT"] = bd["OUT"] /\ bd'["IN"][inPtr] = bd["IN"][inPtr]
  BY ServeInTable
<1>9. /\ n \in Nat /\ n > 0 /\ Len(fifo') = n - 1
      /\ \A i \in 1 .. n - 1 : i + 1 \in 1 .. n /\ fifo'[i] = fifo[i + 1]
      /\ \A i \in 1 .. n - 1 : IsStatus(i)' <=> IsStatus(i + 1)
      /\ pktdis => /\ Len(fifo') > 0 /\ fifo'[Len(fifo')].dir = "OUT"
                   /\ fifo'[Len(fifo')].pp = 1 - sie["OUT"]
  BY <1>1, <1>4, Shifted
<1>10. \A i \in 1 .. n - 1 : fifo'[i].dir # "IN"
  BY <1>6, <1>9
<1>11. \A i \in 1 .. n - 1 : i + 1 = n <=> i = Len(fifo')
  BY <1>9
<1> HIDE DEF n
<1>12. InSide'
  <2>1. ~Holds("IN")'
    BY <1>9, <1>10 DEF Holds
  <2>2. ~bd'["IN"][1 - inPtr'].uown
    <3>1. 1 - inPtr' = inPtr /\ inPtr \in {0, 1}
      BY <1>1 DEF TypeOK, PP
    <3> QED BY <1>5, <1>7, <3>1
  <2> QED BY <1>1, <1>5, <1>9, <1>10, <2>1, <2>2 DEF InSide
<1>13. SetupIsLast'
  <2>1. \A i \in 1 .. n - 1 : fifo'[i].dir = "OUT" =>
          (bd'["OUT"][fifo'[i].pp].isSetup <=> pktdis' /\ i = Len(fifo'))
    BY <1>1, <1>7, <1>9, <1>11 DEF QueueInv, SetupIsLast, n
  <2> QED BY <1>1, <1>9, <2>1 DEF SetupIsLast
<1>14. StatusIsOne'
  <2>1. \A i, j \in 1 .. n - 1 : IsStatus(i)' /\ IsStatus(j)' => i = j
    <3> SUFFICES ASSUME NEW i \in 1 .. n - 1, NEW j \in 1 .. n - 1, IsStatus(i)', IsStatus(j)'
                 PROVE  i = j
      OBVIOUS
    <3>1. i + 1 = j + 1
      BY <1>9 DEF QueueInv, StatusIsOne, n
    <3> QED BY <3>1
  <2>2. ASSUME NEW i \in 1 .. n - 1, IsStatus(i)'
        PROVE  /\ bothSet' /\ fifo'[i].pp = IF pktdis' THEN sie'["OUT"] ELSE 1 - sie'["OUT"]
               /\ ~pktdis' => bd'["OUT"][sie'["OUT"]].uown /\ bd'["OUT"][sie'["OUT"]].stall
    <3>1. i + 1 \in 1 .. n /\ IsStatus(i + 1) /\ fifo'[i] = fifo[i + 1]
      BY <1>9, <2>2
    <3>2. /\ bothSet /\ fifo[i + 1].pp = IF pktdis THEN sie["OUT"] ELSE 1 - sie["OUT"]
          /\ ~pktdis => bd["OUT"][sie["OUT"]].uown /\ bd["OUT"][sie["OUT"]].stall
      BY <3>1 DEF QueueInv, StatusIsOne, n
    <3> QED BY <1>1, <1>7, <3>1, <3>2
  <2> QED BY <1>9, <2>1, <2>2 DEF StatusIsOne
<1>15. OutSide'
  <2>1. ASSUME NEW i \in 1 .. n, fifo[i].dir = "OUT" PROVE Holds("OUT")'
    <3>1. i # 1
      BY <1>2, <2>1
    <3>2. i - 1 \in 1 .. n - 1 /\ i - 1 + 1 = i
      BY <1>9, <3>1
    <3>3. fifo'[i - 1].dir = "OUT"
      BY <1>9, <2>1, <3>2
    <3> QED BY <1>9, <3>2, <3>3 DEF Holds
  <2>2. Holds("OUT") => Holds("OUT")'
    BY <2>1 DEF Holds, n
  <2> QED BY <1>1, <1>7, <2>2 DEF QueueInv, OutSide
<1> QED
  BY <1>12, <1>13, <1>14, <1>15 DEF QueueInv

LEMMA StallInterruptQueue ==
  ASSUME TypeOK, QueueInv, StallInterrupt
  PROVE  QueueInv'
<1>1. UNCHANGED <<sie, fifo, pktdis, inPtr, bothSet>>
  BY DEF StallInterrupt, ptrs, xfer
<1>2. CASE bd' = bd
  BY <1>1, <1>2, QueueFrame
<1>3. CASE bd["OUT"][outCur] = Armed(0, 0) /\ bd' = [bd EXCEPT !["OUT"][outCur] = Stalled]
  <2>1. /\ bd["OUT"][outCur].uown /\ ~bd["OUT"][outCur].stall /\ ~bd["OUT"][outCur].isSetup
        /\ Stalled.uown /\ Stalled.stall /\ ~Stalled.isSetup
    BY <1>3 DEF Armed, Stalled, Idle
  <2>2. /\ bd'["IN"] = bd["IN"] /\ bd'["OUT"][outCur] = Stalled
        /\ \A i \in PP : i # outCur => bd'["OUT"][i] = bd["OUT"][i]
    BY <1>3 DEF TypeOK, Dirs
  <2>3. \A i \in PP : /\ bd'["OUT"][i].uown <=> bd["OUT"][i].uown
                      /\ bd'["OUT"][i].isSetup <=> bd["OUT"][i].isSetup
                      /\ bd["OUT"][i].stall => bd'["OUT"][i].stall
    BY <2>1, <2>2
  <2>4. sie["OUT"] \in PP /\ 1 - sie["OUT"] \in PP
    BY DEF TypeOK, Dirs, PP
  <2>5. \A i \in 1 .. Len(fifo) : fifo[i].pp \in PP
    <3>1. fifo \in Seq([dir : Dirs, pp : PP])
      BY DEF TypeOK
    <3>2. \A i \in 1 .. Len(fifo) : fifo[i] \in [dir : Dirs, pp : PP]
      BY <3>1, ElementAt
    <3> QED BY <3>2
  <2>6. InSide'
    BY <1>1, <2>2 DEF QueueInv, InSide, Holds
  <2>7. SetupIsLast'
    BY <1>1, <2>3, <2>5 DEF QueueInv, SetupIsLast
  <2>8. StatusIsOne'
    BY <1>1, <2>3, <2>4 DEF QueueInv, StatusIsOne, IsStatus
  <2>9. OutSide'
    BY <1>1, <2>3, <2>4 DEF QueueInv, OutSide, Holds
  <2> QED BY <2>6, <2>7, <2>8, <2>9 DEF QueueInv
<1> QED
  BY <1>2, <1>3 DEF StallInterrupt

LEMMA QueueStep ==
  ASSUME TypeOK, statusArmed, QueueInv, Next
  PROVE  QueueInv'
<1>1. CASE StartOfFrame
  <2>1. UNCHANGED <<bd, sie, fifo, pktdis, inPtr, bothSet>>
    BY <1>1 DEF StartOfFrame, sieVars, ptrs
  <2> QED BY <2>1, QueueFrame
<1>2. CASE Untaken
  BY <1>2, UntakenFrame, QueueFrame
<1>3. ASSUME NEW seen \in BOOLEAN, HostReads(seen) \/ HostReadsStatus(seen)
      PROVE  QueueInv'
  <2>1. Reached("IN") /\ Acknowledged("IN", seen) /\ UNCHANGED <<pktdis, inPtr, bothSet>>
    BY <1>3 DEF HostReads, HostReadsStatus, Untouched, ptrs, xfer
  <2> QED BY <2>1, InQueue
<1> QED
  BY <1>1, <1>2, <1>3, ServeSetupQueue, ServeSetConfigurationQueue, ServeOutQueue, ServeInQueue,
     StallInterruptQueue, SetupQueue, StatusQueue, BusResetQueue
  DEF Next, Untaken

-----------------------------------------------------------------------------
LEMMA ArmedStep ==
  ASSUME TypeOK, statusArmed, Next
  PROVE  statusArmed'
<1>1. CASE ServeSetup
  BY <1>1 DEF ServeSetup, Refusal, ReadTransfer, NoDataTransfer
<1>2. CASE ServeSetConfiguration
  BY <1>2 DEF ServeSetConfiguration, NoDataTransfer
<1>3. CASE ServeOut \/ ServeIn \/ StartOfFrame \/ StallInterrupt
  BY <1>3 DEF ServeOut, ServeIn, StartOfFrame, StallInterrupt, xfer
<1>4. ASSUME NEW seen \in BOOLEAN,
             HostReads(seen) \/ HostReadsStatus(seen) \/ HostSendsStatus(seen)
      PROVE  statusArmed'
  BY <1>4 DEF HostReads, HostReadsStatus, HostSendsStatus, Untouched, xfer
<1>5. ASSUME NEW r \in Requests, HostSetup(r)
      PROVE  statusArmed'
  BY <1>5 DEF HostSetup, Untouched, xfer
<1>6. CASE Untaken
  BY <1>6, UntakenFrame
<1>7. CASE BusReset
  BY <1>7 DEF BusReset, AfterReset
<1> QED
  BY <1>1, <1>2, <1>3, <1>4, <1>5, <1>6, <1>7 DEF Next, Untaken

-----------------------------------------------------------------------------
LEMMA InitInv == Init => Inv
<1> SUFFICES ASSUME Init PROVE Inv
  OBVIOUS
<1>1. bd \in Table /\ sie \in [Dirs -> PP]
  BY ResetTable DEF Init
<1>2. TypeOK
  <2>1. data \in DataRecord /\ pipe \in PipeRecord /\ setup \in Request /\ req \in Request
    BY NoRequestIsOne DEF Init, Nothing, DataRecord, PipeRecord
  <2>2. fifo \in Seq([dir : Dirs, pp : PP])
    BY DEF Init
  <2>3. /\ pktdis \in BOOLEAN /\ epstall \in BOOLEAN /\ bothSet \in BOOLEAN
        /\ statusArmed \in BOOLEAN /\ mixed \in BOOLEAN
    BY DEF Init
  <2>4. /\ outCur \in PP /\ outNext \in PP /\ inPtr \in PP /\ hTog \in PP
        /\ short \in {"NOT_USED", "PENDING", "SENT"} /\ cts \in {"WAIT_SETUP", "TX", "RX"}
        /\ devState \in States
        /\ stage \in {"idle", "data", "status", "repeat", "done", "failed"}
    BY DEF Init, PP, States
  <2>5. /\ timer \in 0 .. Timeout /\ cfg \in Nat /\ addr \in 0 .. 127
        /\ due \in Nat \cup {Refused} /\ moved \in Nat /\ hAddr \in Nat
        /\ transfers \in 0 .. MaxTransfers /\ faults \in 0 .. MaxFaults
    BY BoundsAssumption DEF Init
  <2> QED BY <1>1, <2>1, <2>2, <2>3, <2>4, <2>5 DEF TypeOK, Table, DataRecord, PipeRecord
<1>3. QueueInv
  <2>1. Len(fifo) = 0 /\ sie["OUT"] = 0 /\ sie["IN"] = 0 /\ inPtr = 0 /\ ~pktdis
    BY DEF Init, Dirs
  <2>2. bd["OUT"][0] = Stalled
    BY ClearIsTable DEF Init, Dirs, PP, Table
  <2>3. bd["IN"] = Clear["IN"]
    BY ClearIsTable DEF Init, Dirs, PP, Table
  <2>4. ~Clear["IN"][1].uown
    BY DEF Clear, Dirs, PP, Idle
  <2> QED
    BY <2>1, <2>2, <2>3, <2>4, Flags
    DEF QueueInv, InSide, SetupIsLast, StatusIsOne, OutSide, Holds
<1> QED
  BY <1>2, <1>3 DEF Inv, QueueInv, Init

LEMMA StepInv == Inv /\ [Next]_vars => Inv'
<1> SUFFICES ASSUME Inv, [Next]_vars PROVE Inv'
  OBVIOUS
<1>1. CASE Next
  BY <1>1, TypeStep, QueueStep, ArmedStep DEF Inv, QueueInv
<1>2. CASE UNCHANGED vars
  <2>1. UNCHANGED <<bd, sie, fifo, pktdis, epstall, outCur, outNext, inPtr, setup, data, pipe,
                    short, cts, bothSet, statusArmed, timer, devState, cfg, addr, stage, req, due,
                    moved, hTog, hAddr, mixed, transfers, faults>>
    BY <1>2 DEF vars, sieVars, ptrs, xfer, dev, host, bounds
  <2>2. TypeOK'
    BY <2>1 DEF Inv, TypeOK
  <2>3. QueueInv'
    BY <2>1, QueueFrame DEF Inv, QueueInv
  <2> QED BY <2>1, <2>2, <2>3 DEF Inv, QueueInv
<1> QED
  BY <1>1, <1>2

LEMMA Invariance == Spec => []Inv
BY InitInv, StepInv, PTL DEF Spec

(* Every variable of endpoint 0 keeps its type.                            *)
THEOREM TypesKept == Spec => []TypeOK
<1>1. Inv => TypeOK
  BY DEF Inv
<1> QED BY <1>1, Invariance, PTL

(* Once everything has been served, the device takes the next SETUP.       *)
THEOREM AlwaysReady == Spec => []ReadyForSetup
<1>1. Inv => ReadyForSetup
  BY DEF Inv, ReadyForSetup, SetupIsLast, OutSide, Holds
<1> QED BY <1>1, Invariance, PTL

(* The firmware's IN pointer lags the SIE's by what it has not served.     *)
THEOREM PointersAgree == Spec => []PointersInStep
<1>1. Inv => PointersInStep
  BY DEF Inv, PointersInStep, InSide, Holds, TypeOK
<1> QED BY <1>1, Invariance, PTL

-----------------------------------------------------------------------------
(***************************************************************************)
(* The transfer itself: why no reply is mixed, and that endpoint 0 takes   *)
(* only the steps of the control pipe.                                     *)
(*                                                                         *)
(* Invariance says which descriptors are armed; TransferInv says what is   *)
(* in them, as a function of what the host is in the middle of.  While a   *)
(* SETUP waits to be served (pktdis) that is nothing yet: the descriptors  *)
(* are those of some earlier transfer, and packets are disabled.           *)
(***************************************************************************)
ReadsReply == req.in /\ req.len > 0
Served == ~pktdis /\ stage \in {"data", "status"}

(* The stage of the host fits its request.                                 *)
RequestFits ==
  /\ stage = "data" => req.len > 0
  /\ stage = "repeat" => due # Refused
  /\ due # Refused => due \in 0 .. req.len

(* A SETUP that waits is the host's request, of which nothing has arrived. *)
SetupIsAsked ==
  pktdis => /\ setup \in Requests /\ req = setup /\ due = Due(setup)
            /\ moved = 0 /\ hTog = 1 /\ stage \in {"data", "status"}

(* A request that nobody knows is stalled in both directions.              *)
RefusalStands ==
  Served /\ due = Refused =>
    fifo = <<>> /\ bd["IN"][sie["IN"]].stall /\ bd["OUT"][sie["OUT"]].stall

(* The OUT descriptor of the status stage stays armed while a reply is     *)
(* read, and it is not the one that the stall interrupt looks at.          *)
StatusIsAwaited ==
  Served /\ ReadsReply /\ due # Refused =>
    /\ ~Holds("OUT") /\ sie["OUT"] = 1 - outCur /\ ~bd["OUT"][sie["OUT"]].stall

(* The status of a transfer without a reply is an empty IN packet.         *)
StatusIsOffered ==
  Served /\ stage = "status" /\ ~ReadsReply /\ due # Refused =>
    /\ fifo = <<>> /\ ~bd["IN"][sie["IN"]].stall
    /\ bd["IN"][sie["IN"]].n = 0 /\ bd["IN"][sie["IN"]].dts = 1

(***************************************************************************)
(* While the host reads, the descriptor of the firmware's pointer holds a  *)
(* packet of the reply to this request.  Either the host has not had it:   *)
(* then it is the next one, with the toggle the host expects.  Or it has,  *)
(* and the SIE may even send it again: then its toggle gives it away, it   *)
(* was a full one, and the pipe stands at the byte the host wants next.    *)
(***************************************************************************)
ReplyGoesOn ==
  ~pktdis /\ stage = "data" /\ req.in /\ due # Refused =>
    LET e == bd["IN"][inPtr] IN
    /\ cts = "TX" /\ data.of = req /\ pipe.of = req
    /\ data.off =< due /\ e.n = NextCount(due - data.off) /\ ~e.stall
    /\ pipe.off = data.off + e.n /\ pipe.left = due - pipe.off
    /\ short = IF e.n < PacketSize THEN "PENDING" ELSE "NOT_USED"
    /\ \/ ~Holds("IN") /\ e.dts = hTog /\ moved = data.off
       \/ e.dts # hTog /\ moved = pipe.off /\ e.n = PacketSize

(* A host that keeps to USB sends data only with requests that exist for   *)
(* it; this firmware takes neither.  One that announced data with, say,    *)
(* SET_IDLE would be refused although the request is known.                *)
WellFormed ==
  \A r \in Requests : ~r.in /\ r.len > 0 => r.name \in {"SET_REPORT", "SET_DESCRIPTOR"}

DataIsRefused == WellFormed /\ stage = "data" /\ ~req.in => due = Refused

TransferInv ==
  /\ RequestFits /\ SetupIsAsked /\ RefusalStands /\ StatusIsAwaited /\ StatusIsOffered
  /\ ReplyGoesOn /\ DataIsRefused /\ ~mixed

-----------------------------------------------------------------------------
LEMMA Counts ==
  ASSUME NEW left \in Nat
  PROVE  /\ NextCount(left) \in Nat /\ NextCount(left) =< left /\ NextCount(left) =< PacketSize
         /\ NextCount(left) < PacketSize => NextCount(left) = left
         /\ NextCount(left) < PacketSize <=> left < PacketSize
         /\ left - NextCount(left) \in Nat
BY PacketSizeAssumption DEF NextCount, Smaller

(* A reply whose first short packet has not been sent.                     *)
LEMMA ShortIsPending ==
  ASSUME NEW left \in Nat
  PROVE  NextShort(left, "NOT_USED")
           = IF NextCount(left) < PacketSize THEN "PENDING" ELSE "NOT_USED"
BY PacketSizeAssumption DEF NextShort, NextCount, Smaller

LEMMA Fields ==
  /\ Stalled.stall = TRUE
  /\ \A t, k : Armed(t, k).dts = t /\ Armed(t, k).n = k /\ Armed(t, k).stall = FALSE
BY DEF Stalled, Armed, Idle

LEMMA EmptyQueue ==
  ASSUME TypeOK', Len(fifo') = 0
  PROVE  fifo' = <<>>
BY DEF TypeOK

(* What a request is answered with depends on the configuration only.      *)
LEMMA DueStays ==
  ASSUME NEW STATE r, setup' = r, cfg' = cfg, devState' = "CONFIGURED" <=> devState = "CONFIGURED"
  PROVE  Due(setup)' = Due(r)
<1>1. Descriptor(setup)' = Descriptor(r)
  BY DEF Descriptor
<1>2. Feature(setup)' = Feature(r)
  BY DEF Feature
<1>3. Hid(setup)' = Hid(r)
  BY DEF Hid
<1>4. Standard(setup)' = Standard(r)
  BY <1>1, <1>2 DEF Standard
<1>5. Answer(setup)' = Answer(r)
  BY <1>3, <1>4 DEF Answer
<1> QED
  BY <1>5 DEF Due

(* What is due of a request fits into what it asks for.                    *)
LEMMA DueFits ==
  ASSUME NEW r \in Requests
  PROVE  /\ Due(r) # Refused => Due(r) \in 0 .. r.len
         /\ WellFormed /\ r.len > 0 /\ ~r.in => Due(r) = Refused
<1>1. r \in Request /\ r.len \in Nat
  BY RequestsAssumption DEF Request
<1>2. Answer(r) \in Nat \cup {Refused}
  BY <1>1, AnswerIsLength
<1>3. Answer(r) # Refused => Smaller(Answer(r), r.len) \in 0 .. r.len
  BY <1>1, <1>2 DEF Smaller
<1>4. ASSUME r.name \in {"SET_REPORT", "SET_DESCRIPTOR"} PROVE Answer(r) = Refused
  <2>1. Standard(r) = Refused
    BY <1>4 DEF Standard
  <2>2. Hid(r) = Refused
    BY <1>4 DEF Hid
  <2> QED BY <2>1, <2>2 DEF Answer
<1> QED
  BY <1>3, <1>4 DEF Due, WellFormed

(* What serving leaves alone of the host.                                  *)
LEMMA HostFrame ==
  ASSUME UNCHANGED <<stage, req, due, moved, hTog, mixed>>, RequestFits, DataIsRefused, ~mixed
  PROVE  RequestFits' /\ DataIsRefused' /\ ~mixed'
BY DEF RequestFits, DataIsRefused

(* The service of a SETUP makes good what TransferInv promises of it.      *)
LEMMA ServeSetupTransfer ==
  ASSUME TypeOK, TypeOK', QueueInv, TransferInv, ServeSetup
  PROVE  TransferInv'
<1> DEFINE cur == Head(fifo).pp
<1>1. pktdis /\ Len(fifo') = 0 /\ cur = 1 - sie["OUT"] /\ sie["IN"] = inPtr
  BY SetupAlone DEF ServeSetup, QueueInv, InSide
<1>2. /\ pktdis' = FALSE /\ outCur' = cur
      /\ UNCHANGED <<sie, inPtr, setup, stage, req, due, moved, hTog, mixed>>
      /\ \/ Answer(setup) = Refused /\ Refusal(Abandoned(cur), 1 - cur, inPtr)
         \/ /\ Answer(setup) # Refused /\ setup.in
            /\ ReadTransfer(Abandoned(cur), cur, 1 - cur, inPtr)
         \/ /\ Answer(setup) # Refused /\ ~setup.in
            /\ NoDataTransfer(Abandoned(cur), cur, 1 - cur, inPtr)
  BY DEF ServeSetup, Serve, host
<1> HIDE DEF cur
<1>3. /\ sie["OUT"] \in PP /\ cur \in PP /\ 1 - cur \in PP /\ cur # 1 - cur /\ 1 - cur = sie["OUT"]
      /\ inPtr \in PP /\ bd \in Table
  <2>1. sie["OUT"] \in PP /\ inPtr \in PP /\ bd \in Table
    BY DEF TypeOK, Dirs, Table
  <2> QED BY <1>1, <2>1 DEF PP
<1>4. Abandoned(cur) \in Table /\ fifo' = <<>>
  BY <1>1, <1>3, AbandonedIsTable, EmptyQueue
<1>5. /\ setup \in Requests /\ req = setup /\ due = Due(setup)
      /\ moved = 0 /\ hTog = 1 /\ stage \in {"data", "status"}
  BY <1>1 DEF TransferInv, SetupIsAsked
<1>6. RequestFits' /\ DataIsRefused' /\ ~mixed' /\ SetupIsAsked'
  BY <1>2, HostFrame DEF TransferInv, SetupIsAsked
<1>7. ~Holds("IN")' /\ ~Holds("OUT")'
  BY <1>1 DEF Holds
<1>8. CASE Answer(setup) = Refused /\ Refusal(Abandoned(cur), 1 - cur, inPtr)
  <2>1. bd'["OUT"][sie["OUT"]].stall /\ bd'["IN"][inPtr].stall /\ due = Refused
    BY <1>3, <1>4, <1>5, <1>8, RefusalTable, Fields DEF Due
  <2> QED
    BY <1>1, <1>2, <1>4, <1>6, <2>1
    DEF TransferInv, RefusalStands, StatusIsAwaited, StatusIsOffered, ReplyGoesOn
<1>9. CASE /\ Answer(setup) # Refused /\ ~setup.in
           /\ NoDataTransfer(Abandoned(cur), cur, 1 - cur, inPtr)
  <2>1. bd'["IN"][inPtr] = Armed(1, 0) /\ due # Refused /\ ~ReadsReply'
    <3>1. Smaller(Answer(setup), setup.len) # Refused
      BY <1>9, AnswerIsLength DEF TypeOK, Request, Smaller, Refused
    <3>2. bd'["IN"][inPtr] = Armed(1, 0)
      BY <1>3, <1>4, <1>9, NoDataTransferTable
    <3> QED BY <1>2, <1>5, <1>9, <3>1, <3>2 DEF Due, ReadsReply
  <2>2. ~bd'["IN"][inPtr].stall /\ bd'["IN"][inPtr].n = 0 /\ bd'["IN"][inPtr].dts = 1
    BY <2>1, Fields
  <2> QED
    BY <1>1, <1>2, <1>4, <1>5, <1>6, <1>9, <2>1, <2>2
    DEF TransferInv, RefusalStands, StatusIsAwaited, StatusIsOffered, ReplyGoesOn
<1>10. CASE /\ Answer(setup) # Refused /\ setup.in
            /\ ReadTransfer(Abandoned(cur), cur, 1 - cur, inPtr)
  <2> DEFINE e == bd'["IN"][inPtr]
  <2>1. due = Smaller(Answer(setup), setup.len) /\ due \in Nat /\ due # Refused
        /\ due =< setup.len /\ setup.len \in Nat
    <3>1. setup \in Request /\ setup.len \in Nat /\ Answer(setup) \in Nat
      BY <1>10, AnswerIsLength DEF TypeOK, Request
    <3>2. due = Smaller(Answer(setup), setup.len)
      BY <1>5, <1>10 DEF Due
    <3> QED BY <3>1, <3>2 DEF Smaller, Refused
  <2>2. e = Armed(1, NextCount(due)) /\ bd'["OUT"][sie["OUT"]] = Armed(0, 0)
    BY <1>3, <1>4, <1>10, <2>1, ReadTransferTable
  <2>3. e.dts = 1 /\ e.n = NextCount(due) /\ ~e.stall /\ ~bd'["OUT"][sie["OUT"]].stall
    BY <2>2, Fields
  <2>4. /\ data' = [of |-> setup, off |-> 0] /\ cts' = "TX"
        /\ pipe' = [of |-> setup, off |-> NextCount(due), left |-> due - NextCount(due)]
        /\ short' = NextShort(due, "NOT_USED")
    BY <1>10, <2>1 DEF ReadTransfer
  <2> HIDE DEF e
  <2>5. /\ NextCount(due) \in Nat /\ due - NextCount(due) \in Nat
        /\ NextCount(due) < PacketSize <=> due < PacketSize
    BY <2>1, Counts
  <2>6. short' = IF e.n < PacketSize THEN "PENDING" ELSE "NOT_USED"
    BY <2>1, <2>3, <2>4, ShortIsPending
  <2>7. due - 0 = due /\ 0 + NextCount(due) = NextCount(due)
    BY <2>1, <2>5
  <2>8. ReplyGoesOn'
    <3>1. /\ cts' = "TX" /\ data'.of = req' /\ pipe'.of = req'
          /\ data'.off = 0 /\ data'.off =< due' /\ e.n = NextCount(due' - data'.off) /\ ~e.stall
          /\ pipe'.off = data'.off + e.n /\ pipe'.left = due' - pipe'.off
      BY <1>2, <1>5, <2>1, <2>3, <2>4, <2>5, <2>7
    <3>2. bd'["IN"][inPtr'] = e
      BY <1>2 DEF e
    <3>3. ~Holds("IN")' /\ e.dts = hTog' /\ moved' = data'.off
      BY <1>2, <1>5, <1>7, <2>3, <3>1
    <3> QED BY <2>6, <3>1, <3>2, <3>3 DEF ReplyGoesOn
  <2>9. StatusIsAwaited'
    <3>1. sie'["OUT"] = 1 - outCur'
      BY <1>2, <1>3
    <3> QED BY <1>2, <1>7, <2>3, <3>1 DEF StatusIsAwaited
  <2>10. StatusIsOffered'
    <3> SUFFICES ASSUME ~ReadsReply'
                 PROVE  /\ fifo' = <<>> /\ ~bd'["IN"][sie'["IN"]].stall
                        /\ bd'["IN"][sie'["IN"]].n = 0 /\ bd'["IN"][sie'["IN"]].dts = 1
      BY DEF StatusIsOffered
    <3>1. setup.len = 0
      BY <1>2, <1>5, <1>10, <2>1 DEF ReadsReply
    <3>2. due = 0
      BY <2>1, <3>1
    <3>3. NextCount(due) = 0
      BY <2>1, <2>5, <3>2, Counts
    <3>4. bd'["IN"][sie'["IN"]] = e
      BY <1>1, <1>2 DEF e
    <3> QED BY <1>4, <2>3, <3>3, <3>4
  <2>11. RefusalStands'
    BY <1>2, <2>1 DEF RefusalStands
  <2> QED BY <1>6, <2>8, <2>9, <2>10, <2>11 DEF TransferInv
<1> QED
  BY <1>2, <1>8, <1>9, <1>10

(* SET_CONFIGURATION has no data stage, and its status is armed at the     *)
(* buffer that the reset pointers name.                                    *)
LEMMA ServeSetConfigurationTransfer ==
  ASSUME TypeOK, TypeOK', QueueInv, TransferInv, ServeSetConfiguration
  PROVE  TransferInv'
<1>1. pktdis /\ Len(fifo') = 0 /\ setup.type = "std" /\ setup.name = "SET_CONFIGURATION"
  BY SetupAlone DEF ServeSetConfiguration, IsStandard
<1>2. NoDataTransfer(Clear, 0, 0, 0) /\ pktdis' = FALSE
      /\ sie' = [d \in Dirs |-> 0] /\ inPtr' = 0
      /\ UNCHANGED <<stage, req, due, moved, hTog, mixed>>
  BY DEF ServeSetConfiguration, Serve, host
<1>3. setup \in Requests /\ req = setup /\ due = Due(setup)
  BY <1>1 DEF TransferInv, SetupIsAsked
<1>4. ~req.in
  BY <1>1, <1>3, RequestsAssumption
<1>5. due # Refused
  <2>1. Answer(setup) = 0
    BY <1>1 DEF Answer, Standard, Refused
  <2>2. setup.len \in Nat
    BY DEF TypeOK, Request
  <2> QED BY <1>3, <2>1, <2>2 DEF Due, Smaller, Refused
<1>6. RequestFits' /\ DataIsRefused' /\ ~mixed' /\ SetupIsAsked'
  BY <1>2, HostFrame DEF TransferInv, SetupIsAsked
<1>7. sie'["IN"] = 0 /\ bd'["IN"][0] = Armed(1, 0) /\ fifo' = <<>>
  BY <1>1, <1>2, ClearIsTable, NoDataTransferTable, EmptyQueue DEF Dirs, PP
<1>8. ~bd'["IN"][0].stall /\ bd'["IN"][0].n = 0 /\ bd'["IN"][0].dts = 1
  BY <1>7, Fields
<1> QED
  BY <1>2, <1>4, <1>5, <1>6, <1>7, <1>8
  DEF TransferInv, RefusalStands, StatusIsAwaited, StatusIsOffered, ReplyGoesOn, ReadsReply

(* An empty OUT packet is served only for a host that is past it.          *)
LEMMA ServeOutTransfer ==
  ASSUME TypeOK, QueueInv, TransferInv, ServeOut
  PROVE  TransferInv'
<1>1. Len(fifo) \in Nat /\ Len(fifo) > 0 /\ fifo[1].dir = "OUT"
  BY ServeOutFacts
<1>2. Holds("OUT") /\ fifo # <<>>
  BY <1>1 DEF Holds, ServeOut, Serve
<1>3. UNCHANGED <<pktdis, setup, cfg, devState, stage, req, due, moved, hTog, mixed>>
  BY DEF ServeOut, Serve, host, dev
<1>4. RequestFits' /\ DataIsRefused' /\ ~mixed'
  BY <1>3, HostFrame DEF TransferInv
<1>5. SetupIsAsked'
  <2>1. Due(setup)' = Due(setup)
    BY <1>3, DueStays
  <2> QED BY <1>3, <2>1 DEF TransferInv, SetupIsAsked
<1>6. ~(Served /\ due = Refused) /\ ~(Served /\ ReadsReply /\ due # Refused)
      /\ ~(Served /\ stage = "status" /\ ~ReadsReply /\ due # Refused)
  BY <1>2 DEF TransferInv, RefusalStands, StatusIsAwaited, StatusIsOffered
<1>7. ~(~pktdis /\ stage = "data" /\ req.in /\ due # Refused)
  BY <1>6 DEF TransferInv, RequestFits, ReadsReply, Served
<1>8. Served' = Served /\ ReadsReply' = ReadsReply
  BY <1>3 DEF Served, ReadsReply
<1> QED
  BY <1>3, <1>4, <1>5, <1>6, <1>7, <1>8
  DEF TransferInv, RefusalStands, StatusIsAwaited, StatusIsOffered, ReplyGoesOn

(* The second packet of a reply and those after it: the firmware goes on   *)
(* where the host is.                                                      *)
LEMMA ServeInTransfer ==
  ASSUME TypeOK, TypeOK', QueueInv, QueueInv', TransferInv, ServeIn
  PROVE  TransferInv'
<1>1. /\ Serve("IN", FALSE) /\ fifo # <<>> /\ inPtr' = 1 - inPtr
      /\ UNCHANGED <<sie, pktdis, outCur, setup, stage, req, due, moved, hTog, mixed>>
  BY DEF ServeIn, Serve, host
<1>2. RequestFits' /\ DataIsRefused' /\ ~mixed'
  BY <1>1, HostFrame DEF TransferInv
<1>3. Holds("IN") /\ sie["IN"] = 1 - inPtr
  <2>1. Len(fifo) \in Nat /\ Len(fifo) > 0 /\ fifo[1].dir = "IN"
    BY <1>1, ServedFacts
  <2>2. Holds("IN")
    BY <2>1 DEF Holds
  <2> QED BY <2>2 DEF QueueInv, InSide
<1>4. ~Holds("IN")'
  <2>1. sie["IN"]' # 1 - inPtr'
    BY <1>1, <1>3 DEF TypeOK, PP
  <2> QED BY <2>1 DEF QueueInv, InSide
<1>5. SetupIsAsked'
  <2>1. cfg' = cfg /\ (devState' = "CONFIGURED" <=> devState = "CONFIGURED")
    BY DEF ServeIn, TakeAddress, dev
  <2>2. Due(setup)' = Due(setup)
    BY <1>1, <2>1, DueStays
  <2> QED BY <1>1, <2>2 DEF TransferInv, SetupIsAsked
<1>6. Served' = Served /\ ReadsReply' = ReadsReply
  BY <1>1 DEF Served, ReadsReply
<1>7. RefusalStands' /\ StatusIsOffered'
  BY <1>1, <1>6 DEF TransferInv, RefusalStands, StatusIsOffered
<1>8. StatusIsAwaited'
  <2>1. Holds("OUT")' => Holds("OUT")
    <3>1. /\ Len(fifo) \in Nat /\ Len(fifo') = Len(fifo) - 1
          /\ \A i \in 1 .. Len(fifo) - 1 : fifo'[i] = fifo[i + 1]
      BY <1>1, ServedFacts
    <3>2. \A i \in 1 .. Len(fifo) - 1 : i + 1 \in 1 .. Len(fifo)
      BY <3>1
    <3> QED BY <3>1, <3>2 DEF Holds
  <2>2. bd'["OUT"] = bd["OUT"]
    BY ServeInTable
  <2> QED BY <1>1, <1>6, <2>1, <2>2 DEF TransferInv, StatusIsAwaited
<1>9. ReplyGoesOn'
  <2> SUFFICES ASSUME ~pktdis, stage = "data", req.in, due # Refused
               PROVE  LET e == bd'["IN"][inPtr'] IN
                      /\ cts' = "TX" /\ data'.of = req /\ pipe'.of = req
                      /\ data'.off =< due /\ e.n = NextCount(due - data'.off) /\ ~e.stall
                      /\ pipe'.off = data'.off + e.n /\ pipe'.left = due - pipe'.off
                      /\ short' = IF e.n < PacketSize THEN "PENDING" ELSE "NOT_USED"
                      /\ e.dts = hTog /\ moved = data'.off
    BY <1>1, <1>4 DEF ReplyGoesOn
  <2> DEFINE old == bd["IN"][inPtr]
             k == NextCount(pipe.left)
  <2>1. /\ cts = "TX" /\ pipe.of = req /\ pipe.left = due - pipe.off
        /\ short = "NOT_USED" /\ old.dts # hTog /\ moved = pipe.off
    <3>1. /\ cts = "TX" /\ pipe.of = req /\ pipe.left = due - pipe.off
          /\ short = IF old.n < PacketSize THEN "PENDING" ELSE "NOT_USED"
          /\ old.dts # hTog /\ moved = pipe.off /\ old.n = PacketSize
      BY <1>3 DEF TransferInv, ReplyGoesOn
    <3> HIDE DEF old
    <3>2. ~(old.n < PacketSize)
      BY <3>1, Numbers
    <3> QED BY <3>1, <3>2
  <2>2. /\ pipe.off \in Nat /\ pipe.left \in Nat /\ due \in Nat /\ pipe.off =< due
        /\ due - pipe.off = pipe.left /\ pipe \in PipeRecord
    BY <2>1 DEF TypeOK, PipeRecord, Refused
  <2>3. old.dts \in PP /\ hTog \in PP
    BY DEF TypeOK, Dirs, Entry
  <2>4. OtherToggle(old.dts) = hTog
    BY <2>1, <2>3 DEF OtherToggle, PP
  <2>5. /\ data' = [of |-> pipe.of, off |-> pipe.off]
        /\ short' = NextShort(pipe.left, short) /\ cts' = cts
        /\ pipe' = [pipe EXCEPT !.off = @ + k, !.left = @ - k]
        /\ bd' = [bd EXCEPT !["IN"][1 - inPtr] =
                     IF short' = "SENT" THEN Stalled ELSE Armed(OtherToggle(old.dts), k)]
    BY <2>1 DEF ServeIn
  <2>6. short' = IF k < PacketSize THEN "PENDING" ELSE "NOT_USED"
    BY <2>1, <2>2, <2>5, ShortIsPending
  <2>7. bd'["IN"][inPtr'] = Armed(hTog, k)
    <3>1. bd' = [bd EXCEPT !["IN"][1 - inPtr] = Armed(hTog, k)]
      BY <2>4, <2>5, <2>6
    <3>2. "IN" \in Dirs /\ 1 - inPtr \in PP /\ bd \in Table
      BY DEF TypeOK, Dirs, PP, Table
    <3> HIDE DEF k
    <3> QED BY <1>1, <3>1, <3>2 DEF Table
  <2>8. /\ bd'["IN"][inPtr'].n = k /\ bd'["IN"][inPtr'].dts = hTog
        /\ ~bd'["IN"][inPtr'].stall
    BY <2>7, Fields
  <2>9. k \in Nat
    BY <2>2, Counts
  <2> HIDE DEF old, k
  <2>10. /\ data'.of = req /\ data'.off = pipe.off /\ pipe'.of = req
         /\ pipe'.off = pipe.off + k /\ pipe'.left = pipe.left - k
    BY <2>1, <2>2, <2>5 DEF PipeRecord
  <2>11. k = NextCount(due - data'.off) /\ pipe.left - k = due - (pipe.off + k)
    BY <2>2, <2>9, <2>10 DEF k
  <2> QED
    BY <2>1, <2>2, <2>5, <2>6, <2>8, <2>10, <2>11
<1> QED
  BY <1>2, <1>5, <1>7, <1>8, <1>9 DEF TransferInv

(* The stall interrupt withdraws the descriptor of a status stage only     *)
(* when the transfer was refused or is over.                               *)
LEMMA StallInterruptTransfer ==
  ASSUME TypeOK, TransferInv, StallInterrupt
  PROVE  TransferInv'
<1>1. UNCHANGED <<sie, fifo, pktdis, outCur, inPtr, setup, data, pipe, short, cts, devState, cfg,
                  stage, req, due, moved, hTog, mixed>>
  BY DEF StallInterrupt, ptrs, xfer, dev, host
<1>2. RequestFits' /\ DataIsRefused' /\ ~mixed'
  BY <1>1, HostFrame DEF TransferInv
<1>3. /\ bd'["IN"] = bd["IN"]
      /\ \A i \in PP : bd'["OUT"][i] = IF i = outCur /\ bd' # bd THEN Stalled ELSE bd["OUT"][i]
  BY DEF StallInterrupt, TypeOK, Dirs
<1>4. sie["OUT"] \in PP /\ outCur \in PP
  BY DEF TypeOK, Dirs
<1>5. SetupIsAsked'
  <2>1. Due(setup)' = Due(setup)
    BY <1>1, DueStays
  <2> QED BY <1>1, <2>1 DEF TransferInv, SetupIsAsked
<1>6. Served' = Served /\ ReadsReply' = ReadsReply /\ Holds("OUT")' = Holds("OUT")
      /\ Holds("IN")' = Holds("IN")
  BY <1>1 DEF Served, ReadsReply, Holds
<1>7. RefusalStands'
  BY <1>1, <1>3, <1>4, <1>6, Fields DEF TransferInv, RefusalStands
<1>8. StatusIsAwaited'
  <2>1. 1 - outCur # outCur
    BY <1>4 DEF PP
  <2> QED BY <1>1, <1>3, <1>4, <1>6, <2>1 DEF TransferInv, StatusIsAwaited
<1>9. StatusIsOffered'
  BY <1>1, <1>3, <1>6 DEF TransferInv, StatusIsOffered
<1>10. ReplyGoesOn'
  BY <1>1, <1>3, <1>6 DEF TransferInv, ReplyGoesOn
<1> QED
  BY <1>2, <1>5, <1>7, <1>8, <1>9, <1>10 DEF TransferInv

LEMMA TransferFrame ==
  ASSUME TransferInv,
         UNCHANGED <<bd, sie, fifo, pktdis, outCur, inPtr, setup, data, pipe, short, cts, devState,
                     cfg, stage, req, due, moved, hTog, mixed>>
  PROVE  TransferInv'
<1>1. RequestFits' /\ DataIsRefused' /\ ~mixed'
  BY HostFrame DEF TransferInv
<1>2. SetupIsAsked'
  <2>1. Due(setup)' = Due(setup)
    BY DueStays
  <2> QED BY <2>1 DEF TransferInv, SetupIsAsked
<1> QED
  BY <1>1, <1>2
  DEF TransferInv, RefusalStands, StatusIsAwaited, StatusIsOffered, ReplyGoesOn, Served,
      ReadsReply, Holds

-----------------------------------------------------------------------------
(* What the host finds when a token of its is answered.                    *)
LEMMA InTokenFacts ==
  ASSUME TypeOK, QueueInv, Reached("IN")
  PROVE  ~pktdis /\ ~Holds("IN") /\ sie["IN"] = inPtr
<1>1. ~pktdis /\ bd["IN"][sie["IN"]].uown
  BY DEF Reached
<1>2. sie["IN"] \in PP /\ inPtr \in PP
  BY DEF TypeOK, Dirs
<1>3. ~Holds("IN")
  BY <1>1, <1>2 DEF QueueInv, InSide, PP
<1> QED
  BY <1>1, <1>3 DEF QueueInv, InSide

(* A packet that the host reads is the next one of its reply, or the one   *)
(* before again.                                                           *)
LEMMA ReadFacts ==
  ASSUME TypeOK, QueueInv, TransferInv, NEW seen \in BOOLEAN, HostReads(seen)
  PROVE  LET e == bd["IN"][inPtr] IN
         /\ ~pktdis /\ stage = "data" /\ req.in /\ due \in Nat /\ due # Refused
         /\ sie["IN"] = inPtr /\ ~Holds("IN")
         /\ req.len \in Nat /\ due =< req.len /\ e.n \in Nat /\ e.n =< PacketSize
         /\ IF e.dts # hTog
              THEN /\ moved = pipe.off /\ e.n = PacketSize
                   /\ UNCHANGED <<stage, req, due, moved, hTog, mixed>>
              ELSE /\ moved = data.off /\ data = [of |-> req, off |-> moved]
                   /\ due - moved \in Nat /\ e.n = NextCount(due - moved)
                   /\ moved' = moved + e.n /\ moved' = pipe.off /\ moved' =< due
                   /\ hTog' = 1 - hTog /\ mixed' = FALSE /\ UNCHANGED <<req, due>>
                   /\ stage' = IF moved' = req.len \/ e.n < PacketSize THEN "status" ELSE "data"
<1> DEFINE e == bd["IN"][inPtr]
<1>1. /\ Reached("IN") /\ stage = "data" /\ req.in /\ ~bd["IN"][sie["IN"]].stall
      /\ UNCHANGED <<req, due>>
  BY DEF HostReads
<1>2. ~pktdis /\ ~Holds("IN") /\ sie["IN"] = inPtr
  BY <1>1, InTokenFacts
<1>3. due # Refused
  BY <1>1, <1>2 DEF TransferInv, RefusalStands, Served
<1>4. due \in Nat /\ req.len \in Nat /\ due =< req.len
  <2>1. due \in Nat /\ req.len \in Nat
    BY <1>3 DEF TypeOK, Request
  <2> QED BY <1>3, <2>1 DEF TransferInv, RequestFits
<1>5. /\ data.of = req /\ data.off =< due /\ e.n = NextCount(due - data.off)
      /\ pipe.off = data.off + e.n /\ pipe.left = due - pipe.off
      /\ \/ e.dts = hTog /\ moved = data.off
         \/ e.dts # hTog /\ moved = pipe.off /\ e.n = PacketSize
  BY <1>1, <1>2, <1>3 DEF TransferInv, ReplyGoesOn
<1>6. /\ data \in DataRecord /\ data.off \in Nat /\ pipe.off \in Nat /\ pipe.left \in Nat
      /\ moved \in Nat
  BY DEF TypeOK, DataRecord
<1>7. due - data.off \in Nat
  BY <1>4, <1>5, <1>6
<1>8. e.n \in Nat /\ e.n =< PacketSize
  BY <1>5, <1>7, Counts
<1>9. pipe.off =< due
  BY <1>4, <1>5, <1>6
<1>a. IF e.dts # hTog THEN UNCHANGED <<stage, moved, hTog, mixed>>
      ELSE /\ hTog' = 1 - hTog
           /\ moved' = moved + e.n
           /\ mixed' = \/ mixed
                       \/ moved' > req.len
                       \/ e.n > 0 /\ data # [of |-> req, off |-> moved]
           /\ stage' = IF moved' >= req.len \/ e.n < PacketSize THEN "status" ELSE "data"
  BY <1>2 DEF HostReads
<1> HIDE DEF e
<1>10. CASE e.dts # hTog
  BY <1>1, <1>2, <1>3, <1>4, <1>5, <1>8, <1>10, <1>a DEF e
<1>11. CASE e.dts = hTog
  <2>1. moved = data.off /\ moved' = pipe.off /\ data = [of |-> req, off |-> moved]
    <3>1. moved = data.off
      BY <1>5, <1>11
    <3>2. data = [of |-> req, off |-> moved]
      BY <1>5, <1>6, <3>1 DEF DataRecord
    <3> QED BY <1>5, <1>11, <1>a, <3>1, <3>2
  <2>2. moved' =< req.len /\ (moved' >= req.len <=> moved' = req.len)
    BY <1>4, <1>6, <1>9, <2>1
  <2>3. mixed' = FALSE
    <3>1. mixed = FALSE
      BY DEF TransferInv, TypeOK
    <3>2. ~(moved' > req.len)
      BY <1>4, <1>6, <2>1, <2>2
    <3> QED BY <1>11, <1>a, <2>1, <3>1, <3>2
  <2> QED
    BY <1>1, <1>2, <1>3, <1>4, <1>5, <1>7, <1>8, <1>9, <1>11, <1>a, <2>1, <2>2, <2>3 DEF e
<1> QED
  BY <1>10, <1>11

(* Taking an IN packet changes neither what the packet was nor OUT.        *)
LEMMA AcknowledgedFacts ==
  ASSUME TypeOK, NEW seen \in BOOLEAN, Acknowledged("IN", seen)
  PROVE  /\ bd'["OUT"] = bd["OUT"] /\ sie'["OUT"] = sie["OUT"]
         /\ \A i \in PP : /\ bd'["IN"][i].dts = bd["IN"][i].dts /\ bd'["IN"][i].n = bd["IN"][i].n
                          /\ bd'["IN"][i].stall = bd["IN"][i].stall
         /\ Holds("OUT")' => Holds("OUT")
<1>1. CASE ~seen
  BY <1>1 DEF Acknowledged, Holds
<1>2. CASE seen
  <2> DEFINE s == sie["IN"]
             x == [bd["IN"][s] EXCEPT !.uown = FALSE, !.isSetup = FALSE]
  <2>1. Completed("IN", FALSE)
    BY <1>2 DEF Acknowledged
  <2>2. /\ Len(fifo) \in Nat /\ Len(fifo') = Len(fifo) + 1
        /\ fifo'[Len(fifo) + 1].dir = "IN"
        /\ \A i \in 1 .. Len(fifo) : fifo'[i] = fifo[i]
        /\ bd'["OUT"] = bd["OUT"] /\ sie'["OUT"] = sie["OUT"]
    BY <2>1, CompletedFacts DEF Dirs
  <2>3. Holds("OUT")' => Holds("OUT")
    <3>1. \A i \in 1 .. Len(fifo) + 1 : i \in 1 .. Len(fifo) \/ i = Len(fifo) + 1
      BY <2>2
    <3> QED BY <2>2, <3>1 DEF Holds
  <2>4. bd["IN"][s] \in Entry /\ s \in PP /\ bd \in Table
    BY DEF TypeOK, Dirs, Table
  <2>5. x.dts = bd["IN"][s].dts /\ x.n = bd["IN"][s].n /\ x.stall = bd["IN"][s].stall
    BY <2>4 DEF Entry
  <2>6. bd' = [bd EXCEPT !["IN"][s] = x]
    BY <2>1 DEF Completed
  <2> HIDE DEF s, x
  <2>7. \A i \in PP : bd'["IN"][i] = IF i = s THEN x ELSE bd["IN"][i]
    BY <2>4, <2>6 DEF Table, Dirs
  <2> QED BY <2>2, <2>3, <2>5, <2>7
<1> QED
  BY <1>1, <1>2

LEMMA HostReadsTransfer ==
  ASSUME TypeOK, QueueInv, TransferInv, NEW seen \in BOOLEAN, HostReads(seen)
  PROVE  TransferInv'
<1> DEFINE e == bd["IN"][inPtr]
<1>1. /\ Acknowledged("IN", seen)
      /\ UNCHANGED <<pktdis, outCur, inPtr, setup, data, pipe, short, cts, req, due>>
  BY DEF HostReads, Untouched, ptrs, xfer
<1>2. /\ ~pktdis /\ stage = "data" /\ req.in /\ due \in Nat /\ due # Refused
      /\ sie["IN"] = inPtr /\ ~Holds("IN")
      /\ req.len \in Nat /\ due =< req.len /\ e.n \in Nat /\ e.n =< PacketSize
      /\ IF e.dts # hTog
           THEN /\ moved = pipe.off /\ e.n = PacketSize
                /\ UNCHANGED <<stage, req, due, moved, hTog, mixed>>
           ELSE /\ moved' = pipe.off /\ hTog' = 1 - hTog /\ mixed' = FALSE
                /\ stage' = IF moved' = req.len \/ e.n < PacketSize THEN "status" ELSE "data"
  BY ReadFacts
<1>3. e.dts \in PP /\ hTog \in PP /\ inPtr \in PP
  BY DEF TypeOK, Dirs, Entry
<1>4. /\ bd'["OUT"] = bd["OUT"] /\ sie'["OUT"] = sie["OUT"]
      /\ bd'["IN"][inPtr].dts = e.dts /\ bd'["IN"][inPtr].n = e.n
      /\ bd'["IN"][inPtr].stall = e.stall /\ (Holds("OUT")' => Holds("OUT"))
  BY <1>1, <1>3, AcknowledgedFacts
<1>5. /\ cts = "TX" /\ data.of = req /\ pipe.of = req
      /\ data.off =< due /\ e.n = NextCount(due - data.off) /\ ~e.stall
      /\ pipe.off = data.off + e.n /\ pipe.left = due - pipe.off
      /\ short = IF e.n < PacketSize THEN "PENDING" ELSE "NOT_USED"
  BY <1>2 DEF TransferInv, ReplyGoesOn
<1> HIDE DEF e
<1>6. stage' \in {"data", "status"} /\ ~mixed' /\ req.len > 0
  BY <1>2 DEF TransferInv, RequestFits
<1>7. RequestFits' /\ DataIsRefused' /\ SetupIsAsked' /\ RefusalStands' /\ StatusIsOffered'
  BY <1>1, <1>2, <1>6
  DEF TransferInv, RequestFits, DataIsRefused, SetupIsAsked, RefusalStands, StatusIsOffered,
      ReadsReply
<1>8. StatusIsAwaited'
  <2>1. ~Holds("OUT") /\ sie["OUT"] = 1 - outCur /\ ~bd["OUT"][sie["OUT"]].stall
    BY <1>2, <1>6 DEF TransferInv, StatusIsAwaited, Served, ReadsReply
  <2> QED BY <1>1, <1>4, <2>1 DEF StatusIsAwaited
<1>9. ReplyGoesOn'
  <2>1. stage' = "data" => e.dts # hTog' /\ moved' = pipe.off /\ e.n = PacketSize
    <3>1. CASE e.dts # hTog
      BY <1>2, <3>1
    <3>2. CASE e.dts = hTog
      <4>1. e.dts # 1 - hTog
        BY <1>3, <3>2 DEF PP
      <4>a. e.n \in Nat /\ e.n =< PacketSize
        BY <1>2
      <4>b. PacketSize \in Nat
        BY Numbers
      <4>2. ~(e.n < PacketSize) => e.n = PacketSize
        BY <4>a, <4>b
      <4> QED BY <1>2, <3>2, <4>1, <4>2
    <3> QED BY <3>1, <3>2
  <2> QED BY <1>1, <1>4, <1>5, <2>1 DEF ReplyGoesOn
<1> QED
  BY <1>6, <1>7, <1>8, <1>9 DEF TransferInv

LEMMA HostReadsStatusTransfer ==
  ASSUME TypeOK, QueueInv, TransferInv, NEW seen \in BOOLEAN, HostReadsStatus(seen)
  PROVE  TransferInv' /\ due # Refused /\ ~pktdis
<1>1. /\ Reached("IN") /\ stage = "status" /\ ~ReadsReply /\ ~bd["IN"][sie["IN"]].stall
      /\ stage' = "done" /\ UNCHANGED <<pktdis, req, due>>
      /\ mixed' = (mixed \/ bd["IN"][sie["IN"]].n > 0 \/ bd["IN"][sie["IN"]].dts # 1)
  BY DEF HostReadsStatus, ReadsReply
<1>2. ~pktdis
  BY <1>1 DEF Reached
<1>3. due # Refused
  BY <1>1, <1>2 DEF TransferInv, RefusalStands, Served
<1>4. bd["IN"][sie["IN"]].n = 0 /\ bd["IN"][sie["IN"]].dts = 1
  BY <1>1, <1>2, <1>3 DEF TransferInv, StatusIsOffered, Served
<1>5. ~mixed'
  <2>1. ~(bd["IN"][sie["IN"]].n > 0)
    BY <1>4
  <2> QED BY <1>1, <1>4, <2>1 DEF TransferInv
<1> QED
  BY <1>1, <1>2, <1>3, <1>5
  DEF TransferInv, RequestFits, DataIsRefused, SetupIsAsked, RefusalStands, StatusIsAwaited,
      StatusIsOffered, ReplyGoesOn, Served

LEMMA HostSendsStatusTransfer ==
  ASSUME TransferInv, NEW seen \in BOOLEAN, HostSendsStatus(seen)
  PROVE  TransferInv' /\ due # Refused
<1>1. /\ Reached("OUT") /\ stage \in {"status", "repeat"} /\ ~bd["OUT"][sie["OUT"]].stall
      /\ stage' \in {"done", "repeat"} /\ UNCHANGED <<pktdis, req, due, mixed>>
  BY DEF HostSendsStatus
<1>2. ~pktdis
  BY <1>1 DEF Reached
<1>3. due # Refused
  BY <1>1, <1>2 DEF TransferInv, RefusalStands, RequestFits, Served
<1> QED
  BY <1>1, <1>2, <1>3
  DEF TransferInv, RequestFits, DataIsRefused, SetupIsAsked, RefusalStands, StatusIsAwaited,
      StatusIsOffered, ReplyGoesOn, Served

LEMMA HostSetupTransfer ==
  ASSUME TransferInv, NEW r \in Requests, HostSetup(r)
  PROVE  TransferInv'
<1>1. /\ pktdis' = TRUE /\ setup' = r /\ req' = r /\ due' = Due(r) /\ moved' = 0 /\ hTog' = 1
      /\ stage' = (IF r.len > 0 THEN "data" ELSE "status")
      /\ UNCHANGED <<devState, cfg, mixed>>
  BY DEF HostSetup, Untouched, dev
<1>2. Due(setup)' = Due(r)
  BY <1>1, DueStays
<1> QED
  BY <1>1, <1>2, DueFits
  DEF TransferInv, RequestFits, DataIsRefused, SetupIsAsked, RefusalStands, StatusIsAwaited,
      StatusIsOffered, ReplyGoesOn, Served

LEMMA HostStopsReadingTransfer ==
  ASSUME TransferInv, HostStopsReading
  PROVE  TransferInv'
<1>1. stage = "data" /\ req.in /\ stage' = "status" /\ Untaken
  BY DEF HostStopsReading, Untaken
<1>2. UNCHANGED <<bd, sie, fifo, pktdis, outCur, inPtr, setup, devState, cfg, req, due, moved,
                  hTog, mixed>>
  BY <1>1, UntakenFrame
<1>3. SetupIsAsked'
  <2>1. Due(setup)' = Due(setup)
    BY <1>2, DueStays
  <2> QED BY <1>1, <1>2, <2>1 DEF TransferInv, SetupIsAsked
<1> QED
  BY <1>1, <1>2, <1>3
  DEF TransferInv, RequestFits, DataIsRefused, RefusalStands, StatusIsAwaited,
      StatusIsOffered, ReplyGoesOn, Served, ReadsReply, Holds

(* Only a request that is refused is stalled, or a repeated status.        *)
LEMMA HostIsStalledTransfer ==
  ASSUME TypeOK, QueueInv, TransferInv, HostIsStalled
  PROVE  /\ TransferInv' /\ stage \in {"data", "status", "repeat"} /\ stage' = "failed"
         /\ UNCHANGED <<req, due, moved>>
         /\ WellFormed => due = Refused \/ stage = "repeat"
<1>1. /\ stage' = "failed" /\ UNCHANGED <<pktdis, req, due, moved, mixed>>
      /\ stage \in {"data", "status", "repeat"} /\ ~pktdis
  BY DEF HostIsStalled, Stall, Reached
<1>2. TransferInv'
  BY <1>1
  DEF TransferInv, RequestFits, DataIsRefused, SetupIsAsked, RefusalStands, StatusIsAwaited,
      StatusIsOffered, ReplyGoesOn, Served
<1>3. ASSUME WellFormed, due # Refused, stage # "repeat"
      PROVE  FALSE
  <2>1. CASE stage = "data" /\ req.in /\ Reached("IN") /\ bd["IN"][sie["IN"]].stall
    BY <1>1, <1>3, <2>1, InTokenFacts DEF TransferInv, ReplyGoesOn
  <2>2. CASE /\ stage = "status" /\ ~ReadsReply /\ Reached("IN")
             /\ bd["IN"][sie["IN"]].stall
    BY <1>1, <1>3, <2>2 DEF TransferInv, StatusIsOffered, Served
  <2>3. CASE stage = "data" /\ ~req.in
    BY <1>3, <2>3 DEF TransferInv, DataIsRefused
  <2>4. CASE stage = "status" /\ ReadsReply /\ bd["OUT"][sie["OUT"]].stall
    BY <1>1, <1>3, <2>4 DEF TransferInv, StatusIsAwaited, Served
  <2> QED BY <1>3, <2>1, <2>2, <2>3, <2>4 DEF HostIsStalled, ReadsReply
<1> QED
  BY <1>1, <1>2, <1>3

LEMMA BusResetTransfer ==
  ASSUME TransferInv, BusReset
  PROVE  TransferInv'
<1>1. stage' = "idle" /\ req' = NoRequest /\ due' = 0 /\ pktdis' = FALSE /\ mixed' = mixed
  BY DEF BusReset, AfterReset
<1>2. req'.len = 0
  BY <1>1 DEF NoRequest
<1> QED
  BY <1>1, <1>2
  DEF TransferInv, RequestFits, DataIsRefused, SetupIsAsked, RefusalStands, StatusIsAwaited,
      StatusIsOffered, ReplyGoesOn, Served

LEMMA TransferStep ==
  ASSUME Inv, Inv', TransferInv, Next
  PROVE  TransferInv'
<1>1. TypeOK /\ TypeOK' /\ QueueInv /\ QueueInv' /\ statusArmed
  BY DEF Inv, QueueInv
<1>2. CASE StartOfFrame
  <2>1. UNCHANGED <<bd, sie, fifo, pktdis, outCur, inPtr, setup, data, pipe, short, cts, devState,
                    cfg, stage, req, due, moved, hTog, mixed>>
    BY <1>1, <1>2 DEF StartOfFrame, sieVars, ptrs, dev, host
  <2> QED BY <2>1, TransferFrame
<1> QED
  BY <1>1, <1>2, ServeSetupTransfer, ServeSetConfigurationTransfer, ServeOutTransfer,
     ServeInTransfer, StallInterruptTransfer, HostSetupTransfer, HostReadsTransfer,
     HostReadsStatusTransfer, HostSendsStatusTransfer, HostStopsReadingTransfer,
     HostIsStalledTransfer, BusResetTransfer
  DEF Next

LEMMA TransferInit == Init => TransferInv
<1> SUFFICES ASSUME Init PROVE TransferInv
  OBVIOUS
<1>1. stage = "idle" /\ req = NoRequest /\ due = 0 /\ pktdis = FALSE /\ mixed = FALSE
  BY DEF Init
<1>2. req.len = 0
  BY <1>1 DEF NoRequest
<1> QED
  BY <1>1, <1>2
  DEF TransferInv, RequestFits, DataIsRefused, SetupIsAsked, RefusalStands, StatusIsAwaited,
      StatusIsOffered, ReplyGoesOn, Served

LEMMA TransferInvariance == Spec => [](Inv /\ TransferInv)
<1>1. Init => Inv /\ TransferInv
  BY InitInv, TransferInit
<1>2. Inv /\ TransferInv /\ [Next]_vars => (Inv /\ TransferInv)'
  <2> SUFFICES ASSUME Inv, TransferInv, [Next]_vars PROVE Inv' /\ TransferInv'
    OBVIOUS
  <2>1. Inv'
    BY StepInv
  <2>2. CASE Next
    BY <2>1, <2>2, TransferStep
  <2>3. CASE UNCHANGED vars
    <3>1. UNCHANGED <<bd, sie, fifo, pktdis, outCur, inPtr, setup, data, pipe, short, cts,
                      devState, cfg, stage, req, due, moved, hTog, mixed>>
      BY <2>3 DEF vars, sieVars, ptrs, xfer, dev, host
    <3> QED BY <2>1, <3>1, TransferFrame
  <2> QED BY <2>1, <2>2, <2>3
<1> QED
  BY <1>1, <1>2, PTL DEF Spec

(* No host ever reads a byte that is not the next one of the reply to its  *)
(* own request (usb_device.c:1627, 2618).                                  *)
THEOREM NoReplyMixed == Spec => []NothingMixed
<1>1. TransferInv => NothingMixed
  BY DEF TransferInv, NothingMixed
<1> QED BY <1>1, TransferInvariance, PTL

-----------------------------------------------------------------------------
(***************************************************************************)
(* The control pipe.  A step of the host on which the transfer moves is    *)
(* the step of ControlPipe with its name there; all others are stutters.   *)
(***************************************************************************)
LEMMA ReadIsReceive ==
  ASSUME TypeOK, QueueInv, TransferInv, NEW seen \in BOOLEAN, HostReads(seen)
  PROVE  Pipe!Receive \/ UNCHANGED <<stage, req, due, moved>>
<1> DEFINE e == bd["IN"][inPtr]
<1>1. /\ stage = "data" /\ due # Refused
      /\ IF e.dts # hTog THEN UNCHANGED <<stage, req, due, moved>>
         ELSE /\ e.n = NextCount(due - moved) /\ moved' = moved + e.n /\ UNCHANGED <<req, due>>
              /\ stage' = IF moved' = req.len \/ e.n < PacketSize THEN "status" ELSE "data"
  BY ReadFacts
<1>2. NextCount(due - moved) = Pipe!Smaller(PacketSize, due - moved)
  BY DEF NextCount, Smaller, Pipe!Smaller
<1> HIDE DEF e
<1>3. CASE e.dts # hTog
  BY <1>1, <1>3
<1>4. CASE e.dts = hTog
  BY <1>1, <1>2, <1>4 DEF Pipe!Receive, Pipe!Refused, Refused
<1> QED
  BY <1>3, <1>4

LEMMA PipeStep ==
  ASSUME WellFormed, Inv, TransferInv, [Next]_vars
  PROVE  [Pipe!Next]_(Pipe!vars)
<1>1. TypeOK /\ QueueInv
  BY DEF Inv, QueueInv
<1>2. CASE ServeSetup \/ ServeSetConfiguration \/ ServeOut \/ ServeIn \/ StartOfFrame
           \/ StallInterrupt \/ UNCHANGED vars
  BY <1>2
  DEF ServeSetup, ServeSetConfiguration, ServeOut, ServeIn, Serve, StartOfFrame, StallInterrupt,
      vars, host, Pipe!vars
<1>3. ASSUME NEW r \in Requests, HostSetup(r)
      PROVE  Pipe!Next
  <2>1. /\ req' = r /\ moved' = 0 /\ due' = Due(r)
        /\ stage' = IF r.len > 0 THEN "data" ELSE "status"
    BY <1>3 DEF HostSetup
  <2>2. due' \in 0 .. r.len \cup {Pipe!Refused}
    BY <2>1, DueFits DEF Pipe!Refused, Refused
  <2>3. Pipe!Setup
    BY <2>1, <2>2 DEF Pipe!Setup
  <2> QED BY <2>3 DEF Pipe!Next
<1>4. ASSUME NEW seen \in BOOLEAN, HostReads(seen)
      PROVE  [Pipe!Next]_(Pipe!vars)
  BY <1>1, <1>4, ReadIsReceive DEF Pipe!Next, Pipe!Answer, Pipe!vars
<1>5. ASSUME NEW seen \in BOOLEAN, HostReadsStatus(seen)
      PROVE  Pipe!Next
  <2>1. due # Refused
    BY <1>1, <1>5, HostReadsStatusTransfer
  <2>2. Pipe!Complete
    BY <1>5, <2>1 DEF HostReadsStatus, Pipe!Complete, Pipe!Refused, Refused
  <2> QED BY <2>2 DEF Pipe!Next, Pipe!Answer
<1>6. ASSUME NEW seen \in BOOLEAN, HostSendsStatus(seen)
      PROVE  [Pipe!Next]_(Pipe!vars)
  <2>1. due # Refused
    BY <1>6, HostSendsStatusTransfer
  <2>2. /\ stage \in {"status", "repeat"} /\ UNCHANGED <<req, due, moved>>
        /\ stage' = IF seen THEN "done" ELSE "repeat"
    BY <1>6 DEF HostSendsStatus
  <2>3. CASE seen
    BY <2>1, <2>2, <2>3 DEF Pipe!Complete, Pipe!Refused, Refused, Pipe!Next, Pipe!Answer
  <2>4. CASE ~seen /\ stage = "status"
    BY <2>1, <2>2, <2>4 DEF Pipe!LoseStatus, Pipe!Refused, Refused, Pipe!Next
  <2>5. CASE ~seen /\ stage = "repeat"
    BY <2>2, <2>5 DEF Pipe!vars
  <2> QED BY <2>2, <2>3, <2>4, <2>5
<1>7. CASE HostStopsReading
  <2>1. Pipe!StopEarly
    BY <1>7 DEF HostStopsReading, Pipe!StopEarly
  <2> QED BY <2>1 DEF Pipe!Next
<1>8. CASE HostIsStalled
  <2>1. /\ stage \in {"data", "status", "repeat"} /\ stage' = "failed"
        /\ UNCHANGED <<req, due, moved>> /\ (due = Refused \/ stage = "repeat")
    BY <1>1, <1>8, HostIsStalledTransfer
  <2>2. Pipe!Refuse
    BY <2>1 DEF Pipe!Refuse, Pipe!Open, Pipe!Refused, Refused
  <2> QED BY <2>2 DEF Pipe!Next, Pipe!Answer
<1>9. CASE BusReset
  BY <1>9 DEF BusReset, Pipe!Reset, Pipe!Next
<1> QED
  BY <1>2, <1>3, <1>4, <1>5, <1>6, <1>7, <1>8, <1>9 DEF Next

(* Endpoint 0 takes only the steps of the control pipe: for a host that    *)
(* announces data only with a request made for it, every transfer of any   *)
(* requests goes as ControlPipe says, whatever is lost, given up or reset. *)
(* That a transfer ends (the fairness of ControlPipe) is left to the run.  *)
THEOREM ImplementsControlPipe ==
  ASSUME WellFormed
  PROVE  Spec => Pipe!Init /\ [][Pipe!Next]_(Pipe!vars)
<1>1. Init => Pipe!Init
  BY DEF Init, Pipe!Init
<1>2. Inv /\ TransferInv /\ [Next]_vars => [Pipe!Next]_(Pipe!vars)
  BY PipeStep
<1> QED BY <1>1, <1>2, TransferInvariance, PTL DEF Spec

-----------------------------------------------------------------------------
(***************************************************************************)
(* The address.  From the service of a SET_ADDRESS on, SetupPkt is the     *)
(* host's request until the host asks for something else; the host can do  *)
(* so only at an address that reaches the device, and then it is no longer *)
(* done with its SET_ADDRESS.                                              *)
(***************************************************************************)
AsksAddress == req.type = "std" /\ req.name = "SET_ADDRESS"

AddressInv ==
  /\ AsksAddress => ~req.in /\ req.len = 0
  /\ AsksAddress /\ stage = "status" /\ ~pktdis =>
       devState = "ADR_PENDING" /\ setup = req
  /\ AsksAddress /\ stage = "done" =>
       /\ hAddr = req.val
       /\ IF devState = "ADR_PENDING" THEN setup = req ELSE addr = hAddr % 128

(* While the host waits for the status there is nothing to serve.          *)
LEMMA NothingToServe ==
  ASSUME TransferInv, AddressInv, AsksAddress, stage = "status", ~pktdis
  PROVE  fifo = <<>>
<1>1. ~ReadsReply /\ Served
  BY DEF AddressInv, ReadsReply, Served
<1> QED
  BY <1>1 DEF TransferInv, RefusalStands, StatusIsOffered

LEMMA AddressServed ==
  ASSUME TypeOK, QueueInv, TransferInv, AddressInv,
         ServeSetup \/ ServeSetConfiguration \/ ServeOut \/ ServeIn
  PROVE  AddressInv'
<1>1. fifo # <<>> /\ UNCHANGED <<stage, req, hAddr>>
  BY DEF ServeSetup, ServeSetConfiguration, ServeOut, ServeIn, Serve, host
<1>2. AsksAddress /\ stage = "status" => pktdis
  BY <1>1, NothingToServe
<1>3. CASE ServeSetup \/ ServeSetConfiguration
  <2>1. pktdis /\ UNCHANGED setup
    BY <1>3, SetupAlone DEF ServeSetup, ServeSetConfiguration
  <2>2. req = setup /\ stage \in {"data", "status"}
    BY <2>1 DEF TransferInv, SetupIsAsked
  <2>3. AsksAddress => devState' = "ADR_PENDING"
    BY <1>3, <2>2 DEF ServeSetup, ServeSetConfiguration, IsStandard, AsksAddress
  <2> QED BY <1>1, <2>1, <2>2, <2>3 DEF AddressInv, AsksAddress
<1>4. CASE ServeOut
  <2>1. UNCHANGED <<pktdis, setup, devState, addr>>
    BY <1>4 DEF ServeOut, dev
  <2> QED BY <1>1, <2>1 DEF AddressInv, AsksAddress
<1>5. CASE ServeIn
  <2>1. UNCHANGED <<pktdis, setup>> /\ TakeAddress
    BY <1>5 DEF ServeIn
  <2>2. CASE devState = "ADR_PENDING"
    <3>1. addr' = setup.val % 128 /\ devState' \in {"ADDRESS", "DEFAULT"}
      BY <2>1, <2>2 DEF TakeAddress
    <3> QED BY <1>1, <1>2, <2>1, <2>2, <3>1 DEF AddressInv, AsksAddress
  <2>3. CASE devState # "ADR_PENDING"
    <3>1. UNCHANGED <<devState, addr>>
      BY <2>1, <2>3 DEF TakeAddress, dev
    <3> QED BY <1>1, <2>1, <3>1 DEF AddressInv, AsksAddress
  <2> QED BY <2>2, <2>3
<1> QED
  BY <1>3, <1>4, <1>5

LEMMA AddressStep ==
  ASSUME TypeOK, QueueInv, TransferInv, AddressInv, [Next]_vars
  PROVE  AddressInv'
<1>1. CASE ServeSetup \/ ServeSetConfiguration \/ ServeOut \/ ServeIn
  BY <1>1, AddressServed
<1>2. CASE StartOfFrame \/ StallInterrupt \/ UNCHANGED vars
  <2>1. UNCHANGED <<pktdis, setup, devState, addr, stage, req, hAddr>>
    BY <1>2 DEF StartOfFrame, StallInterrupt, vars, sieVars, dev, host
  <2> QED BY <2>1 DEF AddressInv, AsksAddress
<1>3. ASSUME NEW r \in Requests, HostSetup(r)
      PROVE  AddressInv'
  <2>1. req' = r /\ pktdis' = TRUE /\ stage' \in {"data", "status"}
    BY <1>3 DEF HostSetup
  <2>2. r.name = "SET_ADDRESS" => ~r.in /\ r.len = 0
    BY RequestsAssumption DEF Request
  <2> QED BY <2>1, <2>2 DEF AddressInv, AsksAddress
<1>4. ASSUME NEW seen \in BOOLEAN, HostReads(seen) \/ HostSendsStatus(seen)
      PROVE  AddressInv'
  <2>1. req.in /\ req' = req
    BY <1>4 DEF HostReads, HostSendsStatus
  <2> QED BY <2>1 DEF AddressInv, AsksAddress
<1>5. ASSUME NEW seen \in BOOLEAN, HostReadsStatus(seen)
      PROVE  AddressInv'
  <2>1. /\ stage = "status" /\ stage' = "done" /\ ~pktdis
        /\ UNCHANGED <<pktdis, setup, devState, addr, req>>
        /\ req.name = "SET_ADDRESS" => hAddr' = req.val
    BY <1>5 DEF HostReadsStatus, Reached, dev
  <2> QED BY <2>1 DEF AddressInv, AsksAddress
<1>6. CASE HostStopsReading
  <2>1. req.in /\ req' = req
    BY <1>6 DEF HostStopsReading
  <2> QED BY <2>1 DEF AddressInv, AsksAddress
<1>7. CASE HostIsStalled
  <2>1. stage' = "failed" /\ req' = req
    BY <1>7 DEF HostIsStalled, Stall
  <2> QED BY <2>1 DEF AddressInv, AsksAddress
<1>8. CASE BusReset
  <2>1. stage' = "idle" /\ req' = NoRequest
    BY <1>8 DEF BusReset
  <2> QED BY <2>1 DEF AddressInv, AsksAddress, NoRequest
<1> QED
  BY <1>1, <1>2, <1>3, <1>4, <1>5, <1>6, <1>7, <1>8 DEF Next

(* For any host: when the SET_ADDRESS it has made is over and the device   *)
(* has taken an address, both mean the same one.  The service reads it     *)
(* from SetupPkt (usb_device.c:2604-2616), which no other SETUP can have   *)
(* overwritten by then: the host that asks for something else first has    *)
(* given its SET_ADDRESS up, and of that case the theorem says nothing.    *)
THEOREM AddressIsAgreed == Spec => []AddressesAgree
<1>1. Init => AddressInv
  BY DEF Init, AddressInv, AsksAddress, NoRequest
<1>2. Inv => TypeOK /\ QueueInv
  BY DEF Inv, QueueInv
<1>3. Inv /\ TransferInv /\ AddressInv /\ [Next]_vars => AddressInv'
  BY <1>2, AddressStep
<1>4. AddressInv => AddressesAgree
  BY DEF AddressInv, AsksAddress, AddressesAgree
<1> QED BY <1>1, <1>3, <1>4, TransferInvariance, PTL DEF Spec
=============================================================================
