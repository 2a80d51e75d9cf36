------------------------ MODULE RfgenFirmwareProofs ------------------------
(***************************************************************************)
(* The safety properties of RfgenFirmware, for any number of registers,    *)
(* packets and bus events and any set of commands.  Inv is inductive: it   *)
(* says where the main loop, the SIE and the host stand on each endpoint   *)
(* at every point of a poll, not only where a transfer is complete.        *)
(***************************************************************************)
EXTENDS RfgenFirmware, TLAPS

(* The main loop only goes past its first test when it found the device    *)
(* configured; xdir is set for IN only on the way to send a reply.         *)
Polling == pc \in Top \cup Handler => xdir = "OUT"

(* UEP1 says what USBDeviceState says. *)
EnabledIsConfigured == uep1 <=> devState = "CONFIGURED"

(* Pointers are descriptors whenever the main loop may use them ... *)
PointersSet ==
  devState = "CONFIGURED" \/ (devState \in {"ADR_PENDING", "ADDRESS"} /\ pc # "state") =>
    /\ \A d \in Dirs : pBDT[d] \in PP
    /\ pc = "write" => next \in PP

(* ... and one that a reset made meaningless is never loaded. *)
WildIsDead ==
  \A d \in Dirs : pBDT[d] = WILD =>
    \/ pc = "state" \/ (pc = "store" /\ xdir = d)
    \/ d = "IN" /\ xdir = "OUT" /\ pc \in Transfer

Arming(d) == pc \in {"arm", "toggle", "write", "store"} /\ xdir = d

(* The half of EndpointInStep that holds at every point: the host's data   *)
(* toggle, and only the descriptor the SIE looks at is ever armed.         *)
TogglesAgree(d) ==
  LET s == sie[d] IN
  /\ ~bd[d][1 - s].uown
  /\ bd[d][s].dts = hostTog[d] /\ bd[d][1 - s].dts = 1 - hostTog[d]

(* The other half, at every point of USBTransferOnePacket. *)
PointersAgree(d) ==
  LET s == sie[d] IN
  /\ ~Arming(d) => IF Live(d, s) THEN pBDT[d] = 1 - s /\ handle[d] = s ELSE pBDT[d] = s
  /\ pc = "load" /\ xdir = d => ~Live(d, s)
  /\ pc = "arm" /\ xdir = d => ~Live(d, s) /\ h = s /\ pBDT[d] = s
  /\ pc \in {"toggle", "write"} /\ xdir = d =>
       /\ pBDT[d] = h
       /\ IF bd[d][s].uown THEN h = s /\ ~bd[d][s].stall ELSE h = 1 - s
  /\ pc = "write" /\ xdir = d => next = 1 - h
  /\ pc = "store" /\ xdir = d =>
       h \in PP /\ IF Live(d, s) THEN pBDT[d] = 1 - s /\ h = s ELSE pBDT[d] = s

EndpointsAgree == Operational => \A d \in Dirs : TogglesAgree(d) /\ PointersAgree(d)

(* From the test of the OUT handle to the store that arms OUT again. *)
Handling == pc \in Handler \/ (pc \in Transfer /\ xdir = "IN") \/ pc \in {"load", "arm"}

BufferHeld == Operational /\ (Handling \/ fresh) => ~Live("OUT", sie["OUT"])
FreshIsSeen ==
  Operational /\ fresh =>
    /\ Handling => pc = "switch"
    /\ pc \in Top => handle["OUT"] = 1 - sie["OUT"]
    /\ pc \in {"toggle", "write", "store"} => h = 1 - sie["OUT"]

(* A handled packet leaves OUT armed, unless a bus event took it back. *)
QuietIsArmed ==
  quiet /\ ~disturbed =>
    /\ devState = "CONFIGURED"
    /\ pc = "switch" => fresh
    /\ ~Handling /\ ~fresh => Live("OUT", sie["OUT"])

SettingMoves ==
  /\ pc \notin {"copyin", "latch"} => idx = 0
  /\ lastSet # Mixed =>
       /\ pc = "copyin" => /\ rxBuf.id = lastSet /\ ~disturbed
                           /\ \A i \in 0 .. idx - 1 : reg[i] = lastSet
       /\ pc # "copyin" => \A i \in 0 .. NumRegs - 1 : reg[i] = lastSet
       /\ pc = "latch" => \A i \in idx + 1 .. NumRegs - 1 : chip[i] = lastSet
       /\ pc \notin {"copyin", "latch"} => \A i \in 0 .. NumRegs - 1 : chip[i] = lastSet

(* While an IN packet is on the bus its descriptor is armed; the header of *)
(* the buffer goes out first.                                              *)
ReadingIsLive ==
  reading # NoBytes => /\ uep1 /\ ~suspended /\ Live("IN", sie["IN"])
                       /\ reading.hdr # NotRead

(* A reply being written is not yet due; one that was written in full      *)
(* before the SIE read any of the buffer goes out whole.                   *)
Replying == pc \in {"hdr", "body", "txbusy"} \/ (pc \in {"load", "arm"} /\ xdir = "IN")
Due(reply)     == reply.hdr.id = lastReq /\ reply.body.id = lastReq
PartOf(pieces) == \A piece \in {pieces.hdr, pieces.body} : piece.id \in {NotRead.id, lastReq}

ReplyMoves ==
  Operational /\ lastReq # 0 =>
    /\ Replying => /\ rxBuf.id = lastReq
                   /\ pc # "hdr" => txBuf.hdr.id = lastReq
                   /\ pc \notin {"hdr", "body"} => txBuf.body.id = lastReq
    /\ ~Replying /\ ~overtaken /\ ~bd["IN"][sie["IN"]].stall =>
         IF Live("IN", sie["IN"]) THEN Due(txBuf) /\ PartOf(reading) ELSE Due(got)

Inv ==
  /\ TypeOK /\ Polling /\ EnabledIsConfigured /\ PointersSet /\ WildIsDead
  /\ EndpointsAgree /\ BufferHeld /\ FreshIsSeen /\ QuietIsArmed
  /\ SettingMoves /\ ReadingIsLive /\ ReplyMoves

-----------------------------------------------------------------------------
(***************************************************************************)
(* The data the steps move.                                                *)
(***************************************************************************)
LEMMA NoBDFields == NoBD \in Entry /\ ~NoBD.uown /\ NoBD.dts = 0 /\ ~NoBD.stall
  BY DEF NoBD, Entry, PP

LEMMA ClearedDescriptors ==
  /\ ClearedBDT \in Descriptors
  /\ \A d \in Dirs, i \in PP : ClearedBDT[d][i] = NoBD
<1>1. ClearedBDT \in Descriptors
  BY NoBDFields DEF Descriptors, ClearedBDT
<1> QED
  BY <1>1 DEF ClearedBDT

LEMMA ArmEffect ==
  ASSUME TypeOK, ArmBD
  PROVE  /\ bd' \in Descriptors /\ h \in PP
         /\ bd'[xdir][h].uown /\ ~bd'[xdir][h].stall /\ bd'[xdir][h].dts = bd[xdir][h].dts
         /\ \A d \in Dirs, i \in PP : d # xdir \/ i # h => bd'[d][i] = bd[d][i]
<1> DEFINE e == [bd[xdir][h] EXCEPT !.uown = TRUE, !.stall = FALSE]
<1>1. bd \in Descriptors /\ xdir \in Dirs /\ h \in PP
  BY DEF TypeOK, ArmBD, At
<1>2. bd[xdir][h] \in Entry
  BY <1>1 DEF Descriptors
<1>3. e \in Entry /\ e.uown /\ ~e.stall /\ e.dts = bd[xdir][h].dts
  BY <1>2 DEF Entry
<1>4. bd' = [bd EXCEPT ![xdir][h] = e]
  BY DEF ArmBD
<1> HIDE DEF e
<1>5. /\ bd' \in Descriptors
      /\ \A d \in Dirs, i \in PP : bd'[d][i] = IF d = xdir /\ i = h THEN e ELSE bd[d][i]
  BY <1>1, <1>3, <1>4 DEF Descriptors
<1> QED
  BY <1>1, <1>3, <1>5

LEMMA MoveEffect ==
  ASSUME TypeOK, NEW d \in Dirs, Moved(d)
  PROVE  /\ bd' \in Descriptors /\ sie' \in [Dirs -> PP] /\ hostTog' \in [Dirs -> PP]
         /\ sie'[d] = 1 - sie[d] /\ hostTog'[d] = 1 - hostTog[d]
         /\ ~bd'[d][sie[d]].uown /\ bd'[d][sie[d]].dts = bd[d][sie[d]].dts
         /\ bd'[d][1 - sie[d]] = bd[d][1 - sie[d]]
         /\ \A d2 \in Dirs : d2 # d =>
              /\ sie'[d2] = sie[d2] /\ hostTog'[d2] = hostTog[d2]
              /\ \A i \in PP : bd'[d2][i] = bd[d2][i]
<1> DEFINE e == [bd[d][sie[d]] EXCEPT !.uown = FALSE]
<1>1. bd \in Descriptors /\ sie \in [Dirs -> PP] /\ hostTog \in [Dirs -> PP]
  BY DEF TypeOK
<1>2. sie[d] \in PP /\ 1 - sie[d] \in PP /\ 1 - sie[d] # sie[d] /\ 1 - hostTog[d] \in PP
  BY <1>1 DEF PP
<1>3. bd[d][sie[d]] \in Entry
  BY <1>1, <1>2 DEF Descriptors
<1>4. e \in Entry /\ ~e.uown /\ e.dts = bd[d][sie[d]].dts
  BY <1>3 DEF Entry
<1>5. bd' = [bd EXCEPT ![d][sie[d]] = e]
  BY DEF Moved
<1>6. sie' = [sie EXCEPT ![d] = 1 - @] /\ hostTog' = [hostTog EXCEPT ![d] = 1 - @]
  BY DEF Moved
<1> HIDE DEF e
<1>7. /\ bd' \in Descriptors
      /\ \A d2 \in Dirs, i \in PP : bd'[d2][i] = IF d2 = d /\ i = sie[d] THEN e ELSE bd[d2][i]
  BY <1>1, <1>2, <1>4, <1>5 DEF Descriptors
<1>8. /\ sie' \in [Dirs -> PP] /\ hostTog' \in [Dirs -> PP]
      /\ sie'[d] = 1 - sie[d] /\ hostTog'[d] = 1 - hostTog[d]
      /\ \A d2 \in Dirs : d2 # d => sie'[d2] = sie[d2] /\ hostTog'[d2] = hostTog[d2]
  BY <1>1, <1>2, <1>6
<1> QED
  BY <1>2, <1>4, <1>7, <1>8

LEMMA SetHaltEffect ==
  ASSUME TypeOK, NEW d \in Dirs, SetHalt(d)
  PROVE  /\ bd' \in Descriptors /\ pBDT'[d] = sie[d] /\ sie' = sie /\ hostTog' = hostTog
         /\ pBDT' \in [Dirs -> Pointers]
         /\ bd'[d][sie[d]].uown /\ bd'[d][sie[d]].stall
         /\ bd'[d][sie[d]].dts = bd[d][sie[d]].dts
         /\ bd'[d][1 - sie[d]] = bd[d][1 - sie[d]]
         /\ \A d2 \in Dirs : d2 # d =>
              pBDT'[d2] = pBDT[d2] /\ \A i \in PP : bd'[d2][i] = bd[d2][i]
<1> DEFINE e == [bd[d][sie[d]] EXCEPT !.uown = TRUE, !.stall = TRUE]
<1>1. bd \in Descriptors /\ sie \in [Dirs -> PP] /\ pBDT \in [Dirs -> Pointers]
  BY DEF TypeOK
<1>2. sie[d] \in PP /\ 1 - sie[d] \in PP /\ 1 - sie[d] # sie[d] /\ sie[d] \in Pointers
  BY <1>1 DEF PP, Pointers
<1>3. bd[d][sie[d]] \in Entry
  BY <1>1, <1>2 DEF Descriptors
<1>4. e \in Entry /\ e.uown /\ e.stall /\ e.dts = bd[d][sie[d]].dts
  BY <1>3 DEF Entry
<1>5. bd' = [bd EXCEPT ![d][sie[d]] = e]
  BY DEF SetHalt
<1>6. pBDT' = [pBDT EXCEPT ![d] = sie[d]] /\ sie' = sie /\ hostTog' = hostTog
  BY DEF SetHalt, HaltRequest
<1> HIDE DEF e
<1>7. /\ bd' \in Descriptors
      /\ \A d2 \in Dirs, i \in PP : bd'[d2][i] = IF d2 = d /\ i = sie[d] THEN e ELSE bd[d2][i]
  BY <1>1, <1>2, <1>4, <1>5 DEF Descriptors
<1> QED
  BY <1>1, <1>2, <1>4, <1>6, <1>7

LEMMA ClearHaltEffect ==
  ASSUME TypeOK, NEW d \in Dirs, ClearHalt(d)
  PROVE  /\ bd' \in Descriptors /\ pBDT'[d] = sie[d] /\ sie' = sie
         /\ pBDT' \in [Dirs -> Pointers]
         /\ hostTog' \in [Dirs -> PP] /\ hostTog'[d] = 0
         /\ bd'[d][sie[d]] = NoBD
         /\ ~bd'[d][1 - sie[d]].uown /\ bd'[d][1 - sie[d]].dts = 1
         /\ \A d2 \in Dirs : d2 # d =>
              /\ pBDT'[d2] = pBDT[d2] /\ hostTog'[d2] = hostTog[d2]
              /\ \A i \in PP : bd'[d2][i] = bd[d2][i]
<1> DEFINE s == sie[d]
           e == [bd[d][1 - s] EXCEPT !.uown = FALSE, !.dts = 1]
<1>1. bd \in Descriptors /\ sie \in [Dirs -> PP] /\ pBDT \in [Dirs -> Pointers] /\ hostTog \in [Dirs -> PP]
  BY DEF TypeOK
<1>2. s \in PP /\ 1 - s \in PP /\ 1 - s # s /\ s \in Pointers /\ 0 \in PP /\ 1 \in PP
  BY <1>1 DEF PP, Pointers
<1>3. bd[d][1 - s] \in Entry
  BY <1>1, <1>2 DEF Descriptors
<1>4. e \in Entry /\ ~e.uown /\ e.dts = 1
  BY <1>2, <1>3 DEF Entry
<1>5. bd' = [bd EXCEPT ![d][s] = NoBD, ![d][1 - s] = e]
  BY <1>1, <1>2 DEF ClearHalt, Descriptors
<1>6. /\ pBDT' = [pBDT EXCEPT ![d] = sie[d]] /\ sie' = sie
      /\ hostTog' = [hostTog EXCEPT ![d] = 0]
  BY DEF ClearHalt, HaltRequest
<1> HIDE DEF e
<1>7. /\ bd' \in Descriptors
      /\ \A d2 \in Dirs, i \in PP :
           bd'[d2][i] = IF d2 # d THEN bd[d2][i] ELSE IF i = s THEN NoBD
                        ELSE IF i = 1 - s THEN e ELSE bd[d2][i]
  BY <1>1, <1>2, <1>4, <1>5, NoBDFields DEF Descriptors
<1>8. /\ pBDT' \in [Dirs -> Pointers] /\ pBDT'[d] = s /\ hostTog' \in [Dirs -> PP] /\ hostTog'[d] = 0
      /\ \A d2 \in Dirs : d2 # d => pBDT'[d2] = pBDT[d2] /\ hostTog'[d2] = hostTog[d2]
  BY <1>1, <1>2, <1>6
<1> QED
  BY <1>2, <1>4, <1>6, <1>7, <1>8

LEMMA ConfigureEffect ==
  ASSUME Configure
  PROVE  /\ bd' \in Descriptors /\ sie' \in [Dirs -> PP] /\ hostTog' \in [Dirs -> PP]
         /\ pBDT' \in [Dirs -> PP] /\ handle' \in [Dirs -> PP \cup {NULL}]
         /\ pBDT'["OUT"] = 1 /\ pBDT'["IN"] = 0 /\ handle'["OUT"] = 0
         /\ \A d \in Dirs, i \in PP :
              /\ bd'[d][i].uown <=> d = "OUT" /\ i = 0
              /\ bd'[d][i].dts = i /\ ~bd'[d][i].stall
         /\ \A d \in Dirs : sie'[d] = 0 /\ hostTog'[d] = 0
<1>1. \A d \in Dirs, i \in PP :
        LET e == [uown |-> d = "OUT" /\ i = 0, dts |-> i, stall |-> FALSE]
        IN e \in Entry /\ (e.uown <=> d = "OUT" /\ i = 0) /\ e.dts = i /\ ~e.stall
  BY DEF Entry
<1>2. bd' = [d \in Dirs |-> [i \in PP |->
               [uown |-> d = "OUT" /\ i = 0, dts |-> i, stall |-> FALSE]]]
  BY DEF Configure
<1>3. bd' \in Descriptors
  BY <1>1, <1>2 DEF Descriptors
<1>4. \A d \in Dirs, i \in PP :
        bd'[d][i].uown <=> d = "OUT" /\ i = 0
  BY <1>1, <1>2
<1>5. \A d \in Dirs, i \in PP : bd'[d][i].dts = i /\ ~bd'[d][i].stall
  BY <1>1, <1>2
<1>6. /\ sie' \in [Dirs -> PP] /\ hostTog' \in [Dirs -> PP]
      /\ pBDT' \in [Dirs -> PP] /\ handle' \in [Dirs -> PP \cup {NULL}]
      /\ pBDT'["OUT"] = 1 /\ pBDT'["IN"] = 0 /\ handle'["OUT"] = 0
      /\ \A d \in Dirs : sie'[d] = 0 /\ hostTog'[d] = 0
  BY DEF Configure, Dirs, PP
<1> QED
  BY <1>3, <1>4, <1>5, <1>6

LEMMA DataTypes ==
  /\ 0 \in Ids /\ NoPacket \in Packet /\ NoPacket.id = 0 /\ NoReply \in Reply
  /\ \A p \in Packet : p.id \in Ids /\ p.cmd \in Writes \cup Reads \cup Ignored
  /\ \A c \in Commands, n \in Ids : [id |-> n, cmd |-> c] \in Packet
<1>1. 0 \in Ids
  BY BoundsAssumption DEF Ids
<1> QED
  BY <1>1, CommandsAssumption DEF Packet, NoPacket, Reply, NoReply, Ignored

LEMMA PieceTypes ==
  /\ NoBytes \in Pieces /\ NoBytes.hdr = NotRead /\ NoBytes.body = NotRead
  /\ NotRead.id = -1 /\ NotRead \notin Packet
  /\ \A r \in Pieces : r.hdr # NotRead /\ r.body # NotRead => r \in Reply
  /\ \A p \in Packet : p.id # -1
<1>1. NotRead.id = -1 /\ -1 \notin Ids
  BY BoundsAssumption DEF NotRead, Ids
<1>2. \A p \in Packet : p.id \in Ids
  BY DEF Packet
<1>3. NotRead \notin Packet
  BY <1>1, <1>2
<1>4. NoBytes \in Pieces /\ NoBytes.hdr = NotRead /\ NoBytes.body = NotRead
  BY DEF NoBytes, Pieces
<1>5. \A r \in Pieces : r.hdr # NotRead /\ r.body # NotRead => r \in Reply
  BY DEF Pieces, Reply
<1> QED
  BY <1>1, <1>2, <1>3, <1>4, <1>5

LEMMA ReplyUpdate ==
  ASSUME NEW r \in Reply, NEW n \in Packet
  PROVE  /\ LET q == [r EXCEPT !.hdr = n] IN q \in Reply /\ q.hdr = n /\ q.body = r.body
         /\ LET q == [r EXCEPT !.body = n] IN q \in Reply /\ q.hdr = r.hdr /\ q.body = n
  BY DEF Reply

LEMMA SettingUpdate ==
  ASSUME NEW r \in Settings, NEW i \in 0 .. NumRegs - 1, NEW n \in Ids
  PROVE  /\ [r EXCEPT ![i] = n] \in Settings
         /\ \A j \in 0 .. NumRegs - 1 : [r EXCEPT ![i] = n][j] = IF j = i THEN n ELSE r[j]
  BY DEF Settings

-----------------------------------------------------------------------------
(***************************************************************************)
(* Types, and where pointers may be null.                                  *)
(***************************************************************************)
Core ==
  /\ TypeOK /\ Polling /\ EnabledIsConfigured /\ PointersSet /\ WildIsDead
  /\ ReadingIsLive

SieReading == SieReadsHeader \/ SieReadsBody

LEMMA SieInCases == SieIn => SieReading \/ SieInAcknowledged
  BY DEF SieIn, SieReading

LEMMA SieReadingFrame ==
  SieReading =>
    /\ CanMove("IN")
    /\ UNCHANGED <<devState, suspended, uep1, bd, pBDT, sie, handle, rxBuf, txBuf, reg, chip, rf,
                   pc, xdir, h, next, idx, offer, nextId, hostTog, got, budget, fresh,
                   quiet, lastSet, lastReq, disturbed, overtaken>>
  BY DEF SieReading, SieReadsHeader, SieReadsBody, SieReads, device, ep, outputs, main, hist

LEMMA SieReadingEffect ==
  ASSUME TypeOK, SieReading
  PROVE  /\ reading' \in Pieces /\ reading'.hdr # NotRead
         /\ \/ reading'.hdr = txBuf.hdr /\ reading'.body = NotRead
            \/ reading'.hdr = reading.hdr /\ reading'.body = txBuf.body
<1>1. reading \in Pieces /\ txBuf.hdr \in Packet /\ txBuf.body \in Packet
  BY DEF TypeOK, Reply
<1>2. CASE SieReadsHeader
  <2>1. reading' = [NoBytes EXCEPT !.hdr = txBuf.hdr]
    BY <1>2 DEF SieReadsHeader, SieReads
  <2>2. reading'.hdr = txBuf.hdr /\ reading'.body = NotRead /\ reading' \in Pieces
    BY <1>1, <2>1 DEF NoBytes, Pieces
  <2> QED
    BY <1>1, <2>2, PieceTypes
<1>3. CASE SieReadsBody
  <2>1. reading' = [reading EXCEPT !.body = txBuf.body] /\ reading.hdr # NotRead
    BY <1>3 DEF SieReadsBody, SieReads
  <2>2. reading'.hdr = reading.hdr /\ reading'.body = txBuf.body /\ reading' \in Pieces
    BY <1>1, <2>1 DEF Pieces
  <2> QED
    BY <2>1, <2>2
<1> QED
  BY <1>2, <1>3 DEF SieReading

LEMMA SieInFrame ==
  SieIn => /\ CanMove("IN")
           /\ UNCHANGED <<devState, suspended, uep1, pBDT, handle, rxBuf, txBuf, reg, chip, rf,
                          pc, xdir, h, next, idx, offer, nextId, budget, fresh,
                          quiet, lastSet, lastReq, disturbed, overtaken>>
  BY SieInCases, SieReadingFrame DEF SieInAcknowledged, device, outputs, main, hist

LEMMA CoreInit == Init => Core
<1> SUFFICES ASSUME Init PROVE Core
  OBVIOUS
<1>1. reg \in Settings /\ chip \in Settings
  BY DataTypes DEF Init, Settings
<1>2. /\ bd \in Descriptors /\ rxBuf \in Packet /\ txBuf \in Reply /\ got \in Reply /\ offer \in Packet
      /\ reading \in Pieces
  BY DataTypes, PieceTypes, ClearedDescriptors DEF Init
<1>3. lastReq \in Ids /\ lastSet \in Ids
  BY DataTypes DEF Init
<1>4. idx \in 0 .. NumRegs - 1 /\ nextId \in 1 .. MaxPackets + 1 /\ budget \in 0 .. MaxBusEvents
  BY NumRegsAssumption, BoundsAssumption DEF Init
<1>5. TypeOK
  BY <1>1, <1>2, <1>3, <1>4 DEF Init, TypeOK, States, Dirs, PP, NULL, Top, Pointers
<1> QED
  BY <1>5 DEF Init, Core, Polling, EnabledIsConfigured, PointersSet, WildIsDead, ReadingIsLive, NULL, WILD

(* Every step keeps the types; only LoadHandle needs to know more of pc. *)
LEMMA TypeStep == Core /\ [Next]_vars => TypeOK'
<1> SUFFICES ASSUME Core, [Next]_vars PROVE TypeOK'
  OBVIOUS
<1> USE DEF Core
<1>1. CASE CheckState
  BY <1>1 DEF TypeOK, CheckState, At, Go, Top, Handler, Transfer, device, ep, outputs, main, host, hist
<1>2. CASE CheckSuspended
  BY <1>2 DEF TypeOK, CheckSuspended, At, Go, Top, Handler, Transfer, device, ep, outputs, main, host, hist
<1>3. CASE CheckRxHandle
  BY <1>3 DEF TypeOK, CheckRxHandle, At, Go, Top, Handler, Transfer, device, ep, outputs, main, host, hist
<1>4. CASE Switch
  <2>1. lastSet' \in Ids \cup {Mixed} /\ lastReq' \in Ids /\ fresh' \in BOOLEAN
    BY <1>4, DataTypes DEF TypeOK, Switch
  <2>2. pc' \in Handler \cup {"load"}
    BY <1>4, DataTypes DEF TypeOK, Switch, Go, Handler
  <2> QED
    BY <1>4, <2>1, <2>2 DEF TypeOK, Switch, Handler, Transfer, device, ep, outputs, host
<1>5. CASE CopyIn
  <2>1. reg' \in Settings
    BY <1>5, DataTypes, SettingUpdate DEF TypeOK, CopyIn
  <2>2. idx' \in 0 .. NumRegs - 1
    BY <1>5, NumRegsAssumption DEF TypeOK, CopyIn
  <2> QED
    BY <1>5, <2>1, <2>2 DEF TypeOK, CopyIn, At, Go, Top, Handler, Transfer, device, ep, outputs, main, host, hist
<1>6. CASE WriteReg
  BY <1>6, NumRegsAssumption, SettingUpdate DEF TypeOK, WriteReg, At, Go, Top, Handler, Transfer, Settings, device, ep, outputs, main, host, hist
<1>7. CASE RfCtrl
  BY <1>7 DEF TypeOK, RfCtrl, At, Go, Top, Handler, Transfer, device, ep, outputs, main, host, hist
<1>8. CASE ReplyHeader
  <2>1. txBuf' \in Reply
    BY <1>8, ReplyUpdate DEF TypeOK, ReplyHeader
  <2> QED
    BY <1>8, <2>1 DEF TypeOK, ReplyHeader, At, Go, Handler, device, ep, outputs, host, hist
<1>9. CASE ReplyBody
  <2>1. txBuf' \in Reply
    BY <1>9, ReplyUpdate DEF TypeOK, ReplyBody
  <2> QED
    BY <1>9, <2>1 DEF TypeOK, ReplyBody, At, Go, Handler, device, ep, outputs, host, hist
<1>10. CASE CheckTxHandle
  BY <1>10 DEF TypeOK, CheckTxHandle, At, Go, Top, Handler, Transfer, Dirs, device, ep, outputs, main, host, hist
<1>11. CASE LoadHandle
  BY <1>11 DEF TypeOK, LoadHandle, At, Go, Top, Handler, Transfer, Polling, WildIsDead, Pointers, PP, NULL, WILD, Dirs, device, ep, outputs, main, host, hist
<1>12. CASE ArmBD
  BY <1>12, ArmEffect DEF TypeOK, ArmBD, At, Go, Top, Handler, Transfer, device, ep, outputs, main, host, hist
<1>13. CASE ReadEntry
  BY <1>13 DEF TypeOK, ReadEntry, At, Go, Top, Handler, Transfer, Toggled, Pointers, PP, WILD, device, ep, outputs, main, host, hist
<1>14. CASE WriteEntry
  BY <1>14 DEF TypeOK, WriteEntry, At, Go, Top, Handler, Transfer, Pointers, device, ep, outputs, main, host, hist
<1>15. CASE StoreHandle
  BY <1>15 DEF TypeOK, StoreHandle, At, Go, Top, Handler, Transfer, Dirs, device, ep, outputs, main, host, hist
<1>16. CASE PowerUp
  BY <1>16 DEF TypeOK, PowerUp, States, device, ep, outputs, main, host, hist
<1>17. CASE BusReset
  <2>1. devState' \in States /\ suspended' \in BOOLEAN /\ uep1' \in BOOLEAN /\ fresh' \in BOOLEAN /\ quiet' \in BOOLEAN
    BY <1>17 DEF BusReset, States
  <2>2. bd' \in Descriptors /\ pBDT' \in [Dirs -> Pointers] /\ sie' \in [Dirs -> PP]
    BY <1>17, ClearedDescriptors DEF BusReset, Pointers, PP
  <2>3. offer' \in Packet /\ budget' \in 0 .. MaxBusEvents
    BY <1>17, DataTypes, BoundsAssumption DEF TypeOK, BusReset, BusEvent
  <2> QED
    BY <1>17, <2>1, <2>2, <2>3 DEF TypeOK, BusReset, outputs, main
<1>18. CASE SetAddress
  BY <1>18 DEF TypeOK, SetAddress, States, device, ep, outputs, main, host, hist
<1>19. CASE Unconfigure
  <2>1. devState' \in States /\ uep1' \in BOOLEAN /\ fresh' \in BOOLEAN /\ quiet' \in BOOLEAN
    BY <1>19 DEF Unconfigure, States
  <2>2. bd' \in Descriptors /\ sie' \in [Dirs -> PP]
    BY <1>19, ClearedDescriptors DEF Unconfigure, PP
  <2>3. offer' \in Packet /\ budget' \in 0 .. MaxBusEvents
    BY <1>19, DataTypes, BoundsAssumption DEF TypeOK, Unconfigure, BusEvent
  <2> QED
    BY <1>19, <2>1, <2>2, <2>3 DEF TypeOK, Unconfigure, outputs, main
<1>20. CASE Configure
  <2>1. devState' \in States /\ uep1' \in BOOLEAN /\ fresh' \in BOOLEAN /\ quiet' \in BOOLEAN /\ disturbed' \in BOOLEAN
    BY <1>20 DEF Configure, States
  <2>2. /\ bd' \in Descriptors /\ pBDT' \in [Dirs -> Pointers] /\ sie' \in [Dirs -> PP]
        /\ handle' \in [Dirs -> PP \cup {NULL}] /\ hostTog' \in [Dirs -> PP]
    BY <1>20, ConfigureEffect DEF Pointers
  <2>3. offer' \in Packet /\ budget' \in 0 .. MaxBusEvents
    BY <1>20, DataTypes, BoundsAssumption DEF TypeOK, Configure, BusEvent
  <2>4. got' \in Reply /\ lastReq' \in Ids /\ lastSet' \in Ids \cup {Mixed}
    BY <1>20, DataTypes DEF TypeOK, Configure
  <2> QED
    BY <1>20, <2>1, <2>2, <2>3, <2>4 DEF TypeOK, Configure, outputs, main
<1>21. CASE Suspend
  BY <1>21, BoundsAssumption DEF TypeOK, Suspend, BusEvent, device, ep, outputs, main, host, hist
<1>22. CASE Resume
  BY <1>22 DEF TypeOK, Resume, device, ep, outputs, main, host, hist
<1>23. ASSUME NEW d \in Dirs, SetHalt(d) PROVE TypeOK'
  <2>1. /\ bd' \in Descriptors /\ pBDT' \in [Dirs -> Pointers] /\ sie' \in [Dirs -> PP]
        /\ hostTog' \in [Dirs -> PP]
    BY <1>23, SetHaltEffect DEF TypeOK
  <2>2. quiet' \in BOOLEAN /\ disturbed' \in BOOLEAN
    BY <1>23 DEF SetHalt, HaltRequest
  <2>3. lastReq' \in Ids /\ budget' \in 0 .. MaxBusEvents
    BY <1>23, DataTypes, BoundsAssumption DEF TypeOK, SetHalt, HaltRequest, BusEvent
  <2> QED
    BY <1>23, <2>1, <2>2, <2>3 DEF TypeOK, SetHalt, HaltRequest, device, outputs, main
<1>24. ASSUME NEW d \in Dirs, ClearHalt(d) PROVE TypeOK'
  <2>1. /\ bd' \in Descriptors /\ pBDT' \in [Dirs -> Pointers] /\ sie' \in [Dirs -> PP]
        /\ hostTog' \in [Dirs -> PP]
    BY <1>24, ClearHaltEffect DEF TypeOK
  <2>2. quiet' \in BOOLEAN /\ disturbed' \in BOOLEAN
    BY <1>24 DEF ClearHalt, HaltRequest
  <2>3. lastReq' \in Ids /\ budget' \in 0 .. MaxBusEvents
    BY <1>24, DataTypes, BoundsAssumption DEF TypeOK, ClearHalt, HaltRequest, BusEvent
  <2> QED
    BY <1>24, <2>1, <2>2, <2>3 DEF TypeOK, ClearHalt, HaltRequest, device, outputs, main
<1>25. ASSUME NEW c \in Commands, HostOffer(c) PROVE TypeOK'
  BY <1>25, DataTypes, BoundsAssumption DEF TypeOK, HostOffer, Ids, device, ep, outputs, main, host, hist
<1>26. CASE SieOut
  <2>1. Moved("OUT") /\ "OUT" \in Dirs
    BY <1>26 DEF SieOut, Dirs
  <2> QED
    BY <1>26, <2>1, MoveEffect, DataTypes DEF TypeOK, SieOut, device, ep, outputs, main, host, hist
<1>27. CASE SieIn
  <2>1. reading \in Pieces /\ txBuf.hdr \in Packet /\ txBuf.body \in Packet
    BY DEF TypeOK, Reply
  <2>2. CASE SieReading
    BY <2>2, SieReadingEffect, SieReadingFrame DEF TypeOK
  <2>3. CASE SieInAcknowledged
    <3>1. Moved("IN") /\ "IN" \in Dirs /\ got' = reading /\ reading' = NoBytes
      BY <2>3 DEF SieInAcknowledged, Dirs
    <3>2. bd' \in Descriptors /\ sie' \in [Dirs -> PP] /\ hostTog' \in [Dirs -> PP]
      BY <3>1, MoveEffect
    <3>3. got' \in Reply /\ reading' \in Pieces
      BY <2>1, <2>3, <3>1, PieceTypes DEF SieInAcknowledged, ReadingIsLive
    <3> QED
      BY <2>3, <3>2, <3>3 DEF TypeOK, SieInAcknowledged, device, outputs, main, hist
  <2> QED
    BY <1>27, <2>2, <2>3, SieInCases
<1>28. CASE UNCHANGED vars
  BY <1>28 DEF TypeOK, vars, device, ep, outputs, main, host, hist
<1> QED
  BY <1>1, <1>2, <1>3, <1>4, <1>5, <1>6, <1>7, <1>8, <1>9, <1>10, <1>11, <1>12, <1>13, <1>14, <1>15, <1>16, <1>17, <1>18, <1>19, <1>20, <1>21, <1>22, <1>23, <1>24, <1>25, <1>26, <1>27, <1>28 DEF Next, MainStep, Isr

(* Who may change what. *)
LEMMA MainFrame ==
  MainStep => UNCHANGED <<devState, suspended, uep1, sie, offer, nextId, hostTog, got, reading,
                          budget, rxBuf, quiet, disturbed>>
  BY DEF MainStep, CheckState, CheckSuspended, CheckRxHandle, Switch, CopyIn, WriteReg, RfCtrl, ReplyHeader, ReplyBody, CheckTxHandle, LoadHandle, ArmBD, ReadEntry, WriteEntry, StoreHandle, device, host, hist, ep

LEMMA OthersFrame ==
  [Next]_vars => MainStep \/ UNCHANGED <<pc, xdir, h, next, idx, reg, chip, rf, txBuf>>
  BY SieInFrame DEF Next, Isr, PowerUp, BusReset, SetAddress, Unconfigure, Configure, Suspend, Resume,
     SetHalt, ClearHalt, HaltRequest, HostOffer, SieOut, vars, main, outputs

LEMMA PollingStep == Polling /\ [Next]_vars => Polling'
<1> SUFFICES ASSUME Polling, [Next]_vars PROVE Polling'
  OBVIOUS
<1>1. CASE UNCHANGED <<pc, xdir>>
  BY <1>1 DEF Polling
<1>2. CASE MainStep
  BY <1>2 DEF Polling, MainStep, CheckState, CheckSuspended, CheckRxHandle, Switch, CopyIn, WriteReg, RfCtrl, ReplyHeader, ReplyBody, CheckTxHandle, LoadHandle, ArmBD, ReadEntry, WriteEntry, StoreHandle, At, Go, Top, Handler, Reads, Ignored, Transfer
<1> QED
  BY <1>1, <1>2, OthersFrame

LEMMA EnabledStep == EnabledIsConfigured /\ [Next]_vars => EnabledIsConfigured'
<1> SUFFICES ASSUME EnabledIsConfigured, [Next]_vars PROVE EnabledIsConfigured'
  OBVIOUS
<1>1. CASE MainStep
  BY <1>1, MainFrame DEF EnabledIsConfigured
<1>2. CASE Isr
  BY <1>2 DEF EnabledIsConfigured, Isr, PowerUp, BusReset, SetAddress, Unconfigure, Configure,
     Suspend, Resume, SetHalt, ClearHalt, HaltRequest, device
<1> QED
  BY <1>1, <1>2, SieInFrame DEF EnabledIsConfigured, Next, HostOffer, SieOut, vars, device

LEMMA PointersStep == Core /\ [Next]_vars => PointersSet'
<1> SUFFICES ASSUME Core, [Next]_vars PROVE PointersSet'
  OBVIOUS
<1> USE DEF Core, PointersSet
<1>1. CASE CheckState
  BY <1>1 DEF CheckState, At, Go, device, ep
<1>2. CASE ReadEntry
  <2>1. pBDT[xdir] \in PP => next' \in PP
    BY <1>2 DEF ReadEntry, Toggled, PP
  <2> QED
    BY <1>2, <2>1 DEF ReadEntry, At, Go, device, ep, TypeOK
<1>3. CASE WriteEntry
  BY <1>3 DEF WriteEntry, At, Go, device, TypeOK, Dirs
<1>4. CASE MainStep /\ ~CheckState /\ ~ReadEntry /\ ~WriteEntry
  <2>1. UNCHANGED pBDT /\ pc # "state" /\ pc' # "write"
    BY <1>4 DEF MainStep, CheckSuspended, CheckRxHandle, Switch, CopyIn, WriteReg, RfCtrl, ReplyHeader, ReplyBody, CheckTxHandle, LoadHandle, ArmBD, StoreHandle, At, Go, ep
  <2> QED
    BY <1>4, <2>1, MainFrame
<1>5. CASE BusReset
  BY <1>5 DEF BusReset
<1>6. CASE SetAddress
  BY <1>6 DEF SetAddress, ResetRecovered, main, ep
<1>7. CASE Unconfigure
  BY <1>7 DEF Unconfigure, main
<1>8. CASE Configure
  BY <1>8, ConfigureEffect DEF Configure, main
<1>9. CASE \E d \in Dirs : SetHalt(d) \/ ClearHalt(d)
  <2>1. PICK d \in Dirs : SetHalt(d) \/ ClearHalt(d)
    BY <1>9
  <2>2. pBDT'[d] \in PP /\ \A d2 \in Dirs : d2 # d => pBDT'[d2] = pBDT[d2]
    BY <2>1, SetHaltEffect, ClearHaltEffect DEF TypeOK
  <2> QED
    BY <2>1, <2>2 DEF SetHalt, ClearHalt, HaltRequest, main, device
<1>10. CASE UNCHANGED <<devState, pBDT, pc, next>>
  BY <1>10
<1> QED
  BY <1>1, <1>2, <1>3, <1>4, <1>5, <1>6, <1>7, <1>8, <1>9, <1>10, SieInFrame
  DEF Next, Isr, PowerUp, Suspend, Resume, HostOffer, SieOut, vars, device, ep, main, Dirs

LEMMA WildStep == Core /\ [Next]_vars => WildIsDead'
<1> SUFFICES ASSUME Core, [Next]_vars, NEW d \in Dirs, pBDT'[d] = WILD
             PROVE (\/ pc = "state" \/ (pc = "store" /\ xdir = d)
                    \/ d = "IN" /\ xdir = "OUT" /\ pc \in Transfer)'
  BY DEF WildIsDead
<1> USE DEF Core, WildIsDead, Transfer
<1>1. CASE CheckState
  BY <1>1 DEF CheckState, At, Go, PointersSet, PP, WILD, device, ep
<1>2. CASE WriteEntry
  BY <1>2 DEF WriteEntry, At, Go, TypeOK, Dirs
<1>3. CASE StoreHandle
  BY <1>3 DEF StoreHandle, At, Go, Dirs
<1>4. CASE MainStep /\ ~CheckState /\ ~WriteEntry /\ ~StoreHandle
  <2>1. UNCHANGED pBDT
    BY <1>4 DEF MainStep, CheckSuspended, CheckRxHandle, Switch, CopyIn, WriteReg, RfCtrl, ReplyHeader, ReplyBody, CheckTxHandle, LoadHandle, ArmBD, ReadEntry, ep
  <2>2. pc # "store" /\ pc # "state"
    BY <1>4 DEF MainStep, CheckSuspended, CheckRxHandle, Switch, CopyIn, WriteReg, RfCtrl, ReplyHeader, ReplyBody, CheckTxHandle, LoadHandle, ArmBD, ReadEntry, At
  <2>3. d = "IN" /\ xdir = "OUT" /\ pc \in Transfer
    BY <2>1, <2>2
  <2> QED
    BY <1>4, <2>3 DEF MainStep, CheckSuspended, CheckRxHandle, Switch, CopyIn, WriteReg, RfCtrl, ReplyHeader, ReplyBody, CheckTxHandle, LoadHandle, ArmBD, ReadEntry, At, Go
<1>5. CASE BusReset
  BY <1>5 DEF BusReset, NULL, WILD
<1>6. CASE Configure
  BY <1>6, ConfigureEffect DEF PP, WILD
<1>7. CASE \E d2 \in Dirs : SetHalt(d2) \/ ClearHalt(d2)
  <2>1. PICK d2 \in Dirs : SetHalt(d2) \/ ClearHalt(d2)
    BY <1>7
  <2>2. pBDT'[d2] \in PP /\ (d2 # d => pBDT'[d] = pBDT[d])
    BY <2>1, SetHaltEffect, ClearHaltEffect DEF TypeOK
  <2> QED
    BY <2>1, <2>2 DEF SetHalt, ClearHalt, HaltRequest, main, PP, WILD
<1>8. CASE UNCHANGED <<pBDT, pc, xdir>>
  BY <1>8
<1> QED
  BY <1>1, <1>2, <1>3, <1>4, <1>5, <1>6, <1>7, <1>8, SieInFrame
  DEF Next, Isr, PowerUp, SetAddress, Unconfigure, Suspend, Resume, HostOffer, SieOut, vars, ep, main

(* Arming leaves what is armed alone, and no other party than the SIE may  *)
(* act on IN while a packet is on the bus.                                 *)
LEMMA ReadingStep == Core /\ [Next]_vars => ReadingIsLive'
<1> SUFFICES ASSUME Core, [Next]_vars PROVE ReadingIsLive'
  OBVIOUS
<1>core. TypeOK /\ EnabledIsConfigured /\ ReadingIsLive /\ "IN" \in Dirs /\ sie["IN"] \in PP
  BY DEF Core, TypeOK, Dirs
<1>1. CASE MainStep
  <2>1. UNCHANGED <<uep1, suspended, sie, reading>>
    BY <1>1, MainFrame
  <2>2. Live("IN", sie["IN"]) => Live("IN", sie["IN"])'
    <3>1. CASE ArmBD
      BY <1>core, <2>1, <3>1, ArmEffect DEF Live
    <3>2. CASE ~ArmBD
      <4>1. UNCHANGED bd
        BY <1>1, <3>2 DEF MainStep, CheckState, CheckSuspended, CheckRxHandle, Switch, CopyIn, WriteReg, RfCtrl, ReplyHeader, ReplyBody, CheckTxHandle, LoadHandle, ReadEntry, WriteEntry, StoreHandle, ep
      <4> QED
        BY <2>1, <4>1 DEF Live
    <3> QED
      BY <3>1, <3>2
  <2> QED
    BY <1>core, <2>1, <2>2 DEF ReadingIsLive
<1>2. CASE BusReset \/ Unconfigure \/ Configure \/ Suspend \/ \E d \in Dirs : SetHalt(d) \/ ClearHalt(d)
  <2>1. reading = NoBytes /\ UNCHANGED reading
    BY <1>2 DEF BusReset, Unconfigure, Configure, Suspend, SetHalt, ClearHalt, HaltRequest, BusEvent, host
  <2> QED
    BY <2>1 DEF ReadingIsLive
<1>3. CASE PowerUp \/ SetAddress \/ Resume
  <2>1. reading = NoBytes /\ UNCHANGED reading
    BY <1>core, <1>3 DEF PowerUp, SetAddress, Resume, ReadingIsLive, EnabledIsConfigured, host
  <2> QED
    BY <2>1 DEF ReadingIsLive
<1>4. CASE SieOut
  <2>1. reading = NoBytes /\ UNCHANGED reading
    BY <1>4 DEF SieOut
  <2> QED
    BY <2>1 DEF ReadingIsLive
<1>5. CASE SieInAcknowledged
  BY <1>5 DEF SieInAcknowledged, ReadingIsLive
<1>6. CASE SieReading
  <2>1. UNCHANGED <<uep1, suspended, sie, bd>> /\ CanMove("IN")
    BY <1>6, SieReadingFrame
  <2>2. reading'.hdr # NotRead
    BY <1>core, <1>6, SieReadingEffect
  <2> QED
    BY <2>1, <2>2 DEF ReadingIsLive, CanMove, Live
<1>7. CASE UNCHANGED <<uep1, suspended, sie, bd, reading>>
  BY <1>core, <1>7 DEF ReadingIsLive, Live
<1> QED
  BY <1>1, <1>2, <1>3, <1>4, <1>5, <1>6, <1>7, SieInCases
  DEF Next, Isr, HostOffer, vars, device, ep, host

LEMMA CoreStep == Core /\ [Next]_vars => Core'
  BY TypeStep, PollingStep, EnabledStep, PointersStep, WildStep, ReadingStep DEF Core

(* The types of all variables, and that the main loop never arms through a *)
(* null or toggled-null pointer: for every bound and every set of commands *)
(* a reset between any two steps leaves no way to use what it cleared.     *)
THEOREM TypeCorrect == Spec => []TypeOK
<1>1. Core => TypeOK
  BY DEF Core
<1> QED
  BY CoreInit, CoreStep, <1>1, PTL DEF Spec

-----------------------------------------------------------------------------
(***************************************************************************)
(* The endpoints: main loop, SIE and host agree on the next descriptor.    *)
(***************************************************************************)
LEMMA Typed ==
  ASSUME TypeOK, NEW d \in Dirs
  PROVE  /\ sie[d] \in PP /\ 1 - sie[d] \in PP /\ 1 - sie[d] # sie[d] /\ 1 - (1 - sie[d]) = sie[d]
         /\ hostTog[d] \in PP /\ xdir \in Dirs /\ h \in PP \cup {NULL}
         /\ \A i \in PP : i = sie[d] \/ i = 1 - sie[d]
  BY DEF TypeOK, PP

(* Only SET_CONFIGURATION makes the device operational. *)
LEMMA OperationalBefore ==
  ASSUME Operational', MainStep \/ \E e \in Dirs : SetHalt(e) \/ ClearHalt(e)
  PROVE  Operational
<1>1. CASE MainStep
  BY <1>1, MainFrame DEF Operational
<1>2. ASSUME NEW e \in Dirs, SetHalt(e) \/ ClearHalt(e) PROVE Operational
  <2>1. HaltRequest(e)
    BY <1>2 DEF SetHalt, ClearHalt
  <2>2. devState = "CONFIGURED" /\ (disturbed' <=> disturbed \/ CutsTransfer(e))
    BY <2>1 DEF HaltRequest
  <2> QED
    BY <2>2 DEF Operational
<1> QED
  BY <1>1, <1>2

LEMMA EndpointsInit == Init => EndpointsAgree
  BY DEF Init, EndpointsAgree, Operational

LEMMA EndpointsStep == Inv /\ [Next]_vars => EndpointsAgree'
<1> SUFFICES ASSUME Inv, [Next]_vars, Operational', NEW d \in Dirs
             PROVE  TogglesAgree(d)' /\ PointersAgree(d)'
  BY DEF EndpointsAgree
<1>core. Core /\ TypeOK
  BY DEF Inv, Core
<1>typed. /\ sie[d] \in PP /\ 1 - sie[d] \in PP /\ 1 - sie[d] # sie[d] /\ 1 - (1 - sie[d]) = sie[d]
          /\ hostTog[d] \in PP /\ xdir \in Dirs /\ h \in PP \cup {NULL}
          /\ \A i \in PP : i = sie[d] \/ i = 1 - sie[d]
  BY <1>core, Typed
<1>1. CASE Configure
  <2>1. pc \in Top /\ UNCHANGED pc
    BY <1>1 DEF Configure, Operational, main
  <2>2. /\ sie'[d] = 0 /\ hostTog'[d] = 0 /\ ~bd'[d][1].uown /\ (bd'[d][0].uown <=> d = "OUT")
        /\ bd'[d][0].dts = 0 /\ bd'[d][1].dts = 1 /\ ~bd'[d][0].stall
    BY <1>1, ConfigureEffect DEF PP
  <2>3. pBDT'[d] = IF d = "OUT" THEN 1 ELSE 0
    BY <1>1, ConfigureEffect DEF Dirs
  <2>4. handle'["OUT"] = 0
    BY <1>1, ConfigureEffect
  <2> QED
    BY <2>1, <2>2, <2>3, <2>4 DEF TogglesAgree, PointersAgree, Arming, Live, Top
<1>2. ASSUME MainStep \/ \E e \in Dirs : SetHalt(e) \/ ClearHalt(e)
      PROVE  Operational /\ TogglesAgree(d) /\ PointersAgree(d)
  BY <1>2, OperationalBefore DEF Inv, EndpointsAgree
<1>3. CASE CheckState \/ CheckSuspended \/ CheckRxHandle \/ Switch \/ CopyIn \/ WriteReg
           \/ RfCtrl \/ ReplyHeader \/ ReplyBody
  <2>1. MainStep /\ UNCHANGED <<ep, hostTog, xdir, h, next>> /\ pc \in Top \cup Handler
    BY <1>3 DEF CheckState, CheckSuspended, CheckRxHandle, Switch, CopyIn, WriteReg, RfCtrl,
       ReplyHeader, ReplyBody, MainStep, At, Top, Handler, main, host, ep, Go
  <2>2. pc' \in Top \cup Handler \/ (pc \in Handler /\ pc' = "load")
    BY <1>3 DEF CheckState, CheckSuspended, CheckRxHandle, Switch, CopyIn, WriteReg, RfCtrl,
       ReplyHeader, ReplyBody, At, Top, Handler, Go
  <2>3. pc \in Handler => ~Live("OUT", sie["OUT"])
    BY <1>2, <2>1 DEF Inv, BufferHeld, Handling
  <2>4. xdir = "OUT"
    BY <2>1 DEF Inv, Polling
  <2> QED
    BY <1>2, <2>1, <2>2, <2>3, <2>4 DEF TogglesAgree, PointersAgree, Arming, Live, Top, Handler, ep
<1>4. CASE CheckTxHandle
  <2>1. /\ MainStep /\ UNCHANGED <<ep, hostTog, h, next>> /\ pc = "txbusy" /\ pc' = "load"
        /\ xdir' = IF Busy(handle["IN"], "IN") THEN "OUT" ELSE "IN"
    BY <1>4 DEF CheckTxHandle, MainStep, At, Go, main, host, ep
  <2>2. ~Live("OUT", sie["OUT"])
    BY <1>2, <2>1 DEF Inv, BufferHeld, Handling, Handler
  <2>3. ~Busy(handle["IN"], "IN") => ~Live("IN", sie["IN"])
    <3>1. PointersAgree("IN")
      BY <1>2, <2>1 DEF Inv, EndpointsAgree, Dirs
    <3>2. sie["IN"] \in PP /\ sie["IN"] # NULL
      BY <1>core DEF TypeOK, Dirs, PP, NULL
    <3> QED
      BY <2>1, <3>1, <3>2 DEF PointersAgree, Arming, Busy, Live
  <2> QED
    BY <1>2, <2>1, <2>2, <2>3 DEF TogglesAgree, PointersAgree, Arming, Live, ep
<1>5. CASE LoadHandle
  <2>1. /\ MainStep /\ UNCHANGED <<ep, hostTog, xdir, next>> /\ pc = "load"
        /\ h' = pBDT[xdir] /\ pc' = IF pBDT[xdir] = NULL THEN "store" ELSE "arm"
    BY <1>5 DEF LoadHandle, MainStep, At, Go, main, host, ep
  <2>2. pBDT[xdir] # NULL
    BY <1>2, <1>typed, <2>1 DEF Inv, PointersSet, Operational, PP, NULL
  <2> QED
    BY <1>2, <2>1, <2>2 DEF TogglesAgree, PointersAgree, Arming, Live, ep
<1>6. CASE ArmBD
  <2>1. MainStep /\ UNCHANGED <<pBDT, sie, handle, hostTog, xdir, h, next>> /\ pc = "arm" /\ pc' = "toggle"
    BY <1>6 DEF ArmBD, MainStep, At, Go, main, host
  <2>2. /\ h \in PP /\ bd'[xdir][h].uown /\ ~bd'[xdir][h].stall /\ bd'[xdir][h].dts = bd[xdir][h].dts
        /\ \A i \in PP : d # xdir \/ i # h => bd'[d][i] = bd[d][i]
    BY <1>6, <1>core, ArmEffect
  <2>3. CASE d = xdir
    BY <1>2, <1>typed, <2>1, <2>2, <2>3 DEF TogglesAgree, PointersAgree, Arming, Live
  <2>4. CASE d # xdir
    <3>1. bd'[d][sie[d]] = bd[d][sie[d]] /\ bd'[d][1 - sie[d]] = bd[d][1 - sie[d]]
      BY <1>typed, <2>2, <2>4
    <3> QED
      BY <1>2, <2>1, <2>4, <3>1 DEF TogglesAgree, PointersAgree, Arming, Live
  <2> QED
    BY <2>3, <2>4
<1>7. CASE ReadEntry
  <2>1. MainStep /\ UNCHANGED <<ep, hostTog, xdir, h>> /\ pc = "toggle" /\ pc' = "write" /\ next' = Toggled(pBDT[xdir])
    BY <1>7 DEF ReadEntry, MainStep, At, Go, main, host, ep
  <2>2. CASE d = xdir
    <3>1. pBDT[d] = h /\ h \in PP
      BY <1>2, <1>typed, <2>1, <2>2 DEF PointersAgree
    <3>2. next' = 1 - h
      BY <2>1, <2>2, <3>1 DEF Toggled
    <3> QED
      BY <1>2, <2>1, <2>2, <3>2 DEF TogglesAgree, PointersAgree, Arming, Live, ep
  <2>3. CASE d # xdir
    BY <1>2, <2>1, <2>3 DEF TogglesAgree, PointersAgree, Arming, Live, ep
  <2> QED
    BY <2>2, <2>3
<1>8. CASE WriteEntry
  <2>1. /\ MainStep /\ UNCHANGED <<bd, sie, handle, hostTog, xdir, h>> /\ pc = "write" /\ pc' = "store"
        /\ pBDT' = [pBDT EXCEPT ![xdir] = next]
    BY <1>8 DEF WriteEntry, MainStep, At, Go, main, host
  <2>2. pBDT'[d] = IF d = xdir THEN next ELSE pBDT[d]
    BY <1>core, <2>1 DEF TypeOK
  <2>3. CASE d = xdir
    BY <1>2, <1>typed, <2>1, <2>2, <2>3 DEF TogglesAgree, PointersAgree, Arming, Live
  <2>4. CASE d # xdir
    BY <1>2, <2>1, <2>2, <2>4 DEF TogglesAgree, PointersAgree, Arming, Live
  <2> QED
    BY <2>3, <2>4
<1>9. CASE StoreHandle
  <2>1. /\ MainStep /\ UNCHANGED <<bd, sie, pBDT, hostTog>> /\ pc = "store"
        /\ handle' = [handle EXCEPT ![xdir] = h] /\ xdir' = "OUT"
        /\ pc' = IF xdir = "IN" THEN "load" ELSE "state"
    BY <1>9 DEF StoreHandle, MainStep, At, Go, main, host
  <2>2. handle'[d] = IF d = xdir THEN h ELSE handle[d]
    BY <1>core, <2>1 DEF TypeOK
  <2>3. xdir = "IN" => ~Live("OUT", sie["OUT"])
    BY <1>2, <2>1 DEF Inv, BufferHeld, Handling, Transfer
  <2>4. CASE d = xdir
    BY <1>2, <1>typed, <2>1, <2>2, <2>3, <2>4 DEF TogglesAgree, PointersAgree, Arming, Live
  <2>5. CASE d # xdir
    BY <1>2, <2>1, <2>2, <2>3, <2>5 DEF TogglesAgree, PointersAgree, Arming, Live
  <2> QED
    BY <2>4, <2>5
<1>10. ASSUME NEW e \in Dirs, SetHalt(e) \/ ClearHalt(e) PROVE TogglesAgree(d)' /\ PointersAgree(d)'
  <2>0. Operational /\ TogglesAgree(d) /\ PointersAgree(d)
    BY <1>2, <1>10
  <2>1. UNCHANGED <<sie, handle, pc, xdir, h, next>>
    BY <1>10 DEF SetHalt, ClearHalt, HaltRequest, main
  <2>2. CASE e # d
    <3>1. pBDT'[d] = pBDT[d] /\ hostTog'[d] = hostTog[d] /\ \A i \in PP : bd'[d][i] = bd[d][i]
      BY <1>10, <1>core, <2>2, SetHaltEffect, ClearHaltEffect
    <3>2. bd'[d][sie[d]] = bd[d][sie[d]] /\ bd'[d][1 - sie[d]] = bd[d][1 - sie[d]]
      BY <1>typed, <3>1
    <3> QED
      BY <2>0, <2>1, <3>1, <3>2 DEF TogglesAgree, PointersAgree, Arming, Live
  <2>3. CASE SetHalt(d)
    <3>1. /\ pBDT'[d] = sie[d] /\ hostTog' = hostTog /\ bd'[d][sie[d]].stall
          /\ bd'[d][sie[d]].dts = bd[d][sie[d]].dts /\ bd'[d][1 - sie[d]] = bd[d][1 - sie[d]]
      BY <1>core, <2>3, SetHaltEffect
    <3>2. ~(pc \in {"toggle", "write"} /\ xdir = d)
      BY <2>3 DEF SetHalt, HaltRequest, CutsTransfer, Operational
    <3> QED
      BY <2>0, <1>typed, <2>1, <3>1, <3>2 DEF TogglesAgree, PointersAgree, Arming, Live
  <2>4. CASE ClearHalt(d)
    <3>1. /\ pBDT'[d] = sie[d] /\ hostTog'[d] = 0 /\ bd'[d][sie[d]] = NoBD
          /\ ~bd'[d][1 - sie[d]].uown /\ bd'[d][1 - sie[d]].dts = 1
      BY <1>core, <2>4, ClearHaltEffect
    <3>2. ~(pc \in {"toggle", "write"} /\ xdir = d)
      BY <2>4 DEF ClearHalt, HaltRequest, CutsTransfer, Operational
    <3> QED
      BY <2>0, <1>typed, <2>1, <3>1, <3>2, NoBDFields DEF TogglesAgree, PointersAgree, Arming, Live
  <2> QED
    BY <1>10, <2>2, <2>3, <2>4
<1>11. ASSUME NEW e \in Dirs, CanMove(e), Moved(e), UNCHANGED <<pBDT, handle, pc, xdir, h, next, devState, disturbed>>
       PROVE TogglesAgree(d)' /\ PointersAgree(d)'
  <2>1. Operational /\ TogglesAgree(d) /\ PointersAgree(d)
    BY <1>11 DEF Inv, EndpointsAgree, Operational
  <2>2. CASE e # d
    <3>1. sie'[d] = sie[d] /\ hostTog'[d] = hostTog[d] /\ \A i \in PP : bd'[d][i] = bd[d][i]
      BY <1>11, <1>core, <2>2, MoveEffect
    <3>2. bd'[d][sie[d]] = bd[d][sie[d]] /\ bd'[d][1 - sie[d]] = bd[d][1 - sie[d]]
      BY <1>typed, <3>1
    <3> QED
      BY <1>11, <2>1, <3>1, <3>2 DEF TogglesAgree, PointersAgree, Arming, Live
  <2>3. CASE e = d
    <3>1. /\ sie'[d] = 1 - sie[d] /\ hostTog'[d] = 1 - hostTog[d]
          /\ ~bd'[d][sie[d]].uown /\ bd'[d][sie[d]].dts = bd[d][sie[d]].dts
          /\ bd'[d][1 - sie[d]] = bd[d][1 - sie[d]]
      BY <1>11, <1>core, <2>3, MoveEffect
    <3>2. Live(d, sie[d])
      BY <1>11, <2>3 DEF CanMove
    <3>3. TogglesAgree(d)'
      BY <1>typed, <2>1, <3>1 DEF TogglesAgree, PP
    <3>4. PointersAgree(d)'
      BY <1>11, <1>typed, <2>1, <3>1, <3>2 DEF TogglesAgree, PointersAgree, Arming, Live
    <3> QED
      BY <3>3, <3>4
  <2> QED
    BY <2>2, <2>3
<1>12. CASE UNCHANGED <<bd, sie, pBDT, handle, hostTog, pc, xdir, h, next, devState, disturbed>>
  <2>1. Operational /\ TogglesAgree(d) /\ PointersAgree(d)
    BY <1>12 DEF Inv, EndpointsAgree, Operational
  <2> QED
    BY <1>12, <2>1 DEF TogglesAgree, PointersAgree, Arming, Live
<1>13. CASE SieOut \/ SieIn
  <2>1. CASE SieOut
    BY <1>11, <2>1 DEF SieOut, device, main, Dirs
  <2>2. CASE SieInAcknowledged
    BY <1>11, <2>2 DEF SieInAcknowledged, device, main, Dirs, hist
  <2>3. CASE SieReading
    BY <1>12, <2>3, SieReadingFrame
  <2> QED
    BY <1>13, <2>1, <2>2, <2>3, SieInCases
<1>14. ~PowerUp /\ ~BusReset /\ ~SetAddress /\ ~Unconfigure
  BY DEF PowerUp, BusReset, SetAddress, Unconfigure, Operational
<1> QED
  BY <1>1, <1>3, <1>4, <1>5, <1>6, <1>7, <1>8, <1>9, <1>10, <1>12, <1>13, <1>14
  DEF Next, MainStep, Isr, Suspend, Resume, HostOffer, vars, device, ep, main, host, hist

-----------------------------------------------------------------------------
(***************************************************************************)
(* The receive buffer: who may touch it, and what is known of a packet.    *)
(***************************************************************************)

LEMMA OutFacts ==
  ASSUME Inv, Operational
  PROVE  /\ TogglesAgree("OUT") /\ PointersAgree("OUT")
         /\ sie["OUT"] \in PP /\ 1 - sie["OUT"] \in PP /\ 1 - sie["OUT"] # sie["OUT"]
         /\ 1 - (1 - sie["OUT"]) = sie["OUT"] /\ xdir \in Dirs
<1>1. "OUT" \in Dirs
  BY DEF Dirs
<1> QED
  BY <1>1, Typed DEF Inv, EndpointsAgree

LEMMA BufferInit == Init => BufferHeld /\ FreshIsSeen /\ QuietIsArmed
  BY DEF Init, BufferHeld, FreshIsSeen, QuietIsArmed, Operational

(* What only one step of the main loop changes. *)
LEMMA MainOutFrame ==
  ASSUME TypeOK, MainStep
  PROVE  /\ UNCHANGED <<devState, disturbed, quiet, sie>>
         /\ ~ArmBD => UNCHANGED bd
         /\ ~Switch => UNCHANGED fresh
         /\ ~StoreHandle => UNCHANGED handle
         /\ ~LoadHandle /\ ~StoreHandle => UNCHANGED h
<1>1. UNCHANGED <<devState, disturbed, quiet, sie>>
  BY MainFrame
<1> QED
  BY <1>1 DEF MainStep, CheckState, CheckSuspended, CheckRxHandle, Switch, CopyIn, WriteReg, RfCtrl,
     ReplyHeader, ReplyBody, CheckTxHandle, LoadHandle, ArmBD, ReadEntry, WriteEntry, StoreHandle, ep

LEMMA BufferMain ==
  ASSUME Inv, MainStep
  PROVE  BufferHeld' /\ FreshIsSeen' /\ QuietIsArmed'
<1>core. Core /\ TypeOK /\ Polling /\ BufferHeld /\ FreshIsSeen /\ QuietIsArmed
  BY DEF Inv, Core
<1>frame. /\ UNCHANGED <<devState, disturbed, quiet, sie>>
          /\ ~ArmBD => UNCHANGED bd
          /\ ~Switch => UNCHANGED fresh
          /\ ~StoreHandle => UNCHANGED handle
          /\ ~LoadHandle /\ ~StoreHandle => UNCHANGED h
  BY <1>core, MainOutFrame
<1>op. (Operational' <=> Operational) /\ (quiet /\ ~disturbed => Operational)
  BY <1>core, <1>frame DEF Operational, QuietIsArmed
<1>out. ASSUME Operational
        PROVE  /\ TogglesAgree("OUT") /\ PointersAgree("OUT")
               /\ sie["OUT"] \in PP /\ 1 - sie["OUT"] \in PP /\ 1 - sie["OUT"] # sie["OUT"]
               /\ 1 - (1 - sie["OUT"]) = sie["OUT"] /\ xdir \in Dirs
  BY <1>out, OutFacts
<1> USE DEF Handling, Top, Handler, Transfer
<1>1. CASE CheckState \/ CheckSuspended
  <2>1. pc \in Top /\ pc' \in Top /\ UNCHANGED <<bd, fresh, handle, xdir, h>>
    BY <1>1 DEF CheckState, CheckSuspended, At, Go, ep
  <2> QED
    BY <1>core, <1>frame, <1>op, <2>1 DEF BufferHeld, FreshIsSeen, QuietIsArmed, Live
<1>2. CASE CheckRxHandle
  <2>1. /\ pc = "rxbusy" /\ UNCHANGED <<bd, fresh, handle, xdir, h>>
        /\ pc' = IF Busy(handle["OUT"], "OUT") THEN "state" ELSE "switch"
    BY <1>2 DEF CheckRxHandle, At, Go, ep
  <2>2. Operational /\ pc' = "switch" => ~Live("OUT", sie["OUT"])
    <3>1. sie["OUT"] # NULL
      BY <1>core DEF TypeOK, PP, NULL, Dirs
    <3> QED
      BY <1>out, <2>1, <3>1 DEF PointersAgree, Arming, Live, Busy
  <2>3. quiet /\ ~disturbed /\ pc' = "switch" => fresh
    BY <1>core, <1>op, <2>1, <2>2 DEF QuietIsArmed
  <2> QED
    BY <1>core, <1>frame, <1>op, <2>1, <2>2, <2>3 DEF BufferHeld, FreshIsSeen, QuietIsArmed, Live
<1>3. CASE Switch
  <2>1. pc = "switch" /\ pc' \in Handler \cup {"load"} /\ pc' # "switch" /\ ~fresh' /\ UNCHANGED <<bd, handle, xdir, h>>
    BY <1>3 DEF Switch, At, Go, ep
  <2> QED
    BY <1>core, <1>frame, <1>op, <2>1 DEF BufferHeld, FreshIsSeen, QuietIsArmed, Live
<1>4. CASE CopyIn \/ WriteReg \/ RfCtrl \/ ReplyHeader \/ ReplyBody \/ CheckTxHandle
  <2>1. /\ pc \in Handler /\ pc # "switch" /\ pc' \in Handler \cup {"load"} /\ pc' # "switch"
        /\ UNCHANGED <<bd, fresh, handle, h>>
    BY <1>4 DEF CopyIn, WriteReg, RfCtrl, ReplyHeader, ReplyBody, CheckTxHandle, At, Go, ep
  <2> QED
    BY <1>core, <1>frame, <1>op, <2>1 DEF BufferHeld, FreshIsSeen, QuietIsArmed, Live
<1>5. CASE LoadHandle
  <2>1. /\ pc = "load" /\ UNCHANGED <<bd, fresh, handle, xdir, pBDT>>
        /\ pc' = IF pBDT[xdir] = NULL THEN "store" ELSE "arm"
    BY <1>5 DEF LoadHandle, At, Go, ep
  <2>2. Operational => pc' = "arm"
    BY <1>core, <1>out, <2>1 DEF Core, PointersSet, Operational, PP, NULL
  <2> QED
    BY <1>core, <1>frame, <1>op, <2>1, <2>2 DEF BufferHeld, FreshIsSeen, QuietIsArmed, Live
<1>6. CASE ArmBD
  <2>1. pc = "arm" /\ pc' = "toggle" /\ UNCHANGED <<fresh, handle, xdir, h>>
    BY <1>6 DEF ArmBD, At, Go
  <2>2. xdir \in Dirs /\ "OUT" \in Dirs /\ sie["OUT"] \in PP
    BY <1>core DEF TypeOK, Dirs
  <2>3. CASE xdir = "OUT"
    <3>1. bd'["OUT"][h].uown /\ ~bd'["OUT"][h].stall
      BY <1>6, <1>core, <2>3, ArmEffect
    <3>2. Operational => h = sie["OUT"] /\ ~fresh
      BY <1>core, <1>out, <2>1, <2>3 DEF PointersAgree, FreshIsSeen
    <3> QED
      BY <1>core, <1>frame, <1>op, <2>1, <2>3, <3>1, <3>2 DEF BufferHeld, FreshIsSeen, QuietIsArmed, Live
  <2>4. CASE xdir = "IN"
    <3>1. bd'["OUT"][sie["OUT"]] = bd["OUT"][sie["OUT"]]
      BY <1>6, <1>core, <2>2, <2>4, ArmEffect
    <3> QED
      BY <1>core, <1>frame, <1>op, <2>1, <2>4, <3>1 DEF BufferHeld, FreshIsSeen, QuietIsArmed, Live
  <2> QED
    BY <2>2, <2>3, <2>4 DEF Dirs
<1>7. CASE ReadEntry \/ WriteEntry
  <2>1. pc \in {"toggle", "write"} /\ pc' \in {"write", "store"} /\ UNCHANGED <<bd, fresh, handle, xdir, h>>
    BY <1>7 DEF ReadEntry, WriteEntry, At, Go, ep
  <2> QED
    BY <1>core, <1>frame, <1>op, <2>1 DEF BufferHeld, FreshIsSeen, QuietIsArmed, Live
<1>8. CASE StoreHandle
  <2>1. /\ pc = "store" /\ UNCHANGED <<bd, fresh>> /\ xdir' = "OUT"
        /\ handle' = [handle EXCEPT ![xdir] = h]
        /\ pc' = IF xdir = "IN" THEN "load" ELSE "state"
    BY <1>8 DEF StoreHandle, At, Go
  <2>2. xdir = "OUT" => handle'["OUT"] = h
    BY <1>core, <2>1 DEF TypeOK, Dirs
  <2> QED
    BY <1>core, <1>frame, <1>op, <2>1, <2>2 DEF BufferHeld, FreshIsSeen, QuietIsArmed, Live, TypeOK, Dirs
<1> QED
  BY <1>1, <1>2, <1>3, <1>4, <1>5, <1>6, <1>7, <1>8 DEF MainStep

LEMMA BufferStep ==
  ASSUME Inv, [Next]_vars
  PROVE  BufferHeld' /\ FreshIsSeen' /\ QuietIsArmed'
<1>core. Core /\ TypeOK /\ Polling /\ EnabledIsConfigured /\ BufferHeld /\ FreshIsSeen /\ QuietIsArmed
  BY DEF Inv, Core
<1>dirs. "OUT" \in Dirs /\ "IN" \in Dirs
  BY DEF Dirs
<1>typed. sie["OUT"] \in PP /\ 1 - sie["OUT"] \in PP /\ 1 - (1 - sie["OUT"]) = sie["OUT"]
  BY <1>core, <1>dirs, Typed
<1> USE DEF Handling
<1>1. CASE MainStep
  BY <1>1, BufferMain
<1>2. CASE BusReset \/ Unconfigure
  BY <1>2 DEF BusReset, Unconfigure, BufferHeld, FreshIsSeen, QuietIsArmed, Operational
<1>3. CASE Configure
  <2>1. ~fresh' /\ ~quiet' /\ UNCHANGED <<pc, xdir>> /\ (~disturbed' => pc \in Top)
    BY <1>3 DEF Configure, main
  <2> QED
    BY <2>1 DEF BufferHeld, FreshIsSeen, QuietIsArmed, Operational, Top, Handler, Transfer
<1>4. ASSUME NEW e \in Dirs, SetHalt(e) \/ ClearHalt(e) PROVE BufferHeld' /\ FreshIsSeen' /\ QuietIsArmed'
  <2>1. /\ UNCHANGED <<devState, sie, handle, pc, xdir, h, fresh>> /\ devState = "CONFIGURED"
        /\ (quiet' => quiet /\ e # "OUT")
    BY <1>4 DEF SetHalt, ClearHalt, HaltRequest, main, device
  <2>2. ~disturbed' => ~disturbed
    <3>1. HaltRequest(e)
      BY <1>4 DEF SetHalt, ClearHalt
    <3>2. disturbed' <=> disturbed \/ CutsTransfer(e)
      BY <3>1 DEF HaltRequest
    <3> QED
      BY <3>2
  <2>3. CASE e = "OUT"
    <3>1. ~Live("OUT", sie["OUT"])'
      <4>1. CASE SetHalt("OUT")
        BY <1>core, <1>dirs, <4>1, <2>1, SetHaltEffect DEF Live
      <4>2. CASE ClearHalt("OUT")
        BY <1>core, <1>dirs, <4>2, <2>1, ClearHaltEffect, NoBDFields DEF Live
      <4> QED
        BY <1>4, <2>3, <4>1, <4>2
    <3> QED
      BY <1>core, <2>1, <2>2, <2>3, <3>1 DEF BufferHeld, FreshIsSeen, QuietIsArmed, Operational
  <2>4. CASE e # "OUT"
    <3>1. bd'["OUT"][sie["OUT"]] = bd["OUT"][sie["OUT"]]
      BY <1>4, <1>core, <1>dirs, <1>typed, <2>4, SetHaltEffect, ClearHaltEffect
    <3> QED
      BY <1>core, <2>1, <2>2, <3>1 DEF BufferHeld, FreshIsSeen, QuietIsArmed, Operational, Live
  <2> QED
    BY <2>3, <2>4
<1>5. CASE SieOut
  <2>1. /\ UNCHANGED <<devState, handle, pc, xdir, h, disturbed>> /\ fresh' /\ Moved("OUT")
        /\ Live("OUT", sie["OUT"]) /\ uep1
    BY <1>5 DEF SieOut, CanMove, main, device
  <2>2. /\ sie'["OUT"] = 1 - sie["OUT"] /\ bd'["OUT"][1 - sie["OUT"]] = bd["OUT"][1 - sie["OUT"]]
    BY <1>core, <1>dirs, <2>1, MoveEffect
  <2>3. devState = "CONFIGURED"
    BY <1>core, <2>1 DEF EnabledIsConfigured
  <2>4. CASE disturbed
    BY <2>1, <2>3, <2>4 DEF BufferHeld, FreshIsSeen, QuietIsArmed, Operational
  <2>5. CASE ~disturbed
    <3>1. Operational /\ TogglesAgree("OUT") /\ PointersAgree("OUT")
      BY <2>3, <2>5, OutFacts DEF Operational
    <3>2. ~Live("OUT", sie["OUT"])'
      BY <2>2, <3>1 DEF Live, TogglesAgree
    <3>3. ~Handling
      BY <1>core, <2>1, <3>1 DEF BufferHeld
    <3>4. pc \in Top => handle["OUT"] = sie["OUT"]
      BY <2>1, <3>1 DEF PointersAgree, Arming, Top
    <3>5. pc \in {"toggle", "write", "store"} => h = sie["OUT"]
      <4>1. pc \in {"toggle", "write", "store"} => xdir = "OUT"
        BY <1>core, <3>3 DEF Transfer, TypeOK, Dirs
      <4> QED
        BY <2>1, <3>1, <4>1 DEF PointersAgree, Live
    <3> QED
      BY <1>typed, <2>1, <2>2, <2>3, <2>5, <3>2, <3>3, <3>4, <3>5
      DEF BufferHeld, FreshIsSeen, QuietIsArmed, Operational, Handler
  <2> QED
    BY <2>4, <2>5
<1>6. CASE SieInAcknowledged
  <2>1. UNCHANGED <<devState, handle, pc, xdir, h, disturbed, fresh, quiet>> /\ Moved("IN")
    BY <1>6 DEF SieInAcknowledged, main, device, hist
  <2>2. sie'["OUT"] = sie["OUT"] /\ \A i \in PP : bd'["OUT"][i] = bd["OUT"][i]
    BY <1>core, <1>dirs, <2>1, MoveEffect
  <2>3. bd'["OUT"][sie["OUT"]] = bd["OUT"][sie["OUT"]]
    BY <1>typed, <2>2
  <2> QED
    BY <1>core, <2>1, <2>2, <2>3 DEF BufferHeld, FreshIsSeen, QuietIsArmed, Operational, Live
<1>7. CASE PowerUp \/ SetAddress
  <2>1. devState # "CONFIGURED" /\ devState' # "CONFIGURED" /\ UNCHANGED <<quiet, disturbed>>
    BY <1>7 DEF PowerUp, SetAddress, hist
  <2> QED
    BY <1>core, <2>1 DEF BufferHeld, FreshIsSeen, QuietIsArmed, Operational
<1>8. CASE UNCHANGED <<devState, bd, sie, handle, pc, xdir, h, fresh, quiet, disturbed>>
  BY <1>core, <1>8 DEF BufferHeld, FreshIsSeen, QuietIsArmed, Operational, Live
<1> QED
  BY <1>1, <1>2, <1>3, <1>4, <1>5, <1>6, <1>7, <1>8, SieInCases, SieReadingFrame
  DEF Next, Isr, Suspend, Resume, HostOffer, vars, device, ep, main, hist

-----------------------------------------------------------------------------
(***************************************************************************)
(* The synthesiser's setting.                                              *)
(***************************************************************************)
LEMMA SettingInit == Init => SettingMoves
  BY NumRegsAssumption DEF Init, SettingMoves, Mixed

LEMMA SettingStep ==
  ASSUME Inv, [Next]_vars
  PROVE  SettingMoves'
<1>core. Core /\ TypeOK /\ EnabledIsConfigured /\ BufferHeld /\ SettingMoves
  BY DEF Inv, Core
<1>idx. idx \in Nat /\ idx <= NumRegs - 1 /\ NumRegs \in Nat \ {0}
  BY <1>core, NumRegsAssumption DEF TypeOK
<1>1. CASE Switch
  <2>1. /\ pc = "switch" /\ pc' # "latch" /\ UNCHANGED <<reg, chip, idx, rxBuf, disturbed>>
        /\ pc' = "copyin" <=> rxBuf.cmd = "SET_REG"
        /\ lastSet' = IF rxBuf.cmd # "SET_REG" THEN lastSet
                      ELSE IF disturbed THEN Mixed ELSE rxBuf.id
    BY <1>1 DEF Switch, At, Go, outputs, Reads, Ignored
  <2> QED
    BY <1>core, <1>idx, <2>1 DEF SettingMoves
<1>2. CASE CopyIn
  <2>1. /\ pc = "copyin" /\ reg' = [reg EXCEPT ![idx] = rxBuf.id]
        /\ UNCHANGED <<chip, rxBuf, lastSet, disturbed>>
    BY <1>2 DEF CopyIn, At, hist
  <2>2. IF idx < NumRegs - 1 THEN idx' = idx + 1 /\ pc' = pc ELSE idx' = idx /\ pc' = "latch"
    BY <1>2 DEF CopyIn, Go
  <2>3. /\ rxBuf.id \in Ids /\ idx \in 0 .. NumRegs - 1
        /\ \A j \in 0 .. NumRegs - 1 : reg'[j] = IF j = idx THEN rxBuf.id ELSE reg[j]
    BY <1>core, <2>1, SettingUpdate, DataTypes DEF TypeOK
  <2>4. CASE idx < NumRegs - 1
    BY <1>core, <1>idx, <2>1, <2>2, <2>3, <2>4 DEF SettingMoves
  <2>5. CASE ~(idx < NumRegs - 1)
    <3>1. idx = NumRegs - 1
      BY <1>idx, <2>5
    <3> QED
      BY <1>core, <1>idx, <2>1, <2>2, <2>3, <2>5, <3>1 DEF SettingMoves
  <2> QED
    BY <2>4, <2>5
<1>3. CASE WriteReg
  <2>1. /\ pc = "latch" /\ chip' = [chip EXCEPT ![idx] = reg[idx]]
        /\ UNCHANGED <<reg, rxBuf, lastSet, disturbed>>
    BY <1>3 DEF WriteReg, At, hist
  <2>2. IF idx > 0 THEN idx' = idx - 1 /\ pc' = pc ELSE idx' = idx /\ pc' = "load"
    BY <1>3 DEF WriteReg, Go
  <2>3. /\ idx \in 0 .. NumRegs - 1
        /\ \A j \in 0 .. NumRegs - 1 : chip'[j] = IF j = idx THEN reg[idx] ELSE chip[j]
    BY <1>core, <2>1, SettingUpdate DEF TypeOK, Settings
  <2>4. CASE idx > 0
    BY <1>core, <1>idx, <2>1, <2>2, <2>3, <2>4 DEF SettingMoves
  <2>5. CASE ~(idx > 0)
    <3>1. idx = 0
      BY <1>idx, <2>5
    <3> QED
      BY <1>core, <1>idx, <2>1, <2>2, <2>3, <2>5, <3>1 DEF SettingMoves
  <2> QED
    BY <2>4, <2>5
<1>4. CASE MainStep /\ ~Switch /\ ~CopyIn /\ ~WriteReg
  <2>1. /\ pc \notin {"copyin", "latch"} /\ pc' \notin {"copyin", "latch"}
        /\ UNCHANGED <<reg, chip, idx, lastSet>>
    BY <1>4 DEF MainStep, CheckState, CheckSuspended, CheckRxHandle, RfCtrl, ReplyHeader, ReplyBody,
       CheckTxHandle, LoadHandle, ArmBD, ReadEntry, WriteEntry, StoreHandle, At, Go, outputs, hist
  <2> QED
    BY <1>core, <2>1 DEF SettingMoves
<1>5. CASE Configure
  <2>1. UNCHANGED <<pc, idx, reg, chip, rxBuf>> /\ lastSet' = IF pc = "copyin" THEN Mixed ELSE lastSet
    BY <1>5 DEF Configure, main, outputs
  <2> QED
    BY <1>core, <2>1 DEF SettingMoves
<1>6. ASSUME NEW e \in Dirs, SetHalt(e) \/ ClearHalt(e) PROVE SettingMoves'
  <2>1. HaltRequest(e)
    BY <1>6 DEF SetHalt, ClearHalt
  <2>2. UNCHANGED <<pc, idx, reg, chip, rxBuf, lastSet>> /\ (disturbed' <=> disturbed \/ CutsTransfer(e))
    BY <2>1 DEF HaltRequest, main, outputs
  <2> QED
    BY <1>core, <2>2 DEF SettingMoves, CutsTransfer
<1>7. CASE SieOut
  <2>1. UNCHANGED <<pc, idx, reg, chip, lastSet, disturbed>> /\ uep1 /\ Live("OUT", sie["OUT"])
    BY <1>7 DEF SieOut, CanMove, main, outputs
  <2>2. pc = "copyin" => disturbed
    BY <1>core, <2>1 DEF BufferHeld, Handling, Handler, EnabledIsConfigured, Operational
  <2> QED
    BY <1>core, <2>1, <2>2 DEF SettingMoves
<1>8. CASE UNCHANGED <<pc, idx, reg, chip, rxBuf, lastSet, disturbed>>
  BY <1>core, <1>8 DEF SettingMoves
<1> QED
  BY <1>1, <1>2, <1>3, <1>4, <1>5, <1>6, <1>7, <1>8, SieInFrame
  DEF Next, Isr, PowerUp, BusReset, SetAddress, Unconfigure, Suspend, Resume, HostOffer,
      vars, main, outputs, hist

-----------------------------------------------------------------------------
(***************************************************************************)
(* The reply.                                                              *)
(***************************************************************************)
LEMMA ReplyInit == Init => ReplyMoves
  BY DEF Init, ReplyMoves, Operational

LEMMA ReplyMain ==
  ASSUME Inv, MainStep
  PROVE  ReplyMoves'
<1>core. Core /\ TypeOK /\ Polling /\ ReadingIsLive /\ ReplyMoves
  BY DEF Inv, Core
<1>frame. /\ UNCHANGED <<devState, disturbed, sie, got, reading, rxBuf>>
          /\ ~ArmBD => UNCHANGED bd
          /\ ~Switch => UNCHANGED lastReq
          /\ ~CheckTxHandle => UNCHANGED overtaken
          /\ ~ReplyHeader /\ ~ReplyBody => UNCHANGED txBuf
  <2>1. UNCHANGED <<devState, disturbed, sie, got, reading, rxBuf>>
    BY MainFrame
  <2> QED
    BY <2>1 DEF MainStep, CheckState, CheckSuspended, CheckRxHandle, Switch, CopyIn, WriteReg, RfCtrl,
       ReplyHeader, ReplyBody, CheckTxHandle, LoadHandle, ArmBD, ReadEntry, WriteEntry, StoreHandle, ep, hist
<1>op. Operational' <=> Operational
  BY <1>frame DEF Operational
<1>in. ASSUME Operational
       PROVE  TogglesAgree("IN") /\ PointersAgree("IN") /\ sie["IN"] \in PP
  BY <1>core, <1>in DEF Inv, EndpointsAgree, TypeOK, Dirs
<1> USE DEF Replying
<1>1. CASE CheckState \/ CheckSuspended \/ CheckRxHandle \/ CopyIn \/ WriteReg \/ RfCtrl
  <2>1. /\ pc \in Top \cup {"copyin", "latch", "rfctl"} /\ xdir = "OUT" /\ UNCHANGED xdir
        /\ pc' \in Top \cup {"switch", "copyin", "latch", "load"}
        /\ UNCHANGED <<bd, txBuf, lastReq, overtaken>>
    BY <1>1, <1>core DEF Polling, CheckState, CheckSuspended, CheckRxHandle, CopyIn, WriteReg, RfCtrl,
       At, Go, Top, Handler, ep, hist
  <2> QED
    BY <1>core, <1>frame, <1>op, <2>1 DEF ReplyMoves, Top, Live, Due, PartOf
<1>2. CASE Switch
  <2>1. /\ pc = "switch" /\ xdir = "OUT" /\ UNCHANGED <<xdir, bd, txBuf, overtaken>>
        /\ lastReq' = IF rxBuf.cmd \in Reads THEN rxBuf.id ELSE lastReq
    BY <1>2, <1>core DEF Polling, Switch, At, Handler, ep
  <2>2. IF rxBuf.cmd \in Reads THEN pc' = "hdr" ELSE pc' \in {"copyin", "rfctl", "load"}
    BY <1>2 DEF Switch, Go, Reads, Ignored
  <2> QED
    BY <1>core, <1>frame, <1>op, <2>1, <2>2 DEF ReplyMoves, Live, Due, PartOf
<1>3. CASE ReplyHeader
  <2>1. pc = "hdr" /\ pc' = "body" /\ txBuf' = [txBuf EXCEPT !.hdr = rxBuf]
    BY <1>3 DEF ReplyHeader, At, Go
  <2>2. txBuf'.hdr = rxBuf
    BY <1>core, <2>1, DataTypes, ReplyUpdate DEF TypeOK
  <2> QED
    BY <1>core, <1>frame, <1>op, <1>3, <2>1, <2>2 DEF ReplyMoves, Switch, At
<1>4. CASE ReplyBody
  <2>1. pc = "body" /\ pc' = "txbusy" /\ txBuf' = [txBuf EXCEPT !.body = rxBuf]
    BY <1>4 DEF ReplyBody, At, Go
  <2>2. txBuf'.hdr = txBuf.hdr /\ txBuf'.body = rxBuf
    BY <1>core, <2>1, DataTypes, ReplyUpdate DEF TypeOK
  <2> QED
    BY <1>core, <1>frame, <1>op, <1>4, <2>1, <2>2 DEF ReplyMoves, Switch, At
<1>reply. Operational /\ lastReq # 0 /\ pc \in {"txbusy", "load", "arm"} /\ Replying => Due(txBuf)
  BY <1>core DEF ReplyMoves, Due
<1>5. CASE CheckTxHandle
  <2>1. /\ pc = "txbusy" /\ pc' = "load" /\ UNCHANGED <<bd, txBuf, lastReq>>
        /\ xdir' = IF Busy(handle["IN"], "IN") THEN "OUT" ELSE "IN"
    BY <1>5 DEF CheckTxHandle, At, Go, ep
  <2>2. Operational /\ Busy(handle["IN"], "IN") /\ ~bd["IN"][sie["IN"]].stall => Live("IN", sie["IN"])
    <3>1. "IN" \in Dirs /\ handle["IN"] \in PP \cup {NULL}
      BY <1>core DEF TypeOK, Dirs
    <3>2. handle["IN"] # NULL => handle["IN"] = sie["IN"] \/ handle["IN"] = 1 - sie["IN"]
      BY <1>core, <3>1, Typed
    <3> QED
      BY <1>in, <3>1, <3>2 DEF TogglesAgree, Live, Busy
  <2>3. Busy(handle["IN"], "IN") /\ ~overtaken' =>
          \A piece \in {reading.hdr, reading.body} : piece.id \in {NotRead.id, rxBuf.id}
    BY <1>5 DEF CheckTxHandle
  <2> QED
    BY <1>core, <1>frame, <1>op, <1>reply, <2>1, <2>2, <2>3 DEF ReplyMoves, Live, Due, PartOf
<1>6. CASE LoadHandle
  <2>1. /\ pc = "load" /\ UNCHANGED <<bd, txBuf, lastReq, xdir, overtaken>>
        /\ pc' = IF pBDT[xdir] = NULL THEN "store" ELSE "arm"
    BY <1>6 DEF LoadHandle, At, Go, ep, hist
  <2>2. Operational => pc' = "arm"
    BY <1>core, <2>1 DEF Core, PointersSet, Operational, PP, NULL, TypeOK
  <2> QED
    BY <1>core, <1>frame, <1>op, <2>1, <2>2 DEF ReplyMoves, Live, Due, PartOf
<1>7. CASE ArmBD
  <2>1. pc = "arm" /\ pc' = "toggle" /\ UNCHANGED <<txBuf, lastReq, xdir, overtaken>>
    BY <1>7 DEF ArmBD, At, Go, hist
  <2>2. xdir \in Dirs /\ "IN" \in Dirs
    BY <1>core DEF TypeOK, Dirs
  <2>3. CASE xdir = "IN"
    <3>1. bd'["IN"][h].uown /\ ~bd'["IN"][h].stall
      BY <1>7, <1>core, <2>3, ArmEffect
    <3>2. Operational => h = sie["IN"]
      BY <1>in, <2>1, <2>3 DEF PointersAgree
    <3>3. Operational => reading = NoBytes
      BY <1>core, <1>in, <2>1, <2>3 DEF ReadingIsLive, PointersAgree
    <3> QED
      BY <1>core, <1>frame, <1>op, <1>reply, <2>1, <2>3, <3>1, <3>2, <3>3, PieceTypes
      DEF ReplyMoves, Live, Due, PartOf
  <2>4. CASE xdir = "OUT"
    <3>1. sie["IN"] \in PP
      BY <1>core DEF TypeOK, Dirs
    <3>2. bd'["IN"][sie["IN"]] = bd["IN"][sie["IN"]]
      BY <1>7, <1>core, <2>2, <2>4, <3>1, ArmEffect
    <3> QED
      BY <1>core, <1>frame, <1>op, <2>1, <2>4, <3>2 DEF ReplyMoves, Live, Due, PartOf
  <2> QED
    BY <2>2, <2>3, <2>4 DEF Dirs
<1>8. CASE ReadEntry \/ WriteEntry \/ StoreHandle
  <2>1. /\ pc \in {"toggle", "write", "store"} /\ UNCHANGED <<bd, txBuf, lastReq, overtaken>>
        /\ pc' \in {"write", "store", "state", "load"}
        /\ pc' = "load" => xdir' = "OUT"
    BY <1>8 DEF ReadEntry, WriteEntry, StoreHandle, At, Go, ep, hist
  <2> QED
    BY <1>core, <1>frame, <1>op, <2>1 DEF ReplyMoves, Live, Due, PartOf
<1> QED
  BY <1>1, <1>2, <1>3, <1>4, <1>5, <1>6, <1>7, <1>8 DEF MainStep

LEMMA ReplyStep ==
  ASSUME Inv, [Next]_vars
  PROVE  ReplyMoves'
<1>core. Core /\ TypeOK /\ EnabledIsConfigured /\ BufferHeld /\ ReadingIsLive /\ ReplyMoves
  BY DEF Inv, Core
<1>dirs. "OUT" \in Dirs /\ "IN" \in Dirs
  BY DEF Dirs
<1>typed. sie["IN"] \in PP /\ 1 - sie["IN"] \in PP
  BY <1>core, <1>dirs, Typed
<1> USE DEF Replying
<1>1. CASE MainStep
  BY <1>1, ReplyMain
<1>2. CASE Configure
  BY <1>2 DEF Configure, ReplyMoves
<1>3. CASE PowerUp \/ BusReset \/ SetAddress \/ Unconfigure
  BY <1>3 DEF PowerUp, BusReset, SetAddress, Unconfigure, ReplyMoves, Operational
<1>4. ASSUME NEW e \in Dirs, SetHalt(e) \/ ClearHalt(e) PROVE ReplyMoves'
  <2>1. HaltRequest(e)
    BY <1>4 DEF SetHalt, ClearHalt
  <2>2. /\ UNCHANGED <<devState, sie, pc, xdir, rxBuf, txBuf, got, reading, overtaken>>
        /\ lastReq' = IF e = "IN" THEN 0 ELSE lastReq
        /\ disturbed' <=> disturbed \/ CutsTransfer(e)
    BY <2>1 DEF HaltRequest, main, device
  <2>3. CASE e = "IN"
    BY <2>2, <2>3 DEF ReplyMoves
  <2>4. CASE e # "IN"
    <3>1. bd'["IN"][sie["IN"]] = bd["IN"][sie["IN"]]
      BY <1>4, <1>core, <1>dirs, <1>typed, <2>4, SetHaltEffect, ClearHaltEffect
    <3> QED
      BY <1>core, <2>2, <2>4, <3>1 DEF ReplyMoves, Operational, Live, Due, PartOf
  <2> QED
    BY <2>3, <2>4
<1>5. CASE SieOut
  <2>1. /\ UNCHANGED <<devState, pc, xdir, txBuf, got, reading, lastReq, disturbed, overtaken>> /\ Moved("OUT")
        /\ Live("OUT", sie["OUT"])
    BY <1>5 DEF SieOut, main, device, CanMove
  <2>2. sie'["IN"] = sie["IN"] /\ \A i \in PP : bd'["IN"][i] = bd["IN"][i]
    BY <1>core, <1>dirs, <2>1, MoveEffect
  <2>3. bd'["IN"][sie["IN"]] = bd["IN"][sie["IN"]]
    BY <1>typed, <2>2
  <2>4. Operational => ~Replying
    BY <1>core, <2>1 DEF BufferHeld, Handling, Handler
  <2> QED
    BY <1>core, <2>1, <2>2, <2>3, <2>4 DEF ReplyMoves, Operational, Live, Due, PartOf
<1>6. CASE SieInAcknowledged
  <2>1. /\ UNCHANGED <<devState, pc, xdir, rxBuf, txBuf, lastReq, disturbed, overtaken>> /\ Moved("IN")
        /\ got' = reading /\ reading.body # NotRead /\ Live("IN", sie["IN"])
    BY <1>6 DEF SieInAcknowledged, main, device, hist, CanMove
  <2>2. sie'["IN"] = 1 - sie["IN"] /\ bd'["IN"][1 - sie["IN"]] = bd["IN"][1 - sie["IN"]]
    BY <1>core, <1>dirs, <2>1, MoveEffect
  <2>3. Operational => ~bd["IN"][1 - sie["IN"]].uown
    BY <1>dirs DEF Inv, EndpointsAgree, TogglesAgree
  <2>4. PartOf(reading) => Due(got')
    <3>1. reading \in Pieces /\ reading.hdr # NotRead
      BY <1>core, <2>1, PieceTypes DEF TypeOK, ReadingIsLive
    <3>2. reading.hdr.id # NotRead.id /\ reading.body.id # NotRead.id
      BY <2>1, <3>1, PieceTypes DEF Pieces
    <3> QED
      BY <2>1, <3>2 DEF PartOf, Due
  <2>5. ~Live("IN", sie["IN"])' \/ ~Operational
    BY <2>2, <2>3 DEF Live
  <2>6. CASE Operational /\ lastReq # 0 /\ ~Replying /\ ~overtaken
    <3>1. Due(got')
      BY <1>core, <2>1, <2>4, <2>6 DEF ReplyMoves, Live
    <3> QED
      BY <2>1, <2>5, <2>6, <3>1 DEF ReplyMoves, Due
  <2> QED
    BY <1>core, <2>1, <2>6 DEF ReplyMoves, Operational
<1>7. CASE SieReading
  <2>1. UNCHANGED <<devState, bd, sie, pc, xdir, rxBuf, txBuf, got, lastReq, disturbed, overtaken>>
    BY <1>7, SieReadingFrame
  <2>2. Due(txBuf) /\ PartOf(reading) => PartOf(reading)'
    <3>1. \/ reading'.hdr = txBuf.hdr /\ reading'.body = NotRead
          \/ reading'.hdr = reading.hdr /\ reading'.body = txBuf.body
      BY <1>core, <1>7, SieReadingEffect
    <3> QED
      BY <2>1, <3>1, PieceTypes DEF PartOf, Due
  <2> QED
    BY <1>core, <2>1, <2>2 DEF ReplyMoves, Operational, Live, Due
<1>8. CASE UNCHANGED <<devState, bd, sie, pc, xdir, rxBuf, txBuf, got, reading, lastReq, disturbed, overtaken>>
  BY <1>core, <1>8 DEF ReplyMoves, Operational, Live, Due, PartOf
<1> QED
  BY <1>1, <1>2, <1>3, <1>4, <1>5, <1>6, <1>7, <1>8, SieInCases
  DEF Next, Isr, Suspend, Resume, HostOffer, vars, device, ep, main, host, hist

-----------------------------------------------------------------------------
LEMMA Invariance == Spec => []Inv
<1>1. Init => Inv
  BY CoreInit, EndpointsInit, BufferInit, SettingInit, ReplyInit DEF Core, Inv
<1>2. Inv /\ [Next]_vars => Inv'
  <2>1. Inv => Core
    BY DEF Inv, Core
  <2> QED
    BY <2>1, CoreStep, EndpointsStep, BufferStep, SettingStep, ReplyStep DEF Core, Inv
<1> QED
  BY <1>1, <1>2, PTL DEF Spec

(* Main loop, SIE and host never fall out of step on an endpoint, unless a *)
(* control request cuts into a poll: the descriptor the loop arms next is  *)
(* the one the SIE uses next, with the host's data toggle.                 *)
THEOREM EndpointsStayInStep == Spec => []EndpointsInStep
<1>1. Inv => EndpointsInStep
  BY DEF Inv, EndpointsAgree, EndpointsInStep, EndpointInStep, TogglesAgree, PointersAgree,
     Arming, Transfer
<1> QED
  BY <1>1, Invariance, PTL

(* The hardware never writes the receive buffer while the handler reads it *)
(* nor over a packet that is still to be handled.                          *)
THEOREM BufferIsOwned == Spec => []ReceiveBufferOwned
<1>1. ASSUME Inv, Operational, pc \in Handler \/ fresh, NEW i \in PP PROVE ~Live("OUT", i)
  <2>1. ~Live("OUT", sie["OUT"])
    BY <1>1 DEF Inv, BufferHeld, Handling
  <2>2. i = sie["OUT"] \/ i = 1 - sie["OUT"]
    BY <1>1, Typed DEF Inv, Dirs
  <2>3. ~bd["OUT"][1 - sie["OUT"]].uown
    BY <1>1 DEF Inv, EndpointsAgree, TogglesAgree, Dirs
  <2> QED
    BY <2>1, <2>2, <2>3 DEF Live
<1>2. Inv => ReceiveBufferOwned
  BY <1>1 DEF ReceiveBufferOwned
<1> QED
  BY <1>2, Invariance, PTL

(* A packet the SIE acknowledged is found by the next poll.                *)
THEOREM PacketIsSeen == Spec => []ReceivedIsSeen
<1>1. Inv => ReceivedIsSeen
  BY DEF Inv, EndpointsAgree, TogglesAgree, FreshIsSeen, ReceivedIsSeen, Busy, Dirs, Operational
<1> QED
  BY <1>1, Invariance, PTL

(* Between polls the synthesiser holds the registers of one SET_REG, the   *)
(* last, for any number of registers.                                      *)
THEOREM OneSetting == Spec => []SynthHoldsOneSetting
<1>1. Inv => SynthHoldsOneSetting
  BY DEF Inv, SettingMoves, SynthHoldsOneSetting, Top
<1> QED
  BY <1>1, Invariance, PTL

(* The reply to the last request is what the host has read or will read,   *)
(* whole, unless the SIE was already sending the buffer when the reply was *)
(* written into it and had not ended when the handler looked.              *)
THEOREM ReplyArrives == Spec => []NewestReplyArrives
<1>1. Inv => NewestReplyArrives
  BY DEF Inv, ReplyMoves, NewestReplyArrives, Replying, Due, PartOf, Top
<1> QED
  BY <1>1, Invariance, PTL

(* No packet is handled twice, unless a bus event took descriptors back.   *)
THEOREM OnceHandled == Spec => []HandledOnce
<1>1. Inv => HandledOnce
  BY DEF Inv, QuietIsArmed, HandledOnce
<1> QED
  BY <1>1, Invariance, PTL
=============================================================================
