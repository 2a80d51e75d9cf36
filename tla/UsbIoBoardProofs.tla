-------------------------- MODULE UsbIoBoardProofs --------------------------
(***************************************************************************)
(* The safety properties of UsbIoBoard and what the device plays of a      *)
(* programmed table (MacroTable), for any table, any range of              *)
(* frequencies, any sweeps and versions and any number of actions.  The    *)
(* handlers compose, so that most lemmas are about one handler, on any     *)
(* window; Inv, the invariant, is then shown action by action.             *)
(***************************************************************************)
EXTENDS MacroTable, FiniteSetTheorems, SequenceTheorems, WellFoundedInduction, TLAPS

(* The conflicts, on any window: what runs has its controls disabled and   *)
(* automatic transmission on, and a macro has a device.                    *)
Guarded(v) ==
  /\ ~(v.sweeping /\ v.isMacroRunning)
  /\ "macroStop" \in v.enabled => v.isMacroRunning
  /\ v.sweeping => v.enable_auto_tx /\ v.enabled \cap {"autotx", "USBTX"} = {}
  /\ v.isMacroRunning => /\ v.enable_auto_tx /\ v.isDeviceConnected
                         /\ v.enabled \cap MacroConflicts = {} /\ "macroStop" \in v.enabled

(* A sweep that runs, or may start, can be stopped. *)
Stoppable(v) ==
  v.isDeviceConnected /\ (v.sweeping \/ "sweep_start" \in v.enabled) => "sweep_stop" \in v.enabled

(* The active steps are the first two and those up to some further one,    *)
(* and the PLL flags are up to date.                                       *)
NoGap(active) == \A i \in active, j \in Steps : j <= i => j \in active
Table(v) ==
  {0, 1} \subseteq v.active /\ NoGap(v.active) /\ v.pll = recalcMacroPLL(v.active, v.freqs)

(* A running macro is at an active step. *)
AtStep(v) == v.isMacroRunning => v.currentMacroStep \in v.active

Sound(v) == v \in Window /\ Guarded(v) /\ Stoppable(v) /\ Table(v) /\ AtStep(v)

(* The registers and the output of the current step have been sent. *)
StepSent(v) ==
  LET f == v.freqs[v.currentMacroStep]
  IN /\ v.basic = f /\ v.freq = f /\ v.adf = f /\ v.sent = f
     /\ v.rf = v.rfs[v.currentMacroStep]

(* Automatic transmission as it will be when nothing runs. *)
Saved(v) == CASE v.sweeping       -> v.before_sweep
              [] v.isMacroRunning -> v.before_macro
              [] OTHER            -> v.enable_auto_tx

(* The window has a device only if HID_PnP has.  While it has not heard of *)
(* HID_PnP's, no sweep runs and none can be started; without a device none *)
(* can be started anew.                                                    *)
Link(v, h) ==
  /\ v.isDeviceConnected => h.isConnected
  /\ h.isConnected => ~h.done
  /\ h.isConnected /\ ~v.isDeviceConnected =>
       ~v.sweeping /\ v.enabled \cap {"sweep_start", "sweep_stop"} = {}
  /\ ~h.isConnected /\ v.sweeping => "sweep_start" \notin v.enabled

Inv ==
  /\ TypeOK /\ Sound(w) /\ Link(w, hid)
  /\ ~odd => chosen = Saved(w)
  /\ w.isMacroRunning /\ ~edited => StepSent(w)

(* Windows that agree on the table and on the sweep, and on all that does  *)
(* not concern controls and modes.                                         *)
SameTable(u, v) ==
  u.active = v.active /\ u.freqs = v.freqs /\ u.rfs = v.rfs /\ u.pll = v.pll /\ u.sweep = v.sweep
SameData(u, v) ==
  /\ SameTable(u, v)
  /\ u.currentMacroStep = v.currentMacroStep /\ u.macroFirstIteration = v.macroFirstIteration
  /\ u.basic = v.basic /\ u.freq = v.freq /\ u.adf = v.adf /\ u.rf = v.rf
SameModes(u, v) ==
  /\ u.sweeping = v.sweeping /\ u.isMacroRunning = v.isMacroRunning
  /\ u.before_sweep = v.before_sweep /\ u.before_macro = v.before_macro
  /\ u.enable_auto_tx = v.enable_auto_tx

-----------------------------------------------------------------------------
(***************************************************************************)
(* The macro table.                                                        *)
(***************************************************************************)
(* A nonempty set of numbers has a least one. *)
LEMMA LeastNumber ==
  ASSUME NEW S \in SUBSET Nat, S # {}
  PROVE  \E n \in S : \A m \in S : n <= m
<1> DEFINE Less == {p \in Nat \X Nat : p[1] < p[2]}
<1>1. IsWellFoundedOn(Less, Nat)
  BY NatLessThanWellFounded DEF OpToRel
<1>2. \A m, n \in Nat : m < n => <<m, n>> \in Less
  OBVIOUS
<1> HIDE DEF Less
<1>3. PICK n \in S : \A m \in S : ~(<<m, n>> \in Less)
  BY <1>1, WFMin
<1>4. ASSUME NEW m \in S PROVE n <= m
  <2>1. m \in Nat /\ n \in Nat /\ ~(<<m, n>> \in Less)
    BY <1>3
  <2>2. ~(m < n)
    BY <1>2, <2>1, Zenon
  <2> QED
    BY <2>1, <2>2
<1> QED
  BY <1>4

(* So has a nonempty set of steps, and a greatest one. *)
LEMMA LeastStep ==
  ASSUME NEW S \in SUBSET Steps, S # {}
  PROVE  Least(S) \in S /\ \A j \in S : Least(S) <= j
<1>1. S \in SUBSET Nat
  BY TableAssumption DEF Steps
<1>2. \E i \in S : \A j \in S : i <= j
  BY <1>1, LeastNumber
<1> QED
  BY <1>2 DEF Least

LEMMA GreatestStep ==
  ASSUME NEW S \in SUBSET Steps, S # {}
  PROVE  Greatest(S) \in S /\ \A j \in S : j <= Greatest(S)
<1> DEFINE T == {NumSteps - i : i \in S}
<1>1. T \in SUBSET Nat /\ T # {}
  BY TableAssumption DEF Steps
<1>2. PICK n \in T : \A m \in T : n <= m
  BY <1>1, LeastNumber
<1>3. PICK i \in S : n = NumSteps - i
  BY <1>2
<1>4. ASSUME NEW j \in S PROVE j <= i
  <2>1. n <= NumSteps - j
    BY <1>2
  <2> QED
    BY <1>3, <2>1, TableAssumption DEF Steps
<1> QED
  BY <1>4 DEF Greatest

(* Following the active steps in order, at the end from the first again,   *)
(* the step before the next one is the current one.                        *)
LEMMA NextStep ==
  ASSUME NEW v \in Window, Table(v), NEW i \in v.active, NEW loop \in BOOLEAN,
         StepAt(v, i + 1, loop) # NumSteps
  PROVE  /\ StepAt(v, i + 1, loop) \in v.active
         /\ Before(v.active, StepAt(v, i + 1, loop)) = i
<1> DEFINE a == v.active
           j == StepAt(v, i + 1, loop)
           later == {k \in a : i + 1 <= k}
           earlier == {k \in a : k < j}
<1>1. a \in SUBSET Steps /\ a # {} /\ 0 \in a /\ 1 \in a
  BY DEF Table, Window
<1>2. i \in a /\ \A k \in a : k \in Nat
  BY <1>1, TableAssumption DEF Steps
<1>3. Greatest(a) \in a /\ \A k \in a : k <= Greatest(a)
  BY <1>1, GreatestStep
<1>4. getMacroTotalRange(v) = Greatest(a) + 1
  BY <1>1 DEF getMacroTotalRange
<1>5. CASE i + 1 < getMacroTotalRange(v)
  <2>1. j = Least(later)
    BY <1>5 DEF StepAt
  <2> HIDE DEF j
  <2>2. later \in SUBSET Steps /\ later # {}
    BY <1>1, <1>2, <1>3, <1>4, <1>5
  <2>3. j \in later /\ \A k \in later : j <= k
    BY <2>1, <2>2, LeastStep
  <2>4. i \in earlier /\ \A k \in earlier : k <= i
    BY <1>1, <1>2, <2>3
  <2>5. Greatest(earlier) \in earlier /\ \A k \in earlier : k <= Greatest(earlier)
    BY <1>1, <2>4, GreatestStep
  <2>6. Greatest(earlier) \in Nat /\ Greatest(earlier) <= i /\ i <= Greatest(earlier) /\ i \in Nat
    BY <1>2, <2>4, <2>5
  <2>7. Before(a, j) = Greatest(earlier)
    BY <2>4 DEF Before
  <2> QED
    BY <2>3, <2>6, <2>7 DEF j
<1>6. CASE ~(i + 1 < getMacroTotalRange(v))
  <2>1. i = Greatest(a)
    BY <1>1, <1>2, <1>3, <1>4, <1>6
  <2>2. j = Least(a)
    BY <1>6 DEF StepAt
  <2> HIDE DEF j
  <2>3. j \in a /\ \A k \in a : j <= k
    BY <1>1, <2>2, LeastStep
  <2>4. earlier = {}
    BY <1>1, <1>2, <2>3
  <2>5. Before(a, j) = Greatest(a)
    BY <2>4 DEF Before
  <2> QED
    BY <2>1, <2>3, <2>5 DEF j
<1> QED
  BY <1>5, <1>6

(* A step without its flag has the frequency of the step before. *)
LEMMA UnflaggedStep ==
  ASSUME NEW v \in Window, Table(v), NEW j \in v.active, j \notin v.pll
  PROVE  v.freqs[Before(v.active, j)] = v.freqs[j]
<1>1. v.active \in SUBSET Steps /\ 0 \in v.active /\ 1 \in v.active
  BY DEF Table, Window
<1>2. IsFiniteSet(v.active)
  <2>1. IsFiniteSet(Steps)
    BY FS_Interval, TableAssumption DEF Steps
  <2> QED
    BY <1>1, <2>1, FS_Subset
<1>3. Cardinality({0, 1}) = 2
  <2>1. IsFiniteSet({0}) /\ Cardinality({0}) = 1
    BY FS_Singleton
  <2>2. {0, 1} = {0} \cup {1}
    OBVIOUS
  <2>3. 1 \notin {0}
    OBVIOUS
  <2>4. Cardinality({0} \cup {1}) = Cardinality({0}) + 1
    BY <2>1, <2>3, FS_AddElement
  <2> QED
    BY <2>1, <2>2, <2>4
<1>4. Cardinality(v.active) >= 2 /\ Cardinality(v.active) \in Nat
  BY <1>1, <1>2, <1>3, FS_Subset, FS_CardinalityType
<1>5. v.pll = {i \in v.active : v.freqs[Before(v.active, i)] # v.freqs[i]}
  BY <1>4 DEF Table, recalcMacroPLL
<1> QED
  BY <1>5

-----------------------------------------------------------------------------
(***************************************************************************)
(* Effects of the handlers on any window.                                  *)
(***************************************************************************)
(* Rebuilt may only send. *)
LEMMA RebuiltEffect ==
  ASSUME NEW v \in Window
  PROVE  LET u == Rebuilt(v) IN
         /\ u \in Window /\ SameData(u, v)
         /\ u.enabled = v.enabled /\ u.enable_auto_tx = v.enable_auto_tx
         /\ u.sweeping = v.sweeping /\ u.isMacroRunning = v.isMacroRunning
         /\ u.before_sweep = v.before_sweep /\ u.before_macro = v.before_macro
         /\ u.isDeviceConnected = v.isDeviceConnected
         /\ u.deviceFirmwareMajor = v.deviceFirmwareMajor
         /\ u.sent = IF v.enable_auto_tx THEN v.adf ELSE v.sent
BY DEF Rebuilt, Sent, Window, SameData, SameTable

(* sweep_stop restores automatic transmission and offers what it disabled. *)
LEMMA SweepStopEffect ==
  ASSUME NEW v \in Window
  PROVE  LET u == sweep_stop(v) IN
         /\ u \in Window /\ SameData(u, v) /\ u.sent = v.sent
         /\ u.enable_auto_tx = v.before_sweep
         /\ u.sweeping = FALSE /\ u.isMacroRunning = v.isMacroRunning
         /\ u.before_sweep = v.before_sweep /\ u.before_macro = v.before_macro
         /\ u.isDeviceConnected = v.isDeviceConnected
         /\ u.deviceFirmwareMajor = v.deviceFirmwareMajor
         /\ "sweep_stop" \in v.enabled => "sweep_stop" \in u.enabled
         /\ "macroStop" \in u.enabled <=> "macroStop" \in v.enabled
<1>1. sweep_stop(v).enabled \subseteq Controls
  BY DEF sweep_stop, Released, Window, Controls, NeedDevice, Only, Programs
<1>2. "macroStop" \in sweep_stop(v).enabled <=> "macroStop" \in v.enabled
  BY DEF sweep_stop, Released, Window, Only, Programs
<1> QED
  BY <1>1, <1>2 DEF sweep_stop, Released, Window, SameData, SameTable

(* macro_stop likewise; it offers the stop of a sweep too. *)
LEMMA MacroStopEffect ==
  ASSUME NEW v \in Window
  PROVE  LET u == macro_stop(v) IN
         /\ u \in Window /\ SameData(u, v) /\ u.sent = v.sent
         /\ u.enable_auto_tx = v.before_macro
         /\ u.sweeping = v.sweeping /\ u.isMacroRunning = FALSE
         /\ u.before_sweep = v.before_sweep /\ u.before_macro = v.before_macro
         /\ u.isDeviceConnected = v.isDeviceConnected
         /\ u.deviceFirmwareMajor = v.deviceFirmwareMajor
         /\ "sweep_stop" \in u.enabled /\ "macroStop" \notin u.enabled
<1>1. macro_stop(v).enabled \subseteq Controls
  BY DEF macro_stop, Released, Window, Controls, NeedDevice, Only, Programs
<1>2. "macroStop" \notin macro_stop(v).enabled
  BY DEF macro_stop, Released, Window
<1> QED
  BY <1>1, <1>2 DEF macro_stop, Released, Window, SameData, SameTable

(* Windows that agree on their data, step by step. *)
LEMMA SameDataTransitive ==
  ASSUME NEW u, NEW v, NEW x, SameData(u, v), SameData(v, x)
  PROVE  SameData(u, x)
BY DEF SameData, SameTable

(* A change of the controls changes nothing else. *)
LEMMA EnabledEffect ==
  ASSUME NEW v \in Window, NEW e \in SUBSET Controls
  PROVE  LET u == [v EXCEPT !.enabled = e] IN
         /\ u \in Window /\ SameData(u, v) /\ SameModes(u, v) /\ u.sent = v.sent
         /\ u.isDeviceConnected = v.isDeviceConnected /\ u.enabled = e
BY DEF Window, SameData, SameTable, SameModes

(* With a device, update_gui leaves what runs alone. *)
LEMMA GuiWithDevice ==
  ASSUME NEW v \in Window, NEW h \in UIData, h.isConnected, ~h.done, Guarded(v)
  PROVE  LET u == update_gui(v, h) IN
         /\ u \in Window /\ SameData(u, v) /\ SameModes(u, v) /\ u.sent = v.sent
         /\ u.isDeviceConnected = TRUE /\ Guarded(u)
         /\ "sweep_stop" \in v.enabled => "sweep_stop" \in u.enabled
         /\ "sweep_start" \in u.enabled =>
              "sweep_start" \in v.enabled \/ "sweep_stop" \in u.enabled
         /\ v.enable_auto_tx /\ v.enabled \cap {"autotx", "USBTX"} = {} =>
              u.enabled \cap {"autotx", "USBTX"} = {}
<1> DEFINE c == [v EXCEPT !.isDeviceConnected = TRUE]
           m == [c EXCEPT !.deviceFirmwareMajor = h.major]
           u == ShowsVersion(m)
           e == u.enabled
<1>1. c \in Window /\ SameData(c, v) /\ SameModes(c, v) /\ c.sent = v.sent
      /\ c.isDeviceConnected = TRUE /\ c.enabled = v.enabled
  BY DEF Window, SameData, SameTable, SameModes
<1>2. m \in Window /\ SameData(m, v) /\ SameModes(m, v) /\ m.sent = v.sent
      /\ m.isDeviceConnected = TRUE /\ m.enabled = v.enabled
  BY DEF Window, SameData, SameTable, SameModes, UIData
<1>3. update_gui(v, h) = IF h.pending THEN c ELSE u
  BY DEF update_gui, UIData, Window
<1> HIDE DEF c, m
<1>4. CASE h.pending
  <2>1. Guarded(c)
    BY <1>1 DEF Guarded, SameModes
  <2> QED
    BY <1>1, <1>3, <1>4, <2>1
<1>5. CASE ~h.pending
  <2>1. e \in SUBSET Controls
    BY <1>2 DEF ShowsVersion, Window, Controls, NeedDevice, Only, Programs
  <2>2. u = [m EXCEPT !.enabled = e]
    BY <1>2 DEF ShowsVersion, Window
  <2>3. /\ u \in Window /\ SameData(u, m) /\ SameModes(u, m) /\ u.sent = m.sent
        /\ u.isDeviceConnected = m.isDeviceConnected
    <3> DEFINE t == [m EXCEPT !.enabled = e]
    <3> HIDE DEF e
    <3>1. /\ t \in Window /\ SameData(t, m) /\ SameModes(t, m) /\ t.sent = m.sent
          /\ t.isDeviceConnected = m.isDeviceConnected
      BY <1>2, <2>1, EnabledEffect
    <3> HIDE DEF t
    <3>2. u = t
      BY <2>2 DEF t
    <3> HIDE DEF u
    <3> QED
      BY <3>1, <3>2
  <2>4. /\ u.sweeping = v.sweeping /\ u.isMacroRunning = v.isMacroRunning
        /\ u.enable_auto_tx = v.enable_auto_tx
    BY <1>2, <2>3 DEF SameModes
  <2>5. m.sweeping = v.sweeping /\ m.isMacroRunning = v.isMacroRunning
    BY <1>2 DEF SameModes
  <2>6. /\ v.sweeping => e \subseteq v.enabled /\ ("sweep_stop" \in v.enabled => "sweep_stop" \in e)
        /\ v.isMacroRunning => e \subseteq v.enabled /\ ("macroStop" \in v.enabled => "macroStop" \in e)
        /\ NothingRuns(v) => "sweep_stop" \in e
        /\ "macroStop" \in e => "macroStop" \in v.enabled
        /\ v.enable_auto_tx /\ v.enabled \cap {"autotx", "USBTX"} = {} =>
             e \cap {"autotx", "USBTX"} = {}
    <3>1. CASE NothingRuns(v)
      <4>1. e = (m.enabled \ {"macroProgram", "USBTX"})
                  \cup {"program_flash", "macroStart", "RF_CTRL", "sweep_start", "sweep_stop",
                        "erase_flash", "identify"}
                  \cup Only("USBTX", ~m.enable_auto_tx) \cup Programs(m)
        BY <1>2, <2>5, <3>1 DEF ShowsVersion, NothingRuns, Window
      <4>2. m.enable_auto_tx = v.enable_auto_tx
        BY <1>2 DEF SameModes
      <4>3. "macroStop" \notin Programs(m) /\ Programs(m) \cap {"autotx", "USBTX"} = {}
        BY DEF Programs, Only
      <4> HIDE DEF u
      <4> QED
        BY <1>2, <3>1, <4>1, <4>2, <4>3 DEF NothingRuns, Only
    <3>2. CASE v.sweeping
      <4>1. e = m.enabled \ {"program_flash", "macroProgram", "macroStart"}
        BY <1>2, <2>5, <3>2 DEF ShowsVersion, NothingRuns, Window
      <4> HIDE DEF u
      <4>2. ~v.isMacroRunning
        BY <3>2 DEF Guarded
      <4> QED
        BY <1>2, <3>2, <4>1, <4>2 DEF NothingRuns
    <3>3. CASE v.isMacroRunning
      <4>1. ~v.sweeping
        BY <3>3 DEF Guarded
      <4>2. e = m.enabled \ ({"program_flash"} \cup ({"macroProgram"} \ Programs(m)))
        BY <1>2, <2>5, <3>3, <4>1 DEF ShowsVersion, NothingRuns, Window
      <4> HIDE DEF u
      <4> QED
        BY <1>2, <3>3, <4>1, <4>2 DEF NothingRuns
    <3> QED
      BY <3>1, <3>2, <3>3 DEF NothingRuns
  <2> HIDE DEF u
  <2>7. Guarded(u)
    BY <1>2, <2>3, <2>4, <2>6 DEF Guarded
  <2>8. "sweep_start" \in e => "sweep_start" \in v.enabled \/ "sweep_stop" \in e
    BY <2>6 DEF NothingRuns
  <2>9. "sweep_stop" \in v.enabled => "sweep_stop" \in e
    BY <2>6 DEF NothingRuns, Guarded, MacroConflicts
  <2>10. SameData(u, v) /\ SameModes(u, v) /\ u.sent = v.sent
    BY <1>2, <2>3 DEF SameData, SameTable, SameModes
  <2> QED
    BY <1>2, <1>3, <1>5, <2>3, <2>6, <2>7, <2>8, <2>9, <2>10
<1> QED
  BY <1>4, <1>5 DEF UIData

(* Without a device nothing runs any more, and automatic transmission is   *)
(* what it was before.                                                     *)
LEMMA GuiWithoutDevice ==
  ASSUME NEW v \in Window, NEW h \in UIData, ~h.isConnected, Guarded(v)
  PROVE  LET u == update_gui(v, h) IN
         /\ u \in Window /\ SameData(u, v)
         /\ u.enable_auto_tx = Saved(v)
         /\ u.sweeping = FALSE /\ u.isMacroRunning = FALSE /\ u.isDeviceConnected = FALSE
         /\ u.before_sweep = v.before_sweep /\ "macroStop" \notin u.enabled
         /\ ~v.isMacroRunning => u.enabled \cap NeedDevice = {}
         /\ NothingRuns(v) => u.enabled \subseteq v.enabled
<1> DEFINE c == [v EXCEPT !.isDeviceConnected = h.isConnected]
           s == IF c.sweeping THEN sweep_stop(c) ELSE c
           d == Unavailable(s)
           l == IF d.isMacroRunning THEN macro_stop(d) ELSE d
           u == update_gui(v, h)
<1>u. u = IF h.done THEN Rebuilt(l) ELSE l
  BY Zenon DEF update_gui, ShowsLoss
<1> HIDE DEF u
<1>1. c \in Window /\ SameData(c, v) /\ c.isDeviceConnected = FALSE /\ SameModes(c, v)
      /\ c.enabled = v.enabled
  BY DEF Window, SameData, SameTable, SameModes, UIData
<1> HIDE DEF c
<1>2. s \in Window /\ SameData(s, c) /\ s.isDeviceConnected = FALSE /\ s.sweeping = FALSE
      /\ s.isMacroRunning = v.isMacroRunning /\ s.before_macro = v.before_macro
      /\ s.before_sweep = v.before_sweep
      /\ s.enable_auto_tx = (IF v.sweeping THEN v.before_sweep ELSE v.enable_auto_tx)
      /\ ("macroStop" \in s.enabled <=> "macroStop" \in v.enabled)
      /\ (~v.sweeping => s.enabled = v.enabled)
  <2>1. CASE c.sweeping
    <3> DEFINE t == sweep_stop(c)
    <3>1. t \in Window /\ SameData(t, c) /\ t.isDeviceConnected = FALSE /\ t.sweeping = FALSE
          /\ t.isMacroRunning = c.isMacroRunning /\ t.before_macro = c.before_macro
          /\ t.enable_auto_tx = c.before_sweep /\ t.before_sweep = c.before_sweep
          /\ ("macroStop" \in t.enabled <=> "macroStop" \in c.enabled)
      BY <1>1, SweepStopEffect
    <3> HIDE DEF t
    <3>2. s = t
      BY <2>1 DEF t
    <3> HIDE DEF s
    <3> QED
      BY <1>1, <2>1, <3>1, <3>2 DEF SameModes
  <2>2. CASE ~c.sweeping
    <3>1. s = c
      BY <2>2
    <3> HIDE DEF s
    <3>2. c.sweeping = FALSE
      BY <1>1, <2>2 DEF Window
    <3> QED
      BY <1>1, <2>2, <3>1, <3>2 DEF SameData, SameTable, SameModes
  <2> QED
    BY <2>1, <2>2
<1> HIDE DEF s
<1>3. d \in Window /\ SameData(d, s) /\ d.isDeviceConnected = FALSE /\ d.sweeping = FALSE
      /\ d.isMacroRunning = v.isMacroRunning /\ d.before_macro = v.before_macro
      /\ d.enable_auto_tx = s.enable_auto_tx /\ d.before_sweep = s.before_sweep
      /\ d.enabled = s.enabled \ NeedDevice
  BY <1>2 DEF Unavailable, NeedDevice, Window, SameData, SameTable
<1> HIDE DEF d
<1>4. /\ l \in Window /\ SameData(l, d) /\ l.isDeviceConnected = FALSE /\ l.sweeping = FALSE
      /\ l.isMacroRunning = FALSE /\ l.enable_auto_tx = Saved(v)
      /\ l.before_sweep = v.before_sweep /\ "macroStop" \notin l.enabled
      /\ ~v.isMacroRunning => l.enabled = d.enabled
  <2>1. CASE d.isMacroRunning
    <3>1. ~v.sweeping /\ v.isMacroRunning
      BY <1>3, <2>1 DEF Guarded
    <3> DEFINE t == macro_stop(d)
    <3>2. t \in Window /\ SameData(t, d) /\ t.isDeviceConnected = FALSE /\ t.sweeping = FALSE
          /\ t.isMacroRunning = FALSE /\ t.enable_auto_tx = d.before_macro
          /\ t.before_sweep = d.before_sweep /\ "macroStop" \notin t.enabled
      BY <1>3, MacroStopEffect
    <3> HIDE DEF t
    <3>3. l = t
      BY <2>1 DEF t
    <3> HIDE DEF l
    <3>4. Saved(v) = v.before_macro
      BY <3>1 DEF Saved
    <3> QED
      BY <1>2, <1>3, <3>1, <3>2, <3>3, <3>4
  <2>2. CASE ~d.isMacroRunning
    <3>1. l = d
      BY <2>2
    <3> HIDE DEF l
    <3>2. d.isMacroRunning = FALSE /\ ~v.isMacroRunning
      BY <1>3, <2>2 DEF Window
    <3>3. Saved(v) = IF v.sweeping THEN v.before_sweep ELSE v.enable_auto_tx
      BY <3>2 DEF Saved
    <3>4. "macroStop" \notin d.enabled
      BY <1>2, <1>3, <3>2 DEF Guarded
    <3> QED
      BY <1>2, <1>3, <3>1, <3>2, <3>3, <3>4 DEF SameData, SameTable
  <2> QED
    BY <2>1, <2>2
<1> HIDE DEF l
<1>5. SameData(l, v)
  BY <1>1, <1>2, <1>3, <1>4, SameDataTransitive
<1>7. /\ ~v.isMacroRunning => l.enabled \cap NeedDevice = {}
      /\ NothingRuns(v) => l.enabled \subseteq v.enabled
  BY <1>2, <1>3, <1>4 DEF NothingRuns
<1>6. /\ u \in Window /\ SameData(u, v) /\ u.enable_auto_tx = Saved(v)
      /\ u.sweeping = FALSE /\ u.isMacroRunning = FALSE /\ u.isDeviceConnected = FALSE
      /\ u.before_sweep = v.before_sweep /\ "macroStop" \notin u.enabled
      /\ ~v.isMacroRunning => u.enabled \cap NeedDevice = {}
      /\ NothingRuns(v) => u.enabled \subseteq v.enabled
  <2>1. CASE h.done
    <3> DEFINE r == Rebuilt(l)
    <3>1. /\ r \in Window /\ SameData(r, l) /\ r.enabled = l.enabled
          /\ r.enable_auto_tx = l.enable_auto_tx /\ r.sweeping = l.sweeping
          /\ r.isMacroRunning = l.isMacroRunning /\ r.isDeviceConnected = l.isDeviceConnected
          /\ r.before_sweep = l.before_sweep
      BY <1>4, RebuiltEffect
    <3> HIDE DEF r
    <3>2. u = r
      BY <1>u, <2>1 DEF r
    <3>3. SameData(r, v)
      BY <1>5, <3>1, SameDataTransitive
    <3> QED
      BY <1>4, <1>7, <3>1, <3>2, <3>3
  <2>2. CASE ~h.done
    <3>1. u = l
      BY <1>u, <2>2
    <3> QED
      BY <1>4, <1>5, <1>7, <3>1
  <2> QED
    BY <2>1, <2>2
<1> QED
  BY <1>6 DEF u

(* update_gui keeps the invariant's parts, for whatever HID_PnP knows next *)
(* that it did not then.                                                   *)
LEMMA GuiSound ==
  ASSUME NEW v, NEW h \in UIData, Sound(v), h.isConnected => Link(v, h)
  PROVE  LET u == update_gui(v, h) IN
         /\ Sound(u) /\ SameData(u, v) /\ Saved(u) = Saved(v)
         /\ h.isConnected => SameModes(u, v) /\ u.sent = v.sent
         /\ ~h.isConnected => ~u.isMacroRunning
         /\ \A g \in UIData :
              /\ h.isConnected => g.isConnected
              /\ g.isConnected => ~g.done
              /\ g.isConnected /\ v.isMacroRunning => h.isConnected
              => Link(u, g)
<1> DEFINE u == update_gui(v, h)
<1>1. v \in Window /\ Guarded(v) /\ Stoppable(v) /\ Table(v) /\ AtStep(v)
  BY DEF Sound
<1>2. CASE h.isConnected
  <2>1. Link(v, h) /\ ~h.done
    BY <1>2 DEF Link
  <2>2. /\ u \in Window /\ SameData(u, v) /\ SameModes(u, v) /\ u.sent = v.sent
        /\ u.isDeviceConnected = TRUE /\ Guarded(u)
        /\ "sweep_stop" \in v.enabled => "sweep_stop" \in u.enabled
        /\ "sweep_start" \in u.enabled =>
             "sweep_start" \in v.enabled \/ "sweep_stop" \in u.enabled
    BY <1>1, <1>2, <2>1, GuiWithDevice
  <2> HIDE DEF u
  <2>3. Stoppable(u)
    BY <1>1, <1>2, <2>1, <2>2 DEF Stoppable, Link, SameModes
  <2>4. Table(u) /\ AtStep(u)
    BY <1>1, <2>2 DEF Table, AtStep, SameData, SameTable, SameModes
  <2>5. Saved(u) = Saved(v)
    BY <2>2 DEF Saved, SameModes
  <2>6. ASSUME NEW g \in UIData, h.isConnected => g.isConnected, g.isConnected => ~g.done
        PROVE  Link(u, g)
    BY <1>2, <2>2, <2>6 DEF Link
  <2> QED
    BY <1>2, <2>2, <2>3, <2>4, <2>5, <2>6 DEF Sound, u
<1>3. CASE ~h.isConnected
  <2>1. /\ u \in Window /\ SameData(u, v)
        /\ u.enable_auto_tx = Saved(v)
        /\ u.sweeping = FALSE /\ u.isMacroRunning = FALSE /\ u.isDeviceConnected = FALSE
        /\ "macroStop" \notin u.enabled
        /\ ~v.isMacroRunning => u.enabled \cap NeedDevice = {}
    BY <1>1, <1>3, GuiWithoutDevice
  <2> HIDE DEF u
  <2>2. Guarded(u) /\ Stoppable(u) /\ Saved(u) = Saved(v) /\ AtStep(u)
    BY <2>1 DEF Guarded, Stoppable, Saved, AtStep
  <2>3. Table(u)
    BY <1>1, <2>1 DEF Table, SameData, SameTable
  <2>4. ASSUME NEW g \in UIData, g.isConnected => ~g.done,
               g.isConnected /\ v.isMacroRunning => h.isConnected
        PROVE  Link(u, g)
    BY <1>3, <2>1, <2>4 DEF Link, NeedDevice
  <2> QED
    BY <1>3, <2>1, <2>2, <2>3, <2>4 DEF Sound, u
<1> QED
  BY <1>2, <1>3

-----------------------------------------------------------------------------
(***************************************************************************)
(* The macro and the sweep.                                                *)
(***************************************************************************)
(* Unless it is the end of the table, the step found is an active one. *)
LEMMA StepAtIsActive ==
  ASSUME NEW v \in Window, Table(v), NEW i \in Nat, NEW loop \in BOOLEAN,
         StepAt(v, i, loop) # NumSteps
  PROVE  StepAt(v, i, loop) \in v.active
<1>1. v.active \in SUBSET Steps /\ v.active # {}
  BY DEF Table, Window
<1>2. Greatest(v.active) \in v.active /\ Least(v.active) \in v.active
  BY <1>1, GreatestStep, LeastStep
<1>3. getMacroTotalRange(v) = Greatest(v.active) + 1
  BY <1>1 DEF getMacroTotalRange
<1>4. CASE i < getMacroTotalRange(v)
  <2> DEFINE later == {j \in v.active : i <= j}
  <2>1. later \in SUBSET Steps /\ Greatest(v.active) \in later
    BY <1>1, <1>2, <1>3, <1>4, TableAssumption DEF Steps
  <2>2. Least(later) \in later
    BY <2>1, LeastStep
  <2>3. StepAt(v, i, loop) = Least(later)
    BY <1>4 DEF StepAt
  <2> QED
    BY <2>2, <2>3
<1>5. CASE ~(i < getMacroTotalRange(v))
  BY <1>2, <1>5 DEF StepAt
<1> QED
  BY <1>4, <1>5

(* A step of the macro, the first or the one after the current one, sends  *)
(* what it shows, or is the end and the macro stops.                       *)
LEMMA MacroStepEffect ==
  ASSUME NEW v, NEW h \in UIData, NEW i \in 0 .. NumSteps, NEW loop \in BOOLEAN,
         v \in Window, Guarded(v), Table(v), v.isMacroRunning, h.isConnected, ~h.done
  PROVE  LET u == executeMacroStep(v, i, loop, h) IN
         /\ Sound(u) /\ Saved(u) = Saved(v) /\ u.isDeviceConnected = TRUE
         /\ \/ v.macroFirstIteration
            \/ v.currentMacroStep \in v.active /\ StepSent(v) /\ i = v.currentMacroStep + 1
            => (u.isMacroRunning => StepSent(u))
<1> DEFINE u == executeMacroStep(v, i, loop, h)
           j == StepAt(v, i, loop)
           f == v.freqs[j]
           a == [v EXCEPT !.currentMacroStep = j]
           b == [a EXCEPT !.rf = v.rfs[j]]
           c == update_gui(b, h)
           s == [c EXCEPT !.macroFirstIteration = FALSE]
           t == [s EXCEPT !.basic = f, !.freq = f, !.adf = f]
           r == Rebuilt(t)
           e == [v EXCEPT !.currentMacroStep = i]
           k == macro_stop(e)
<1>1. u = IF j = NumSteps THEN k
          ELSE IF j \in v.pll \/ v.macroFirstIteration THEN r ELSE s
  BY DEF executeMacroStep, SetRF
<1> HIDE DEF u, j
<1>2. ~v.sweeping /\ v.isDeviceConnected = TRUE /\ v.enable_auto_tx
  BY DEF Guarded, Window
<1>3. CASE j = NumSteps
  <2>1. e \in Window /\ SameTable(e, v) /\ SameModes(e, v) /\ e.isDeviceConnected = TRUE
    BY <1>2, TableAssumption DEF Window, SameTable, SameModes
  <2> HIDE DEF e
  <2>2. /\ k \in Window /\ SameData(k, e) /\ k.enable_auto_tx = e.before_macro
        /\ k.sweeping = e.sweeping /\ k.isMacroRunning = FALSE /\ k.isDeviceConnected = TRUE
        /\ "sweep_stop" \in k.enabled /\ "macroStop" \notin k.enabled
    BY <2>1, MacroStopEffect
  <2> HIDE DEF k
  <2>3. k.sweeping = FALSE
    BY <1>2, <2>1, <2>2 DEF SameModes, Window
  <2>4. Guarded(k) /\ Stoppable(k) /\ AtStep(k)
    BY <2>2, <2>3 DEF Guarded, Stoppable, AtStep
  <2>5. Table(k)
    BY <2>1, <2>2 DEF Table, SameData, SameTable
  <2>6. Saved(k) = Saved(v)
    BY <1>2, <2>1, <2>2, <2>3 DEF Saved, SameModes
  <2>7. u = k
    BY <1>1, <1>3
  <2> QED
    BY <2>2, <2>4, <2>5, <2>6, <2>7 DEF Sound, u
<1>4. CASE j # NumSteps
  <2>1. j \in v.active
    <3>1. i \in Nat
      BY TableAssumption
    <3> QED
      BY <1>4, <3>1, StepAtIsActive DEF j
  <2>2. j \in Steps /\ j \in 0 .. NumSteps /\ f \in Freqs /\ v.rfs[j] \in BOOLEAN
    BY <2>1, TableAssumption DEF Window, Steps
  <2>3. /\ b \in Window /\ SameTable(b, v) /\ SameModes(b, v) /\ b.enabled = v.enabled
        /\ b.isDeviceConnected = TRUE /\ b.currentMacroStep = j /\ b.rf = v.rfs[j]
        /\ b.basic = v.basic /\ b.freq = v.freq /\ b.adf = v.adf /\ b.sent = v.sent
    BY <1>2, <2>2 DEF Window, SameTable, SameModes
  <2> HIDE DEF b, f
  <2>4. Guarded(b)
    BY <1>2, <2>3 DEF Guarded, SameModes
  <2>5. /\ c \in Window /\ SameData(c, b) /\ SameModes(c, b) /\ c.sent = b.sent
        /\ c.isDeviceConnected = TRUE /\ Guarded(c)
    BY <2>3, <2>4, GuiWithDevice
  <2> HIDE DEF c
  <2>6. /\ s \in Window /\ SameTable(s, c) /\ SameModes(s, c) /\ s.enabled = c.enabled
        /\ s.isDeviceConnected = TRUE /\ s.currentMacroStep = c.currentMacroStep /\ s.rf = c.rf
        /\ s.basic = c.basic /\ s.freq = c.freq /\ s.adf = c.adf /\ s.sent = c.sent
    BY <2>5 DEF Window, SameTable, SameModes
  <2> HIDE DEF s
  <2>7. /\ s \in Window /\ SameTable(s, v) /\ SameModes(s, v) /\ s.isDeviceConnected = TRUE
        /\ s.currentMacroStep = j /\ s.rf = v.rfs[j]
        /\ s.basic = v.basic /\ s.freq = v.freq /\ s.adf = v.adf /\ s.sent = v.sent
    BY <2>3, <2>5, <2>6 DEF SameData, SameTable, SameModes
  <2>8. Guarded(s)
    BY <2>5, <2>6 DEF Guarded, SameModes
  <2>9. /\ t \in Window /\ SameTable(t, s) /\ SameModes(t, s) /\ t.enabled = s.enabled
        /\ t.isDeviceConnected = TRUE /\ t.currentMacroStep = s.currentMacroStep /\ t.rf = s.rf
        /\ t.basic = f /\ t.freq = f /\ t.adf = f
    BY <2>2, <2>7 DEF Window, SameTable, SameModes
  <2> HIDE DEF t
  <2>10. /\ r \in Window /\ SameData(r, t) /\ SameModes(r, t) /\ r.enabled = t.enabled
         /\ r.isDeviceConnected = TRUE
         /\ r.sent = IF t.enable_auto_tx THEN t.adf ELSE t.sent
    BY <2>9, RebuiltEffect DEF SameModes
  <2> HIDE DEF r
  <2>11. /\ SameTable(r, v) /\ SameModes(r, v)
         /\ r.currentMacroStep = j /\ r.rf = v.rfs[j]
         /\ r.basic = f /\ r.freq = f /\ r.adf = f /\ r.sent = f
    BY <1>2, <2>7, <2>9, <2>10 DEF SameData, SameTable, SameModes
  <2>12. Guarded(r)
    BY <2>8, <2>9, <2>10 DEF Guarded, SameModes
  <2>13. ASSUME NEW x \in {r, s}
         PROVE  Sound(x) /\ Saved(x) = Saved(v) /\ x.isDeviceConnected = TRUE
    <3>1. /\ x \in Window /\ Guarded(x) /\ SameTable(x, v) /\ SameModes(x, v)
          /\ x.isDeviceConnected = TRUE /\ x.currentMacroStep = j
      BY <2>7, <2>8, <2>10, <2>11, <2>12
    <3>2. Table(x) /\ AtStep(x)
      BY <2>1, <3>1 DEF Table, AtStep, SameTable
    <3>3. Stoppable(x)
      BY <1>2, <3>1 DEF Stoppable, Guarded, SameModes, MacroConflicts
    <3>4. Saved(x) = Saved(v)
      BY <3>1 DEF Saved, SameModes
    <3> QED
      BY <3>1, <3>2, <3>3, <3>4 DEF Sound
  <2>14. StepSent(r)
    BY <2>11 DEF StepSent, SameTable, f
  <2>15. ASSUME j \notin v.pll, v.currentMacroStep \in v.active, StepSent(v),
                i = v.currentMacroStep + 1
         PROVE  StepSent(s)
    <3>1. Before(v.active, j) = v.currentMacroStep
      BY <1>4, <2>15, NextStep DEF j
    <3>2. v.freqs[v.currentMacroStep] = f
      BY <2>1, <2>15, <3>1, UnflaggedStep DEF f
    <3> QED
      BY <2>7, <2>15, <3>2 DEF StepSent, SameTable, f
  <2>16. CASE j \in v.pll \/ v.macroFirstIteration
    <3>1. u = r
      BY <1>1, <1>4, <2>16
    <3> QED
      BY <2>13, <2>14, <3>1 DEF u
  <2>17. CASE ~(j \in v.pll \/ v.macroFirstIteration)
    <3>1. u = s
      BY <1>1, <1>4, <2>17
    <3> QED
      BY <2>13, <2>15, <2>17, <3>1 DEF u
  <2> QED
    BY <2>16, <2>17
<1> QED
  BY <1>3, <1>4

(* Macro Start, which may take over from a sweep. *)
LEMMA MacroStartEffect ==
  ASSUME NEW v, NEW h \in UIData, NEW loop \in BOOLEAN,
         Sound(v), Link(v, h), "macroStart" \in v.enabled
  PROVE  LET u == macro_start(v, loop, h) IN
         /\ Sound(u) /\ Saved(u) = Saved(v) /\ Link(u, h)
         /\ u.isMacroRunning => StepSent(u)
<1> DEFINE u == macro_start(v, loop, h)
           s == IF v.sweeping THEN sweep_stop(v) ELSE v
           e == (s.enabled \ MacroConflicts) \cup {"macroStop"}
           m == [s EXCEPT !.before_macro = s.enable_auto_tx, !.enable_auto_tx = TRUE,
                          !.isMacroRunning = TRUE, !.macroFirstIteration = TRUE, !.enabled = e]
           x == executeMacroStep(m, 0, loop, h)
<1>1. u = IF getMacroTotalRange(v) < 2 \/ ~v.isDeviceConnected THEN v ELSE x
  BY DEF macro_start
<1> HIDE DEF u
<1>2. v \in Window /\ Guarded(v) /\ Table(v)
  BY DEF Sound
<1>3. v.isMacroRunning = FALSE
  BY <1>2 DEF Guarded, MacroConflicts, Window
<1>4. CASE getMacroTotalRange(v) < 2 \/ ~v.isDeviceConnected
  <2>1. u = v
    BY <1>1, <1>4
  <2> QED
    BY <1>3, <2>1 DEF u
<1>5. CASE ~(getMacroTotalRange(v) < 2 \/ ~v.isDeviceConnected)
  <2>1. v.isDeviceConnected = TRUE /\ h.isConnected /\ ~h.done
    BY <1>2, <1>5 DEF Link, Window
  <2>2. /\ s \in Window /\ SameTable(s, v) /\ s.isDeviceConnected = TRUE
        /\ s.sweeping = FALSE /\ s.enable_auto_tx = Saved(v)
    <3>1. CASE v.sweeping
      <4> DEFINE t == sweep_stop(v)
      <4>1. /\ t \in Window /\ SameData(t, v) /\ t.isDeviceConnected = v.isDeviceConnected
            /\ t.sweeping = FALSE /\ t.enable_auto_tx = v.before_sweep
        BY <1>2, SweepStopEffect
      <4> HIDE DEF t
      <4>2. s = t
        BY <3>1 DEF t
      <4> HIDE DEF s
      <4>3. Saved(v) = v.before_sweep
        BY <1>3, <3>1 DEF Saved
      <4> QED
        BY <2>1, <4>1, <4>2, <4>3 DEF SameData
    <3>2. CASE ~v.sweeping
      <4>1. s = v /\ v.sweeping = FALSE
        BY <1>2, <3>2 DEF Window
      <4> HIDE DEF s
      <4>2. Saved(v) = v.enable_auto_tx
        BY <1>3, <3>2 DEF Saved
      <4> QED
        BY <1>2, <2>1, <4>1, <4>2 DEF SameTable
    <3> QED
      BY <3>1, <3>2
  <2> HIDE DEF s
  <2>3. e \in SUBSET Controls /\ e \cap MacroConflicts = {} /\ "macroStop" \in e
    BY <2>2 DEF Window, Controls, MacroConflicts
  <2> HIDE DEF e
  <2>4. /\ m \in Window /\ SameTable(m, s) /\ m.isDeviceConnected = TRUE /\ m.enabled = e
        /\ m.sweeping = FALSE /\ m.isMacroRunning = TRUE /\ m.macroFirstIteration = TRUE
        /\ m.enable_auto_tx = TRUE /\ m.before_macro = s.enable_auto_tx
    BY <2>2, <2>3 DEF Window, SameTable
  <2> HIDE DEF m
  <2>5. Guarded(m) /\ Saved(m) = Saved(v)
    BY <2>2, <2>3, <2>4 DEF Guarded, Saved
  <2>6. Table(m)
    BY <1>2, <2>2, <2>4 DEF Table, SameTable
  <2>7. 0 \in 0 .. NumSteps
    BY TableAssumption
  <2>8. /\ Sound(x) /\ Saved(x) = Saved(m) /\ x.isDeviceConnected = TRUE
        /\ x.isMacroRunning => StepSent(x)
    <3>1. m.isMacroRunning /\ m.macroFirstIteration
      BY <2>4
    <3> QED
      BY <2>1, <2>4, <2>5, <2>6, <2>7, <3>1, MacroStepEffect
  <2> HIDE DEF x
  <2>9. Link(x, h)
    BY <2>1, <2>8 DEF Link
  <2>10. u = x
    BY <1>1, <1>5
  <2> QED
    BY <2>5, <2>8, <2>9, <2>10 DEF u
<1> QED
  BY <1>4, <1>5

(* Sweep Start, which a macro does not offer. *)
LEMMA SweepStartEffect ==
  ASSUME NEW v, NEW h \in UIData, Sound(v), Link(v, h), "sweep_start" \in v.enabled
  PROVE  LET u == sweep_start(v, h) IN
         /\ Sound(u) /\ Link(u, Told(h)) /\ ~u.isMacroRunning
         /\ ~v.sweeping => Saved(u) = Saved(v)
<1> DEFINE e == v.enabled \ SweepConflicts
           f == [v EXCEPT !.before_sweep = v.enable_auto_tx, !.enable_auto_tx = TRUE,
                          !.basic = v.sweep.start, !.enabled = e]
           g == [f EXCEPT !.rf = TRUE]
           x == update_gui(g, h)
           u == sweep_start(v, h)
<1>1. v \in Window /\ Guarded(v) /\ Stoppable(v) /\ Table(v)
  BY DEF Sound
<1>2. v.isMacroRunning = FALSE
  BY <1>1 DEF Guarded, MacroConflicts, Window
<1>3. u = [x EXCEPT !.sweeping = TRUE]
  BY <1>2 DEF sweep_start, SetRF
<1> HIDE DEF u
<1>4. e \in SUBSET Controls /\ e \cap {"autotx", "USBTX"} = {} /\ e \subseteq v.enabled
      /\ ("sweep_stop" \in v.enabled => "sweep_stop" \in e)
  BY <1>1 DEF Window, SweepConflicts
<1> HIDE DEF e
<1>5. v.sweep.start \in Freqs
  BY <1>1, SweepsAssumption DEF Window
<1>6. /\ g \in Window /\ SameTable(g, v) /\ g.isDeviceConnected = v.isDeviceConnected
      /\ g.enabled = e /\ g.enable_auto_tx = TRUE /\ g.before_sweep = v.enable_auto_tx
      /\ g.sweeping = v.sweeping /\ g.isMacroRunning = FALSE
  BY <1>1, <1>2, <1>4, <1>5 DEF Window, SameTable
<1> HIDE DEF f, g
<1>7. Guarded(g)
  BY <1>1, <1>2, <1>4, <1>6 DEF Guarded
<1>8. /\ x \in Window /\ SameTable(x, v) /\ x.isMacroRunning = FALSE
      /\ x.enable_auto_tx = TRUE /\ x.before_sweep = v.enable_auto_tx
      /\ x.enabled \cap {"autotx", "USBTX", "macroStop"} = {}
      /\ x.isDeviceConnected = h.isConnected
      /\ h.isConnected => "sweep_stop" \in x.enabled
      /\ ~h.isConnected => "sweep_start" \notin x.enabled
  <2>1. CASE h.isConnected
    <3>1. v.isDeviceConnected /\ ~h.done /\ h.isConnected = TRUE
      BY <2>1 DEF Link, UIData
    <3>2. "sweep_stop" \in e
      BY <1>1, <1>4, <3>1 DEF Stoppable
    <3>3. /\ x \in Window /\ SameData(x, g) /\ SameModes(x, g) /\ Guarded(x)
          /\ x.isDeviceConnected = TRUE
          /\ "sweep_stop" \in g.enabled => "sweep_stop" \in x.enabled
          /\ g.enable_auto_tx /\ g.enabled \cap {"autotx", "USBTX"} = {} =>
               x.enabled \cap {"autotx", "USBTX"} = {}
      BY <1>6, <1>7, <3>1, GuiWithDevice
    <3> HIDE DEF x
    <3>4. x.enabled \cap {"autotx", "USBTX"} = {} /\ "sweep_stop" \in x.enabled
      BY <1>4, <1>6, <3>2, <3>3
    <3>5. x.isMacroRunning = FALSE /\ "macroStop" \notin x.enabled
      BY <1>6, <3>3 DEF Guarded, SameModes
    <3> QED
      BY <1>6, <3>1, <3>3, <3>4, <3>5 DEF SameData, SameTable, SameModes
  <2>2. CASE ~h.isConnected
    <3>1. ~v.sweeping /\ h.isConnected = FALSE
      BY <2>2 DEF Link, UIData
    <3>2. NothingRuns(g) /\ Saved(g) = TRUE
      BY <1>6, <3>1 DEF NothingRuns, Saved
    <3>3. /\ x \in Window /\ SameData(x, g)
          /\ x.enable_auto_tx = Saved(g)
          /\ x.isMacroRunning = FALSE /\ x.isDeviceConnected = FALSE
          /\ x.before_sweep = g.before_sweep /\ "macroStop" \notin x.enabled
          /\ ~g.isMacroRunning => x.enabled \cap NeedDevice = {}
          /\ NothingRuns(g) => x.enabled \subseteq g.enabled
      BY <1>6, <1>7, <2>2, GuiWithoutDevice
    <3> HIDE DEF x
    <3>4. "sweep_start" \notin x.enabled /\ x.enabled \subseteq e
      BY <1>6, <3>2, <3>3 DEF NeedDevice
    <3> QED
      BY <1>4, <1>6, <3>1, <3>2, <3>3, <3>4 DEF SameData, SameTable
  <2> QED
    BY <2>1, <2>2
<1> HIDE DEF x
<1>9. /\ u \in Window /\ SameTable(u, v) /\ u.isMacroRunning = FALSE /\ u.sweeping = TRUE
      /\ u.enable_auto_tx = TRUE /\ u.before_sweep = v.enable_auto_tx /\ u.enabled = x.enabled
      /\ u.isDeviceConnected = x.isDeviceConnected
  BY <1>3, <1>8 DEF Window, SameTable
<1>10. Guarded(u) /\ Stoppable(u) /\ AtStep(u)
  BY <1>8, <1>9 DEF Guarded, Stoppable, AtStep
<1>11. Table(u)
  BY <1>1, <1>9 DEF Table, SameTable
<1>12. Link(u, Told(h))
  <2>1. Told(h).isConnected = h.isConnected /\ Told(h).done = FALSE
    BY DEF Told, UIData
  <2> QED
    BY <1>8, <1>9, <2>1 DEF Link
<1>13. ~v.sweeping => Saved(u) = Saved(v)
  BY <1>2, <1>9 DEF Saved
<1> QED
  BY <1>9, <1>10, <1>11, <1>12, <1>13 DEF Sound, u

(* The sweep's timer. *)
LEMMA SweepTimeoutEffect ==
  ASSUME NEW v, NEW h \in UIData, NEW loop \in BOOLEAN, Sound(v), Link(v, h), v.sweeping
  PROVE  LET u == sweep_timeout(v, loop) IN
         Sound(u) /\ Link(u, h) /\ Saved(u) = Saved(v) /\ ~u.isMacroRunning
<1> DEFINE f == v.basic + v.sweep.step
           s == Tuned(v, f)
           b == [s EXCEPT !.basic = v.sweep.start]
           k == sweep_stop(s)
           x == IF ~PastItsEnd(v, f) THEN s ELSE IF loop THEN b ELSE k
           r == Rebuilt(x)
<1>1. v \in Window /\ Guarded(v) /\ Stoppable(v) /\ Table(v) /\ AtStep(v)
  BY DEF Sound
<1>2. v.isMacroRunning = FALSE /\ v.sweeping = TRUE
  BY <1>1 DEF Guarded, Window
<1>3. Clamped(f) \in Freqs
  BY <1>1, SweepsAssumption, FreqAssumption DEF Clamped, Freqs, Window
<1>4. v.sweep.start \in Freqs
  BY <1>1, SweepsAssumption DEF Window
<1>5. /\ s \in Window /\ SameTable(s, v) /\ SameModes(s, v) /\ s.enabled = v.enabled
      /\ s.isDeviceConnected = v.isDeviceConnected
  BY <1>1, <1>3 DEF Tuned, Window, SameTable, SameModes
<1>6. /\ b \in Window /\ SameTable(b, v) /\ SameModes(b, v) /\ b.enabled = v.enabled
      /\ b.isDeviceConnected = v.isDeviceConnected
  <2> HIDE DEF s
  <2> QED
    BY <1>4, <1>5 DEF Window, SameTable, SameModes
<1>7. sweep_timeout(v, loop) = r
  BY DEF sweep_timeout
<1> HIDE DEF s, b, x
<1>8. /\ k \in Window /\ SameTable(k, v) /\ k.enable_auto_tx = v.before_sweep
      /\ k.sweeping = FALSE /\ k.isMacroRunning = FALSE
      /\ k.isDeviceConnected = v.isDeviceConnected
      /\ "sweep_stop" \in v.enabled => "sweep_stop" \in k.enabled
      /\ "macroStop" \in k.enabled <=> "macroStop" \in v.enabled
  <2>1. /\ k \in Window /\ SameData(k, s) /\ k.enable_auto_tx = s.before_sweep
        /\ k.sweeping = FALSE /\ k.isMacroRunning = s.isMacroRunning
        /\ k.isDeviceConnected = s.isDeviceConnected
        /\ "sweep_stop" \in s.enabled => "sweep_stop" \in k.enabled
        /\ "macroStop" \in k.enabled <=> "macroStop" \in s.enabled
    BY <1>5, SweepStopEffect
  <2> HIDE DEF k
  <2> QED
    BY <1>2, <1>5, <2>1 DEF SameData, SameTable, SameModes
<1> HIDE DEF k
<1>9. /\ x \in Window /\ SameTable(x, v) /\ x.isMacroRunning = FALSE
      /\ x.isDeviceConnected = v.isDeviceConnected
      /\ \/ x.sweeping = TRUE /\ SameModes(x, v) /\ x.enabled = v.enabled
         \/ /\ x.sweeping = FALSE /\ x.enable_auto_tx = v.before_sweep
            /\ "sweep_stop" \in v.enabled => "sweep_stop" \in x.enabled
            /\ "macroStop" \in x.enabled <=> "macroStop" \in v.enabled
  <2>1. CASE x \in {s, b}
    BY <1>2, <1>5, <1>6, <2>1 DEF SameModes
  <2>2. CASE x = k
    BY <1>8, <2>2
  <2> QED
    BY <2>1, <2>2 DEF x
<1>10. /\ Guarded(x) /\ Saved(x) = Saved(v) /\ Stoppable(x)
  BY <1>1, <1>2, <1>9 DEF Guarded, Saved, Stoppable, SameModes
<1>11. Link(x, h)
  BY <1>2, <1>9 DEF Link
<1>12. /\ r \in Window /\ SameData(r, x) /\ r.enabled = x.enabled
       /\ r.enable_auto_tx = x.enable_auto_tx
       /\ r.sweeping = x.sweeping /\ r.isMacroRunning = x.isMacroRunning
       /\ r.before_sweep = x.before_sweep /\ r.before_macro = x.before_macro
       /\ r.isDeviceConnected = x.isDeviceConnected
  BY <1>9, RebuiltEffect
<1> HIDE DEF r
<1>13. Guarded(r) /\ Saved(r) = Saved(v) /\ Stoppable(r) /\ AtStep(r) /\ ~r.isMacroRunning
  BY <1>9, <1>10, <1>12 DEF Guarded, Saved, Stoppable, AtStep
<1>14. Table(r) /\ Link(r, h)
  BY <1>1, <1>9, <1>11, <1>12 DEF Table, SameData, SameTable, Link
<1> QED
  BY <1>7, <1>12, <1>13, <1>14 DEF Sound

(* A window with the modes, the controls and the active steps of a sound   *)
(* one, and flags that are up to date, is sound.                           *)
LEMMA SameModesSound ==
  ASSUME NEW u \in Window, NEW v, NEW h \in UIData, Sound(v), Link(v, h),
         SameModes(u, v), u.isDeviceConnected = v.isDeviceConnected, u.enabled = v.enabled,
         u.currentMacroStep = v.currentMacroStep, u.active = v.active, Table(u)
  PROVE  Sound(u) /\ Link(u, h) /\ Saved(u) = Saved(v)
<1>1. Guarded(u) /\ Stoppable(u) /\ AtStep(u)
  BY DEF Sound, Guarded, Stoppable, AtStep, SameModes
<1>2. Saved(u) = Saved(v) /\ Link(u, h)
  BY DEF Saved, Link, SameModes
<1> QED
  BY <1>1, <1>2 DEF Sound

(* With a value in a spin box, or recalculated, the window's table and     *)
(* modes are the same; if the boxes agree with what was sent, so is that.  *)
LEMMA RecalculatedEffect ==
  ASSUME NEW v \in Window, NEW front \in {"control", "advance"}
  PROVE  LET u == Recalculated(v, front) IN
         /\ u \in Window /\ SameTable(u, v) /\ SameModes(u, v) /\ u.enabled = v.enabled
         /\ u.isDeviceConnected = v.isDeviceConnected
         /\ u.currentMacroStep = v.currentMacroStep
         /\ v.enable_auto_tx /\ StepSent(v) => StepSent(u)
<1> DEFINE f == IF front = "control" THEN v.basic ELSE v.freq
           s == [v EXCEPT !.basic = f, !.freq = f, !.adf = f]
           u == Rebuilt(s)
<1>1. Recalculated(v, front) = u
  BY DEF Recalculated
<1>2. f \in Freqs /\ (v.basic = v.freq => f = v.basic)
  BY DEF Window
<1> HIDE DEF f
<1>3. /\ s \in Window /\ SameTable(s, v) /\ SameModes(s, v) /\ s.enabled = v.enabled
      /\ s.isDeviceConnected = v.isDeviceConnected
      /\ s.currentMacroStep = v.currentMacroStep /\ s.sent = v.sent /\ s.rf = v.rf
      /\ s.basic = f /\ s.freq = f /\ s.adf = f
  BY <1>2 DEF Window, SameTable, SameModes
<1> HIDE DEF s
<1>4. /\ u \in Window /\ SameData(u, s) /\ SameModes(u, s) /\ u.enabled = s.enabled
      /\ u.isDeviceConnected = s.isDeviceConnected
      /\ u.sent = IF s.enable_auto_tx THEN s.adf ELSE s.sent
  BY <1>3, RebuiltEffect DEF SameModes
<1> HIDE DEF u
<1>5. SameTable(u, v) /\ SameModes(u, v)
  BY <1>3, <1>4 DEF SameData, SameTable, SameModes
<1>6. ASSUME v.enable_auto_tx, StepSent(v) PROVE StepSent(u)
  BY <1>2, <1>3, <1>4, <1>5, <1>6 DEF StepSent, SameData, SameTable, SameModes
<1> QED
  BY <1>1, <1>3, <1>4, <1>5, <1>6 DEF SameData

-----------------------------------------------------------------------------
(***************************************************************************)
(* The invariant.                                                          *)
(***************************************************************************)
(* The constructor's window, before a device is there. *)
LEMMA InitInv == Init => Inv
<1> SUFFICES ASSUME Init PROVE Inv
  OBVIOUS
<1>1. 0 \in Steps /\ 1 \in Steps /\ 1 \in Freqs /\ 0 \in 0 .. NumSteps
  BY TableAssumption, FreqAssumption DEF Steps, Freqs
<1>2. w \in Window
  BY <1>1 DEF Init, Window, Controls
<1>3. TypeOK
  <2>1. hid \in UIData
    BY DEF Init, UIData
  <2>2. firmware = 0 /\ clicks = 0 /\ plugs = 0
    BY DEF Init
  <2>3. chosen \in BOOLEAN /\ odd \in BOOLEAN /\ edited \in BOOLEAN
    BY DEF Init
  <2>4. firmware \in Majors \cup {0} /\ clicks \in 0 .. MaxClicks /\ plugs \in 0 .. MaxPlugs
    BY <2>2, LimitsAssumption
  <2> QED
    BY <1>2, <2>1, <2>3, <2>4 DEF TypeOK
<1>4. recalcMacroPLL(w.active, w.freqs) = {}
  <2>1. w.active = {0, 1} /\ w.freqs = [i \in Steps |-> 1]
    BY DEF Init
  <2>2. Cardinality({0, 1}) = 2
    <3>1. IsFiniteSet({0}) /\ Cardinality({0}) = 1
      BY FS_Singleton
    <3>2. {0, 1} = {0} \cup {1} /\ 1 \notin {0}
      OBVIOUS
    <3>3. Cardinality({0} \cup {1}) = Cardinality({0}) + 1
      BY <3>1, <3>2, FS_AddElement
    <3> QED
      BY <3>1, <3>2, <3>3
  <2>3. ASSUME NEW i \in {0, 1} PROVE Before({0, 1}, i) \in Steps
    <3> DEFINE earlier == {j \in {0, 1} : j < i}
               pick == IF earlier = {} THEN {0, 1} ELSE earlier
    <3>1. pick \in SUBSET Steps /\ pick # {}
      BY <1>1
    <3>2. Greatest(pick) \in pick
      BY <3>1, GreatestStep
    <3>3. Before({0, 1}, i) = Greatest(pick)
      BY DEF Before
    <3> QED
      BY <3>1, <3>2, <3>3
  <2>4. recalcMacroPLL(w.active, w.freqs) =
          {i \in {0, 1} : w.freqs[Before({0, 1}, i)] # w.freqs[i]}
    BY <2>1, <2>2 DEF recalcMacroPLL
  <2> QED
    BY <1>1, <2>1, <2>3, <2>4
<1>5. NoGap(w.active)
  <2>1. w.active = {0, 1}
    BY DEF Init
  <2>2. NoGap({0, 1})
    BY DEF NoGap, Steps
  <2> QED
    BY <2>1, <2>2
<1>6. Sound(w)
  BY <1>2, <1>4, <1>5 DEF Init, Sound, Guarded, Stoppable, Table, AtStep
<1>7. Link(w, hid) /\ Saved(w) = TRUE /\ chosen = TRUE /\ ~w.isMacroRunning
  BY DEF Init, Link, Saved
<1> QED
  BY <1>3, <1>6, <1>7 DEF Inv

(* What a step keeps, beside the counters. *)
Kept ==
  /\ Sound(w') /\ hid' \in UIData /\ Link(w', hid')
  /\ ~odd' => chosen' = Saved(w')
  /\ w'.isMacroRunning /\ ~edited' => StepSent(w')

(* The counters and the history variables. *)
LEMMA CountersKept ==
  ASSUME TypeOK, Next
  PROVE  /\ clicks' \in 0 .. MaxClicks /\ plugs' \in 0 .. MaxPlugs /\ firmware' \in Majors \cup {0}
         /\ chosen' \in BOOLEAN /\ odd' \in BOOLEAN /\ edited' \in BOOLEAN
<1> USE LimitsAssumption DEF TypeOK
<1>1. ASSUME User PROVE clicks' \in 0 .. MaxClicks /\ UNCHANGED <<firmware, plugs>>
  <2>1. ASSUME NEW v, Acts(v) PROVE clicks' \in 0 .. MaxClicks /\ UNCHANGED <<firmware, plugs>>
    BY <2>1 DEF Acts
  <2>2. \E v : Acts(v)
    BY <1>1 DEF User, SweepStart, SweepStop, MacroStart, MacroStop, autotx_clicked, update_reg,
                program_flash_click, update_RF_CTRL, ChangeFrequency, ChangeSweep, recalculate,
                autoStartonBoot_clicked, ChangeStep, macro_active_changed, Clicks
  <2> QED
    BY <2>1, <2>2
<1>2. ASSUME User PROVE chosen' \in BOOLEAN /\ odd' \in BOOLEAN /\ edited' \in BOOLEAN
  BY <1>2 DEF User, SweepStart, SweepStop, MacroStart, MacroStop, autotx_clicked, update_reg,
              program_flash_click, update_RF_CTRL, ChangeFrequency, ChangeSweep, recalculate,
              autoStartonBoot_clicked, ChangeStep, macro_active_changed, Recorded
<1>3. CASE Alone
  BY <1>3 DEF Alone
<1>4. CASE PollWithoutDevice
  BY <1>4 DEF PollWithoutDevice
<1> QED
  BY <1>1, <1>2, <1>3, <1>4
  DEF Next, sweep_timer_timeout, macro_timer_timeout, CloseDevice, ReadVersion, ReadStatus,
      slow_read_timeout

(* The clicks on the sweep's and the macro's buttons. *)
LEMMA ButtonsKeep ==
  ASSUME Inv, SweepStart \/ SweepStop \/ MacroStart \/ MacroStop
  PROVE  Kept
<1>1. /\ w \in Window /\ hid \in UIData /\ Sound(w) /\ Link(w, hid)
      /\ Guarded(w) /\ Stoppable(w) /\ Table(w)
      /\ odd \in BOOLEAN /\ (~odd => chosen = Saved(w))
  BY DEF Inv, TypeOK, Sound
<1>2. CASE SweepStart
  <2>1. /\ "sweep_start" \in w.enabled /\ w' = sweep_start(w, hid) /\ hid' = Told(hid)
        /\ odd' = (odd \/ w.sweeping) /\ chosen' = chosen
    BY <1>2 DEF SweepStart, Clicks, Acts
  <2>2. /\ Sound(w') /\ Link(w', hid') /\ ~w'.isMacroRunning
        /\ ~w.sweeping => Saved(w') = Saved(w)
    BY <1>1, <2>1, SweepStartEffect
  <2>3. hid' \in UIData
    BY <1>1, <2>1 DEF Told, UIData
  <2>4. ~odd' => chosen' = Saved(w')
    BY <1>1, <2>1, <2>2
  <2> QED
    BY <2>2, <2>3, <2>4 DEF Kept
<1>3. CASE SweepStop
  <2>1. /\ "sweep_stop" \in w.enabled /\ w' = sweep_stop(w) /\ hid' = hid
        /\ odd' = (odd \/ ~w.sweeping) /\ chosen' = chosen
    BY <1>3 DEF SweepStop, Clicks, Acts
  <2>2. w.isMacroRunning = FALSE
    BY <1>1, <2>1 DEF Guarded, MacroConflicts, Window
  <2>3. /\ w' \in Window /\ SameData(w', w) /\ w'.enable_auto_tx = w.before_sweep
        /\ w'.sweeping = FALSE /\ w'.isMacroRunning = w.isMacroRunning
        /\ w'.isDeviceConnected = w.isDeviceConnected
        /\ "sweep_stop" \in w.enabled => "sweep_stop" \in w'.enabled
        /\ "macroStop" \in w'.enabled <=> "macroStop" \in w.enabled
    BY <1>1, <2>1, SweepStopEffect
  <2>4. Guarded(w') /\ Stoppable(w') /\ AtStep(w')
    BY <1>1, <2>1, <2>2, <2>3 DEF Guarded, Stoppable, AtStep
  <2>5. Table(w')
    BY <1>1, <2>3 DEF Table, SameData, SameTable
  <2>6. Link(w', hid')
    BY <1>1, <2>1, <2>3 DEF Link
  <2>7. ~odd' => chosen' = Saved(w')
    BY <1>1, <2>1, <2>2, <2>3 DEF Saved
  <2> QED
    BY <1>1, <2>1, <2>2, <2>3, <2>4, <2>5, <2>6, <2>7 DEF Kept, Sound
<1>4. CASE MacroStart
  <2>1. PICK loop \in BOOLEAN : "macroStart" \in w.enabled /\ w' = macro_start(w, loop, hid)
    BY <1>4 DEF MacroStart, Clicks, Acts
  <2>2. hid' = hid /\ odd' = odd /\ chosen' = chosen
    BY <1>4 DEF MacroStart
  <2>3. /\ Sound(w') /\ Saved(w') = Saved(w) /\ Link(w', hid)
        /\ w'.isMacroRunning => StepSent(w')
    BY <1>1, <2>1, MacroStartEffect
  <2> QED
    BY <1>1, <2>2, <2>3 DEF Kept
<1>5. CASE MacroStop
  <2>1. "macroStop" \in w.enabled /\ w' = macro_stop(w) /\ hid' = hid
        /\ odd' = odd /\ chosen' = chosen
    BY <1>5 DEF MacroStop, Clicks, Acts, Recorded
  <2>2. w.isMacroRunning /\ ~w.sweeping /\ w.isDeviceConnected
    BY <1>1, <2>1 DEF Guarded
  <2>3. /\ w' \in Window /\ SameData(w', w) /\ w'.enable_auto_tx = w.before_macro
        /\ w'.sweeping = w.sweeping /\ w'.isMacroRunning = FALSE
        /\ w'.isDeviceConnected = w.isDeviceConnected
        /\ "sweep_stop" \in w'.enabled /\ "macroStop" \notin w'.enabled
    BY <1>1, <2>1, MacroStopEffect
  <2>4. Guarded(w') /\ Stoppable(w') /\ AtStep(w')
    BY <2>2, <2>3 DEF Guarded, Stoppable, AtStep
  <2>5. Table(w')
    BY <1>1, <2>3 DEF Table, SameData, SameTable
  <2>6. Link(w', hid')
    BY <1>1, <2>1, <2>2, <2>3 DEF Link
  <2>7. ~odd' => chosen' = Saved(w')
    BY <1>1, <2>1, <2>2, <2>3 DEF Saved
  <2> QED
    BY <1>1, <2>1, <2>3, <2>4, <2>5, <2>6, <2>7 DEF Kept, Sound
<1> QED
  BY <1>2, <1>3, <1>4, <1>5

(* The timers, and HID_PnP. *)
LEMMA TimersKeep ==
  ASSUME Inv, \/ sweep_timer_timeout \/ macro_timer_timeout \/ PollWithoutDevice
              \/ CloseDevice \/ ReadVersion \/ ReadStatus \/ slow_read_timeout
  PROVE  Kept
<1>1. /\ w \in Window /\ hid \in UIData /\ Sound(w) /\ Link(w, hid)
      /\ Guarded(w) /\ Table(w) /\ AtStep(w) /\ firmware \in Majors \cup {0}
      /\ (~odd => chosen = Saved(w))
      /\ (w.isMacroRunning /\ ~edited => StepSent(w))
  BY DEF Inv, TypeOK, Sound
<1>2. CASE sweep_timer_timeout
  <2>1. PICK loop \in BOOLEAN : w.sweeping /\ w' = sweep_timeout(w, loop)
    BY <1>2 DEF sweep_timer_timeout
  <2>2. hid' = hid /\ odd' = odd /\ chosen' = chosen
    BY <1>2 DEF sweep_timer_timeout, Alone
  <2>3. Sound(w') /\ Link(w', hid) /\ Saved(w') = Saved(w) /\ ~w'.isMacroRunning
    BY <1>1, <2>1, SweepTimeoutEffect
  <2> QED
    BY <1>1, <2>2, <2>3 DEF Kept
<1>3. CASE macro_timer_timeout
  <2> DEFINE i == w.currentMacroStep + 1
  <2>1. PICK loop \in BOOLEAN : w.isMacroRunning /\ w' = executeMacroStep(w, i, loop, hid)
    BY <1>3 DEF macro_timer_timeout
  <2>2. hid' = hid /\ odd' = odd /\ chosen' = chosen /\ edited' = edited
    BY <1>3 DEF macro_timer_timeout, Alone
  <2>3. w.currentMacroStep \in w.active /\ i \in 0 .. NumSteps
    BY <1>1, <2>1, TableAssumption DEF AtStep, Window, Steps
  <2>4. hid.isConnected /\ ~hid.done
    BY <1>1, <2>1 DEF Guarded, Link
  <2>5. /\ Sound(w') /\ Saved(w') = Saved(w) /\ w'.isDeviceConnected = TRUE
        /\ \/ w.macroFirstIteration
           \/ w.currentMacroStep \in w.active /\ StepSent(w) /\ i = w.currentMacroStep + 1
           => (w'.isMacroRunning => StepSent(w'))
    <3> HIDE DEF i
    <3> QED
      BY <1>1, <2>1, <2>3, <2>4, MacroStepEffect
  <2>6. Link(w', hid')
    BY <2>2, <2>4, <2>5 DEF Link
  <2> QED
    BY <1>1, <2>1, <2>2, <2>3, <2>5, <2>6 DEF Kept
<1>4. CASE PollWithoutDevice
  <2>1. ~hid.isConnected /\ w' = update_gui(w, hid) /\ odd' = odd /\ chosen' = chosen
    BY <1>4 DEF PollWithoutDevice
  <2>2. hid' \in UIData /\ hid'.done = FALSE
    BY <1>1, <1>4 DEF PollWithoutDevice, Told, UIData
  <2>3. ~w.isMacroRunning
    BY <1>1, <2>1 DEF Guarded, Link
  <2>4. /\ Sound(w') /\ Saved(w') = Saved(w) /\ ~w'.isMacroRunning /\ Link(w', hid')
    BY <1>1, <2>1, <2>2, <2>3, GuiSound
  <2> QED
    BY <1>1, <2>1, <2>2, <2>4 DEF Kept
<1>5. CASE CloseDevice
  <2> DEFINE h == [hid EXCEPT !.isConnected = FALSE]
  <2>1. /\ w' = update_gui(w, h) /\ odd' = odd /\ chosen' = chosen
        /\ \E done \in BOOLEAN : hid' = [Told(h) EXCEPT !.done = done]
    BY <1>5 DEF CloseDevice, Alone
  <2>2. h \in UIData /\ h.isConnected = FALSE
    BY <1>1 DEF UIData
  <2> HIDE DEF h
  <2>3. hid' \in UIData /\ hid'.isConnected = FALSE
    BY <2>1, <2>2 DEF Told, UIData
  <2>4. Sound(w') /\ Saved(w') = Saved(w) /\ ~w'.isMacroRunning /\ Link(w', hid')
    BY <1>1, <2>1, <2>2, <2>3, GuiSound
  <2> QED
    BY <1>1, <2>1, <2>3, <2>4 DEF Kept
<1>6. ASSUME NEW h \in UIData, h.isConnected, hid.isConnected, ~h.done, w' = update_gui(w, h),
             hid' \in UIData, hid'.isConnected, ~hid'.done,
             odd' = odd, chosen' = chosen, edited' = edited
      PROVE  Kept
  <2>1. Link(w, h)
    BY <1>1, <1>6 DEF Link
  <2>2. /\ Sound(w') /\ SameData(w', w) /\ Saved(w') = Saved(w)
        /\ SameModes(w', w) /\ w'.sent = w.sent /\ Link(w', hid')
    BY <1>1, <1>6, <2>1, GuiSound
  <2>3. w'.isMacroRunning /\ ~edited' => StepSent(w')
    BY <1>1, <1>6, <2>2 DEF StepSent, SameModes, SameData, SameTable
  <2> QED
    BY <1>1, <1>6, <2>2, <2>3 DEF Kept
<1>7. CASE ReadVersion
  <2>1. /\ hid.isConnected /\ hid' = [hid EXCEPT !.pending = FALSE, !.major = firmware]
        /\ w' = update_gui(w, hid') /\ odd' = odd /\ chosen' = chosen /\ edited' = edited
    BY <1>7 DEF ReadVersion, Alone
  <2>2. hid' \in UIData /\ hid'.isConnected /\ ~hid'.done
    BY <1>1, <2>1 DEF UIData, Link
  <2> QED
    BY <1>6, <2>1, <2>2
<1>8. CASE ReadStatus
  <2>1. /\ hid.isConnected /\ hid' = Told(hid)
        /\ w' = update_gui(w, hid) /\ odd' = odd /\ chosen' = chosen /\ edited' = edited
    BY <1>8 DEF ReadStatus, Alone
  <2>2. hid' \in UIData /\ hid'.isConnected /\ ~hid'.done /\ ~hid.done
    BY <1>1, <2>1 DEF UIData, Link, Told
  <2> QED
    BY <1>1, <1>6, <2>1, <2>2
<1>9. CASE slow_read_timeout
  <2>1. /\ hid' = [hid EXCEPT !.pending = TRUE] /\ w' = w
        /\ odd' = odd /\ chosen' = chosen /\ edited' = edited
    BY <1>9 DEF slow_read_timeout, Alone
  <2>2. hid' \in UIData /\ hid'.isConnected = hid.isConnected /\ hid'.done = hid.done
    BY <1>1, <2>1 DEF UIData
  <2>3. Link(w', hid')
    BY <1>1, <2>1, <2>2 DEF Link
  <2> QED
    BY <1>1, <2>1, <2>2, <2>3 DEF Kept
<1> QED
  BY <1>2, <1>3, <1>4, <1>5, <1>7, <1>8, <1>9

(* What the user changes in the window.  The controls and the modes stay,  *)
(* but for automatic transmission and what update_gui does.                *)
LEMMA EditsKeep ==
  ASSUME Inv,
         \/ autotx_clicked \/ update_reg \/ program_flash_click \/ update_RF_CTRL
         \/ \E f \in Freqs : ChangeFrequency(f)
         \/ \E s \in Sweeps : ChangeSweep(s)
         \/ recalculate \/ autoStartonBoot_clicked
         \/ \E i \in Steps, f \in Freqs, rf \in BOOLEAN : ChangeStep(i, f, rf)
         \/ \E i \in Steps \ {0, 1} : macro_active_changed(i)
  PROVE  Kept
<1>1. /\ w \in Window /\ hid \in UIData /\ Sound(w) /\ Link(w, hid)
      /\ Guarded(w) /\ Table(w) /\ AtStep(w)
      /\ (~odd => chosen = Saved(w))
      /\ (w.isMacroRunning /\ ~edited => StepSent(w))
      /\ (w.isMacroRunning => w.enable_auto_tx)
  BY DEF Inv, TypeOK, Sound, Guarded
<1>2. ASSUME NEW u \in Window, w' = u, SameModes(u, w),
             u.isDeviceConnected = w.isDeviceConnected, u.enabled = w.enabled,
             u.currentMacroStep = w.currentMacroStep, u.active = w.active, Table(u),
             hid' = hid, odd' = odd, chosen' = chosen,
             w.isMacroRunning /\ ~edited' => StepSent(u)
      PROVE  Kept
  <2>1. Sound(u) /\ Link(u, hid) /\ Saved(u) = Saved(w)
    BY <1>1, <1>2, SameModesSound
  <2>2. u.isMacroRunning = w.isMacroRunning
    BY <1>2 DEF SameModes
  <2> QED
    BY <1>1, <1>2, <2>1, <2>2 DEF Kept
<1>3. CASE autotx_clicked
  <2> DEFINE e == (w.enabled \ {"USBTX"}) \cup Only("USBTX", w.enable_auto_tx)
             u == [w EXCEPT !.enable_auto_tx = ~@, !.enabled = e]
  <2>1. /\ "autotx" \in w.enabled /\ w' = u /\ hid' = hid
        /\ chosen' = ~w.enable_auto_tx
    BY <1>3 DEF autotx_clicked, Clicks, Acts
  <2>2. w.sweeping = FALSE /\ w.isMacroRunning = FALSE
    BY <1>1, <2>1 DEF Guarded, MacroConflicts, Window
  <2>3. e \in SUBSET Controls
    BY <1>1 DEF Window, Only, Controls, NeedDevice
  <2>4. \A control \in {"macroStop", "sweep_start", "sweep_stop"} :
          control \in e <=> control \in w.enabled
    BY DEF Only
  <2> HIDE DEF e
  <2>5. /\ u \in Window /\ SameTable(u, w) /\ u.sweeping = FALSE /\ u.isMacroRunning = FALSE
        /\ u.enabled = e /\ u.enable_auto_tx = ~w.enable_auto_tx
        /\ u.isDeviceConnected = w.isDeviceConnected
    BY <1>1, <2>2, <2>3 DEF Window, SameTable
  <2> HIDE DEF u
  <2>6. Guarded(u) /\ AtStep(u) /\ Saved(u) = ~w.enable_auto_tx
    BY <1>1, <2>2, <2>4, <2>5 DEF Guarded, AtStep, Saved
  <2>7. Stoppable(u) /\ Link(u, hid)
    BY <1>1, <2>2, <2>4, <2>5 DEF Sound, Stoppable, Link
  <2>8. Table(u)
    BY <1>1, <2>5 DEF Table, SameTable
  <2> QED
    BY <1>1, <2>1, <2>5, <2>6, <2>7, <2>8 DEF Kept, Sound
<1>4. ASSUME NEW u \in Window, w' = u, SameData(u, w), SameModes(u, w),
             u.isDeviceConnected = w.isDeviceConnected, u.enabled = w.enabled,
             u.sent \in {w.sent, w.adf},
             hid' = hid, odd' = odd, chosen' = chosen, edited' = edited
      PROVE  Kept
  <2>1. Table(u)
    BY <1>1, <1>4 DEF Table, SameData, SameTable
  <2>2. w.isMacroRunning /\ ~edited' => StepSent(u)
    BY <1>1, <1>4 DEF StepSent, SameData, SameTable
  <2> QED
    BY <1>2, <1>4, <2>1, <2>2 DEF SameData, SameTable
<1>5. /\ Sent(w) \in Window /\ SameData(Sent(w), w) /\ SameModes(Sent(w), w)
      /\ Sent(w).isDeviceConnected = w.isDeviceConnected /\ Sent(w).enabled = w.enabled
      /\ Sent(w).sent = w.adf
  BY <1>1 DEF Sent, Window, SameData, SameTable, SameModes
<1>6. CASE update_reg
  <2>1. w' = Sent(w) /\ hid' = hid /\ odd' = odd /\ chosen' = chosen /\ edited' = edited
    BY <1>6 DEF update_reg, Clicks, Acts, Recorded
  <2> QED
    BY <1>4, <1>5, <2>1
<1>7. CASE program_flash_click
  <2>1. w' = Sent(Rebuilt(w)) /\ hid' = hid /\ odd' = odd /\ chosen' = chosen /\ edited' = edited
    BY <1>7 DEF program_flash_click, Clicks, Acts, Recorded
  <2>2. Sent(Rebuilt(w)) = Sent(w)
    BY <1>1 DEF Sent, Rebuilt, Window
  <2> QED
    BY <1>4, <1>5, <2>1, <2>2
<1>8. CASE autoStartonBoot_clicked
  <2>1. w' = Rebuilt(w) /\ hid' = hid /\ odd' = odd /\ chosen' = chosen /\ edited' = edited
    BY <1>8 DEF autoStartonBoot_clicked, Acts, Recorded
  <2>2. CASE w.enable_auto_tx
    <3>1. w' = Sent(w)
      BY <2>1, <2>2 DEF Rebuilt
    <3> QED
      BY <1>4, <1>5, <2>1, <3>1
  <2>3. CASE ~w.enable_auto_tx
    <3>1. w' = w
      BY <2>1, <2>3 DEF Rebuilt
    <3> QED
      BY <1>1, <1>4, <2>1, <3>1 DEF SameData, SameTable, SameModes
  <2> QED
    BY <2>2, <2>3
<1>9. CASE update_RF_CTRL
  <2>1. PICK on \in BOOLEAN : w' = update_gui([w EXCEPT !.rf = on], hid)
    BY <1>9 DEF update_RF_CTRL, Clicks, Acts, SetRF
  <2>2. hid' = Told(hid) /\ edited' = TRUE /\ odd' = odd /\ chosen' = chosen
    BY <1>9 DEF update_RF_CTRL
  <2> DEFINE b == [w EXCEPT !.rf = on]
  <2>3. /\ b \in Window /\ SameTable(b, w) /\ SameModes(b, w) /\ b.enabled = w.enabled
        /\ b.isDeviceConnected = w.isDeviceConnected /\ b.currentMacroStep = w.currentMacroStep
    BY <1>1 DEF Window, SameTable, SameModes
  <2>4. w' = update_gui(b, hid)
    BY <2>1
  <2> HIDE DEF b
  <2>5. Table(b) /\ b.active = w.active
    BY <1>1, <2>3 DEF Table, SameTable
  <2>6. Sound(b) /\ Link(b, hid) /\ Saved(b) = Saved(w) /\ b.isMacroRunning = w.isMacroRunning
    BY <1>1, <2>3, <2>5, SameModesSound DEF SameModes
  <2>7. hid' \in UIData /\ hid'.isConnected = hid.isConnected /\ hid'.done = FALSE
    BY <1>1, <2>2 DEF Told, UIData
  <2>8. Sound(w') /\ Saved(w') = Saved(b) /\ Link(w', hid')
    BY <1>1, <2>4, <2>6, <2>7, GuiSound
  <2> QED
    BY <1>1, <2>2, <2>6, <2>7, <2>8 DEF Kept
<1>10. ASSUME NEW v \in Window, NEW front \in {"control", "advance"}, w' = Recalculated(v, front),
              SameModes(v, w), v.isDeviceConnected = w.isDeviceConnected, v.enabled = w.enabled,
              v.currentMacroStep = w.currentMacroStep,
              v.active = w.active, v.freqs = w.freqs, v.pll = w.pll,
              hid' = hid, odd' = odd, chosen' = chosen,
              w.isMacroRunning /\ ~edited' => StepSent(v)
       PROVE  Kept
  <2> DEFINE u == Recalculated(v, front)
  <2>1. /\ u \in Window /\ SameTable(u, v) /\ SameModes(u, v) /\ u.enabled = v.enabled
        /\ u.isDeviceConnected = v.isDeviceConnected
        /\ u.currentMacroStep = v.currentMacroStep
        /\ v.enable_auto_tx /\ StepSent(v) => StepSent(u)
    BY <1>10, RecalculatedEffect
  <2>2. w' = u
    BY <1>10
  <2> HIDE DEF u
  <2>3. Table(u) /\ u.active = w.active
    BY <1>1, <1>10, <2>1 DEF Table, SameTable
  <2>4. SameModes(u, w) /\ v.enable_auto_tx = w.enable_auto_tx
    BY <1>10, <2>1 DEF SameModes
  <2>5. w.isMacroRunning /\ ~edited' => StepSent(u)
    BY <1>1, <1>10, <2>1, <2>4
  <2> QED
    BY <1>2, <1>10, <2>1, <2>2, <2>3, <2>4, <2>5
<1>11. ASSUME NEW f \in Freqs, ChangeFrequency(f) PROVE Kept
  <2>1. hid' = hid /\ odd' = odd /\ chosen' = chosen /\ edited' = TRUE
    BY <1>11 DEF ChangeFrequency
  <2>2. CASE Acts(Recalculated([w EXCEPT !.basic = f], "control"))
    <3> DEFINE v == [w EXCEPT !.basic = f]
    <3>1. /\ v \in Window /\ SameModes(v, w) /\ v.isDeviceConnected = w.isDeviceConnected
          /\ v.enabled = w.enabled /\ v.currentMacroStep = w.currentMacroStep
          /\ v.active = w.active /\ v.freqs = w.freqs /\ v.pll = w.pll
      BY <1>1 DEF Window, SameModes
    <3>2. w' = Recalculated(v, "control")
      BY <2>2 DEF Acts
    <3> HIDE DEF v
    <3> QED
      BY <1>10, <2>1, <3>1, <3>2
  <2>3. CASE Acts(Recalculated([w EXCEPT !.freq = f], "advance"))
    <3> DEFINE v == [w EXCEPT !.freq = f]
    <3>1. /\ v \in Window /\ SameModes(v, w) /\ v.isDeviceConnected = w.isDeviceConnected
          /\ v.enabled = w.enabled /\ v.currentMacroStep = w.currentMacroStep
          /\ v.active = w.active /\ v.freqs = w.freqs /\ v.pll = w.pll
      BY <1>1 DEF Window, SameModes
    <3>2. w' = Recalculated(v, "advance")
      BY <2>3 DEF Acts
    <3> HIDE DEF v
    <3> QED
      BY <1>10, <2>1, <3>1, <3>2
  <2> QED
    BY <1>11, <2>2, <2>3 DEF ChangeFrequency
<1>12. ASSUME NEW s \in Sweeps, ChangeSweep(s) PROVE Kept
  <2> DEFINE v == [w EXCEPT !.sweep = s]
             ends == s.start # w.sweep.start \/ s.end # w.sweep.end
  <2>1. /\ hid' = hid /\ odd' = odd /\ chosen' = chosen /\ edited' = edited
        /\ w' = IF ends THEN Recalculated(v, "control") ELSE v
    BY <1>12 DEF ChangeSweep, Recorded, Acts
  <2>2. /\ v \in Window /\ SameModes(v, w) /\ v.isDeviceConnected = w.isDeviceConnected
        /\ v.enabled = w.enabled /\ v.currentMacroStep = w.currentMacroStep
        /\ v.active = w.active /\ v.freqs = w.freqs /\ v.pll = w.pll /\ v.rfs = w.rfs
        /\ v.basic = w.basic /\ v.freq = w.freq /\ v.adf = w.adf /\ v.sent = w.sent /\ v.rf = w.rf
    BY <1>1 DEF Window, SameModes
  <2> HIDE DEF v, ends
  <2>3. w.isMacroRunning /\ ~edited' => StepSent(v)
    BY <1>1, <2>1, <2>2 DEF StepSent
  <2>4. Table(v)
    BY <1>1, <2>2 DEF Table
  <2>5. CASE ends
    BY <1>10, <2>1, <2>2, <2>3, <2>5
  <2>6. CASE ~ends
    BY <1>2, <2>1, <2>2, <2>3, <2>4, <2>6
  <2> QED
    BY <2>5, <2>6
<1>13. CASE recalculate
  <2>1. PICK front \in {"control", "advance"} : w' = Recalculated(w, front)
    BY <1>13 DEF recalculate, Acts
  <2>2. hid' = hid /\ odd' = odd /\ chosen' = chosen /\ edited' = edited
    BY <1>13 DEF recalculate, Recorded
  <2> QED
    BY <1>1, <1>10, <2>1, <2>2 DEF SameModes
<1>14. ASSUME NEW i \in Steps, NEW f \in Freqs, NEW rf \in BOOLEAN, ChangeStep(i, f, rf)
       PROVE  Kept
  <2> DEFINE fs == [w.freqs EXCEPT ![i] = f]
             rs == [w.rfs EXCEPT ![i] = rf]
             p == IF fs = w.freqs THEN w.pll ELSE recalcMacroPLL(w.active, fs)
             u == [w EXCEPT !.freqs = fs, !.rfs = rs, !.pll = p]
  <2>1. hid' = hid /\ odd' = odd /\ chosen' = chosen /\ edited' = TRUE
    BY <1>14 DEF ChangeStep
  <2>2. fs \in [Steps -> Freqs] /\ rs \in [Steps -> BOOLEAN]
    BY <1>1 DEF Window
  <2>3. p \in SUBSET Steps /\ p = recalcMacroPLL(w.active, fs)
    BY <1>1 DEF Window, Table, recalcMacroPLL
  <2>4. w' = u
    BY <1>14 DEF ChangeStep, Acts
  <2> HIDE DEF fs, rs, p
  <2>5. /\ u \in Window /\ SameModes(u, w) /\ u.isDeviceConnected = w.isDeviceConnected
        /\ u.enabled = w.enabled /\ u.currentMacroStep = w.currentMacroStep
        /\ u.active = w.active /\ u.freqs = fs /\ u.pll = p
    BY <1>1, <2>2, <2>3 DEF Window, SameModes
  <2> HIDE DEF u
  <2>6. Table(u)
    BY <1>1, <2>3, <2>5 DEF Table
  <2> QED
    BY <1>2, <2>1, <2>4, <2>5, <2>6
<1>15. ASSUME NEW i \in Steps \ {0, 1}, macro_active_changed(i) PROVE Kept
  <2> DEFINE a == IF i \in w.active THEN {j \in w.active : j < i}
                                    ELSE w.active \cup {j \in Steps : j <= i}
             p == recalcMacroPLL(a, w.freqs)
             u == [w EXCEPT !.active = a, !.pll = p]
  <2>1. /\ "active" \in w.enabled /\ w' = u /\ hid' = hid
        /\ odd' = odd /\ chosen' = chosen /\ edited' = edited
    BY <1>15 DEF macro_active_changed, Clicks, Acts, Recorded, ActiveChanged
  <2>2. a \in SUBSET Steps /\ {0, 1} \subseteq a
    BY <1>1, TableAssumption DEF Window, Table, Steps
  <2>9. NoGap(a)
    BY <1>1 DEF Window, Table, NoGap, Steps
  <2> HIDE DEF a
  <2>3. p \in SUBSET Steps
    BY <2>2 DEF recalcMacroPLL
  <2>4. w.isMacroRunning = FALSE
    BY <1>1, <2>1 DEF Guarded, MacroConflicts, Window
  <2>5. /\ u \in Window /\ SameModes(u, w) /\ u.isDeviceConnected = w.isDeviceConnected
        /\ u.enabled = w.enabled /\ u.active = a /\ u.freqs = w.freqs /\ u.pll = p
    BY <1>1, <2>2, <2>3 DEF Window, SameModes
  <2>6. Table(u)
    BY <2>2, <2>5, <2>9 DEF Table
  <2> HIDE DEF u, p
  <2>7. Guarded(u) /\ Stoppable(u) /\ AtStep(u) /\ ~u.isMacroRunning
    BY <1>1, <2>4, <2>5 DEF Sound, Guarded, Stoppable, AtStep, SameModes
  <2>8. Link(u, hid) /\ Saved(u) = Saved(w)
    BY <1>1, <2>5 DEF Link, Saved, SameModes
  <2> QED
    BY <1>1, <2>1, <2>5, <2>6, <2>7, <2>8 DEF Kept, Sound
<1> QED
  BY <1>3, <1>6, <1>7, <1>8, <1>9, <1>11, <1>12, <1>13, <1>14, <1>15

(* Every step keeps Inv. *)
LEMMA NextInv == Inv /\ [Next]_vars => Inv'
<1> SUFFICES ASSUME Inv, [Next]_vars PROVE Inv'
  OBVIOUS
<1>1. CASE Next
  <2>1. TypeOK
    BY DEF Inv
  <2>2. Kept
    BY <1>1, ButtonsKeep, EditsKeep, TimersKeep DEF Next, User
  <2>3. w' \in Window
    BY <2>2 DEF Kept, Sound
  <2>4. TypeOK'
    BY <1>1, <2>1, <2>2, <2>3, CountersKept DEF TypeOK, Kept
  <2> QED
    BY <2>2, <2>4 DEF Kept, Inv
<1>2. CASE UNCHANGED vars
  BY <1>2 DEF vars, Inv, TypeOK
<1> QED
  BY <1>1, <1>2

(* Inv holds in every reachable state. *)
THEOREM Invariant == Spec => []Inv
<1> QED
  BY InitInv, NextInv, PTL DEF Spec

-----------------------------------------------------------------------------
(***************************************************************************)
(* What the device plays of the table.                                     *)
(***************************************************************************)
(* Quotient and remainder are the only ones.                               *)
LEMMA DivisionIsUnique ==
  ASSUME NEW b \in Nat \ {0}, NEW q \in Int, NEW r \in Nat, r < b
  PROVE  (b * q + r) \div b = q /\ (b * q + r) % b = r
<1> DEFINE a == b * q + r
<1>1. a \in Int /\ a \div b \in Int /\ a % b \in 0 .. b - 1 /\ a = b * (a \div b) + (a % b)
  OBVIOUS
<1>2. ASSUME NEW x \in Int, NEW y \in Int, y >= 0, y < b, b * q + r = b * x + y PROVE x = q
  <2>1. b * (q - x) = y - r BY <1>2
  <2>2. ASSUME q - x >= 1 PROVE FALSE
    <3>1. b * (q - x) >= b BY <2>2
    <3> QED BY <2>1, <3>1, <1>2
  <2>3. ASSUME q - x <= -1 PROVE FALSE
    <3>1. b * (q - x) <= -b BY <2>3
    <3> QED BY <2>1, <3>1, <1>2
  <2> QED BY <2>2, <2>3, <1>2
<1>3. a \div b = q
  <2> DEFINE x == a \div b
             y == a % b
  <2>1. x \in Int /\ y \in Int /\ y >= 0 /\ y < b /\ b * q + r = b * x + y BY <1>1
  <2> HIDE DEF x, y, a
  <2>2. x = q BY <2>1, <1>2
  <2> QED BY <2>2 DEF x
<1>4. a % b = a - b * (a \div b) BY <1>1
<1> QED BY <1>3, <1>4

(* An interval from 1 has as many members as its last.                     *)
LEMMA Interval ==
  ASSUME NEW c \in Nat
  PROVE  Cardinality(1 .. c) = c
<1>1. Cardinality(1 .. c) = IF 1 > c THEN 0 ELSE c - 1 + 1
  BY FS_Interval, SMT
<1> QED BY <1>1

(* A block whose steps are all enabled plays them all.                     *)
LEMMA AllEnabled ==
  ASSUME NEW c \in Nat, NEW e, NEW b, e = [i \in 1 .. c |-> e[i]],
         b.stepConfig = e, b.macroSteps = c, \A i \in 1 .. c : e[i].enabled
  PROVE  Enabled(b) = e
<1> DEFINE on == {i \in 1 .. b.macroSteps : b.stepConfig[i].enabled}
           nth(k) == CHOOSE i \in on : Cardinality({j \in on : j < i}) = k - 1
<1>1. on = 1 .. c OBVIOUS
<1>2. Cardinality(on) = c
  <2> HIDE DEF on
  <2>1. Cardinality(1 .. c) = c BY Interval, Zenon
  <2> QED BY <1>1, <2>1
<1> HIDE DEF on
<1>3. ASSUME NEW i \in 1 .. c PROVE Cardinality({j \in on : j < i}) = i - 1
  <2>1. {j \in on : j < i} = 1 .. (i - 1) BY <1>1
  <2>2. i - 1 \in Nat BY <1>3
  <2>3. Cardinality(1 .. (i - 1)) = i - 1 BY <2>2, Interval, Zenon
  <2> QED BY <2>1, <2>3
<1>4. ASSUME NEW k \in 1 .. c PROVE nth(k) = k
  <2>1. \A i \in on : Cardinality({j \in on : j < i}) = k - 1 <=> i = k
    <3>1. ASSUME NEW i \in on PROVE Cardinality({j \in on : j < i}) = i - 1 BY <1>1, <1>3
    <3>2. ASSUME NEW i \in on PROVE i - 1 = k - 1 <=> i = k BY <1>1, <1>4
    <3> QED BY <3>1, <3>2
  <2>2. k \in on BY <1>1, <1>4
  <2> QED BY <2>1, <2>2
<1>5. Enabled(b) = [k \in 1 .. Cardinality(on) |-> b.stepConfig[nth(k)]] BY DEF Enabled, on
<1> HIDE DEF nth
<1>6. Enabled(b) = [k \in 1 .. c |-> e[k]] BY <1>2, <1>4, <1>5
<1> QED BY <1>6

(* The last of the steps up to k that is marked, or the first              *)
LastMarked(R, k) == CHOOSE j \in 1 .. k : /\ j = 1 \/ R[j]
                                         /\ \A i \in j + 1 .. k : ~R[i]

(* Tuned again where the frequency changes, a device is at every step      *)
(* tuned to that step's frequency.                                         *)
LEMMA TunedRight ==
  ASSUME NEW N \in Nat, NEW F, NEW R, \A i \in 2 .. N : ~R[i] => F[i] = F[i - 1],
         NEW k \in 1 .. N
  PROVE  LastMarked(R, k) \in 1 .. k /\ F[LastMarked(R, k)] = F[k]
<1> DEFINE T == LastMarked(R, k)
<1> DEFINE Last(j) == (j = 1 \/ R[j]) /\ \A i \in j + 1 .. k : ~R[i]
           back == {m \in Nat : k - m \in 1 .. k /\ (k - m = 1 \/ R[k - m])}
<1>1. \E j \in 1 .. k : Last(j)
  <2>1. k - 1 \in back
    <3>1. k - 1 \in Nat /\ k - (k - 1) = 1 OBVIOUS
    <3> QED BY <3>1
  <2>2. PICK m \in back : \A p \in back : m <= p BY <2>1, LeastNumber
  <2> DEFINE j == k - m
  <2>3. j \in 1 .. k /\ (j = 1 \/ R[j]) BY <2>2
  <2>4. ASSUME NEW i \in j + 1 .. k, R[i] PROVE FALSE
    <3>1. k - i \in Nat /\ k - (k - i) = i /\ i \in 1 .. k /\ k - i < m BY <2>2, <2>3, <2>4
    <3>2. k - i \in back BY <2>4, <3>1
    <3>3. m <= k - i BY <2>2, <3>2
    <3>4. m \in Nat BY <2>2
    <3> HIDE DEF back
    <3> QED BY <3>1, <3>3, <3>4
  <2> QED BY <2>3, <2>4
<1>2. T \in 1 .. k /\ Last(T)
  <2>1. T = CHOOSE j \in 1 .. k : Last(j) BY DEF LastMarked
  <2> HIDE DEF Last
  <2> QED BY <1>1, <2>1
<1> HIDE DEF T
<1> DEFINE astray == {m \in Nat : T + m <= k /\ F[T + m] # F[T]}
<1>3. astray = {}
  <2> SUFFICES ASSUME astray # {} PROVE FALSE OBVIOUS
  <2>1. PICK m \in astray : \A p \in astray : m <= p BY LeastNumber
  <2>2. m \in Nat /\ T + m <= k /\ F[T + m] # F[T] BY <2>1
  <2>3. m # 0
    <3>1. T + 0 = T BY <1>2
    <3> QED BY <2>2, <3>1
  <2>4. m - 1 \in Nat /\ m - 1 < m /\ T + (m - 1) <= k /\ T + (m - 1) = (T + m) - 1
    BY <1>2, <2>2, <2>3
  <2>5. F[(T + m) - 1] = F[T]
    <3>1. ~(m <= m - 1) BY <2>2
    <3>2. m - 1 \notin astray BY <2>1, <3>1
    <3> QED BY <2>4, <3>2
  <2>6. T + m \in T + 1 .. k /\ T + m \in 2 .. N BY <1>2, <2>2, <2>3
  <2>7. ~R[T + m] BY <1>2, <2>6
  <2>8. F[T + m] = F[(T + m) - 1] BY <2>6, <2>7
  <2> QED BY <2>2, <2>5, <2>8
<1>4. F[k] = F[T]
  <2>1. k - T \in Nat /\ T + (k - T) = k BY <1>2
  <2>2. k - T \notin astray BY <1>3
  <2> QED BY <2>1, <2>2
<1> QED BY <1>2, <1>4 DEF T

(* The place in the macro of the k-th step that is played                  *)
Place(k, n) == ((k - 1) % n) + 1

(* Place, in the first round and in the second                             *)
LEMMA Places ==
  ASSUME NEW n \in Nat \ {0}, NEW k \in 1 .. 2 * n
  PROVE  /\ Place(k, n) = IF k <= n THEN k ELSE k - n
         /\ Place(k, n) \in 1 .. n
<1>1. CASE k <= n
  <2>1. k - 1 \in Nat /\ k - 1 < n /\ n * 0 + (k - 1) = k - 1 BY <1>1
  <2>2. (n * 0 + (k - 1)) % n = k - 1 BY <2>1, DivisionIsUnique
  <2> QED BY <1>1, <2>1, <2>2 DEF Place
<1>2. CASE k > n
  <2>1. k - 1 - n \in Nat /\ k - 1 - n < n /\ n * 1 + (k - 1 - n) = k - 1 BY <1>2
  <2>2. (n * 1 + (k - 1 - n)) % n = k - 1 - n BY <2>1, DivisionIsUnique
  <2>3. Place(k, n) = (k - 1 - n) + 1 BY <2>1, <2>2 DEF Place
  <2> QED BY <1>2, <2>1, <2>3
<1> QED BY <1>1, <1>2


(* The active steps are the first ones up to the last.                     *)
LEMMA ActiveRows ==
  ASSUME NEW v \in Window, Table(v)
  PROVE  /\ Greatest(v.active) \in 1 .. NumSteps - 1
         /\ v.active = 0 .. Greatest(v.active)
         /\ Cardinality(v.active) = Greatest(v.active) + 1
<1> DEFINE a == v.active
           m == Greatest(a)
<1>1. a \in SUBSET Steps /\ 0 \in a /\ 1 \in a /\ NoGap(a)
  BY DEF Table, Window
<1>2. m \in a /\ \A i \in a : i <= m
  BY <1>1, GreatestStep
<1>3. \A i \in Steps : i \in 0 .. NumSteps - 1
  BY DEF Steps
<1> HIDE DEF a, m
<1>4. m \in 1 .. NumSteps - 1
  BY <1>1, <1>2, <1>3, TableAssumption
<1>5. a = 0 .. m
  <2>1. ASSUME NEW i \in 0 .. m PROVE i \in a
    <3>1. i \in Steps /\ i <= m
      BY <1>4, <2>1, TableAssumption DEF Steps
    <3> QED
      BY <1>1, <1>2, <3>1 DEF NoGap
  <2>2. ASSUME NEW i \in a PROVE i \in 0 .. m
    BY <1>1, <1>2, <1>3, <1>4, <2>2
  <2> QED
    BY <2>1, <2>2
<1>6. Cardinality(a) = m + 1
  <2>1. m \in Nat /\ 0 \in Int /\ 0 <= m
    BY <1>4
  <2>2. Cardinality(0 .. m) = IF 0 > m THEN 0 ELSE m - 0 + 1
    BY <2>1, FS_Interval, SMT
  <2> QED
    BY <1>5, <2>1, <2>2
<1> QED
  BY <1>4, <1>5, <1>6 DEF a, m

(* The greatest step of an interval is its end.                            *)
LEMMA GreatestOfInterval ==
  ASSUME NEW a \in Nat, NEW b \in Nat, a <= b, b < NumSteps
  PROVE  Greatest(a .. b) = b
<1>1. a .. b \in SUBSET Steps /\ b \in a .. b
  BY TableAssumption DEF Steps
<1>2. Greatest(a .. b) \in a .. b /\ b <= Greatest(a .. b)
  BY <1>1, GreatestStep
<1> HIDE DEF Steps
<1> QED
  BY <1>2

(* The steps of the two blocks, of n active ones                           *)
Count(n, k) == IF k = 0 THEN IF n < MACRO_STEPS_PER_BLOCK THEN n ELSE MACRO_STEPS_PER_BLOCK
               ELSE IF n > MACRO_STEPS_PER_BLOCK THEN n - MACRO_STEPS_PER_BLOCK ELSE 0

LEMMA BlocksSteps ==
  ASSUME NEW v \in Window, Table(v)
  PROVE  /\ macroSteps(v, 0) = Count(Cardinality(v.active), 0)
         /\ macroSteps(v, 1) = Count(Cardinality(v.active), 1)
<1> DEFINE a == v.active
           m == Greatest(a)
           B == MACRO_STEPS_PER_BLOCK
           rows(k) == {i \in a : i \div B = k}
<1>1. m \in 1 .. NumSteps - 1 /\ a = 0 .. m /\ Cardinality(a) = m + 1
  BY ActiveRows
<1>2. B \in Nat \ {0} /\ NumSteps \in Nat /\ NumSteps <= 2 * B
  BY BlockAssumption, TableAssumption, RowsAssumption
<1>3. /\ macroSteps(v, 0) = IF rows(0) = {} THEN 0 ELSE Greatest(rows(0)) - 0 * B + 1
      /\ macroSteps(v, 1) = IF rows(1) = {} THEN 0 ELSE Greatest(rows(1)) - 1 * B + 1
  BY DEF macroSteps
<1> HIDE DEF a, m, B
<1>4. ASSUME NEW i \in 0 .. m PROVE i \div B = IF i < B THEN 0 ELSE 1
  <2>1. CASE i < B
    <3>1. i \in Nat /\ B * 0 + i = i
      BY <1>1, <1>2, <1>4
    <3>2. (B * 0 + i) \div B = 0
      BY <1>2, <2>1, <3>1, DivisionIsUnique
    <3> QED
      BY <2>1, <3>1, <3>2
  <2>2. CASE ~(i < B)
    <3>1. i - B \in Nat /\ i - B < B /\ B * 1 + (i - B) = i
      BY <1>1, <1>2, <1>4, <2>2
    <3>2. (B * 1 + (i - B)) \div B = 1
      BY <1>2, <3>1, DivisionIsUnique
    <3> QED
      BY <2>2, <3>1, <3>2
  <2> QED
    BY <2>1, <2>2
<1>5. m \in Nat /\ m < NumSteps /\ m < 2 * B
  BY <1>1, <1>2
<1>6. CASE m < B
  <2>1. rows(0) = 0 .. m /\ rows(1) = {}
    <3>1. \A i \in 0 .. m : i < B
      BY <1>2, <1>5, <1>6
    <3>2. \A i \in a : i \div B = 0
      BY <1>1, <1>4, <3>1
    <3>3. rows(0) = a
      BY <3>2
    <3>4. rows(1) = {}
      BY <3>2
    <3> QED
      BY <1>1, <3>3, <3>4
  <2>2. Greatest(0 .. m) = m
    BY <1>5, GreatestOfInterval
  <2>3. 0 \in 0 .. m
    BY <1>5
  <2> HIDE DEF rows
  <2>4. macroSteps(v, 0) = m - 0 * B + 1 /\ macroSteps(v, 1) = 0
    BY <1>3, <2>1, <2>2, <2>3
  <2>5. macroSteps(v, 0) = m + 1
    BY <1>2, <1>5, <2>4
  <2>6. Count(m + 1, 0) = (IF m + 1 < B THEN m + 1 ELSE B) /\ Count(m + 1, 1) = (IF m + 1 > B THEN m + 1 - B ELSE 0)
    BY <1>2, <1>5 DEF Count, B
  <2> QED
    BY <1>1, <1>2, <1>5, <1>6, <2>4, <2>5, <2>6 DEF a
<1>7. CASE ~(m < B)
  <2>1. \A i \in 0 .. m : i \div B = 0 <=> i < B
    BY <1>4
  <2>2. \A i \in 0 .. m : i \div B = 1 <=> ~(i < B)
    BY <1>4
  <2>3. rows(0) = {i \in 0 .. m : i < B}
    BY <1>1, <2>1
  <2>4. rows(1) = {i \in 0 .. m : ~(i < B)}
    BY <1>1, <2>2
  <2> HIDE DEF rows
  <2>5. rows(0) = 0 .. B - 1 /\ rows(1) = B .. m
    <3>1. {i \in 0 .. m : i < B} = 0 .. B - 1
      <4>1. ASSUME NEW i PROVE i \in 0 .. m /\ i < B <=> i \in 0 .. B - 1
        BY <1>2, <1>5, <1>7
      <4> QED
        BY <4>1
    <3>2. {i \in 0 .. m : ~(i < B)} = B .. m
      <4>1. ASSUME NEW i PROVE i \in 0 .. m /\ ~(i < B) <=> i \in B .. m
        BY <1>2, <1>5, <1>7
      <4> QED
        BY <4>1
    <3> QED
      BY <2>3, <2>4, <3>1, <3>2
  <2>6. /\ B - 1 \in Nat /\ 0 <= B - 1 /\ B - 1 < NumSteps
        /\ B <= m /\ B \in Nat
    BY <1>2, <1>5, <1>7
  <2>7. Greatest(0 .. B - 1) = B - 1
    BY <2>6, GreatestOfInterval
  <2>8. Greatest(B .. m) = m
    BY <1>5, <2>6, GreatestOfInterval
  <2>9. 0 \in 0 .. B - 1 /\ m \in B .. m
    BY <1>5, <2>6
  <2>10. macroSteps(v, 0) = (B - 1) - 0 * B + 1 /\ macroSteps(v, 1) = m - 1 * B + 1
    BY <1>3, <2>5, <2>7, <2>8, <2>9
  <2>11. macroSteps(v, 0) = B /\ macroSteps(v, 1) = m - B + 1
    BY <1>2, <1>5, <2>10
  <2>12. Count(m + 1, 0) = (IF m + 1 < B THEN m + 1 ELSE B) /\ Count(m + 1, 1) = (IF m + 1 > B THEN m + 1 - B ELSE 0)
    BY <1>2, <1>5 DEF Count, B
  <2> QED
    BY <1>1, <1>2, <1>5, <1>7, <2>11, <2>12 DEF a
<1> QED
  BY <1>6, <1>7

(* The fields of a packed step that matter here                            *)
LEMMA PackedFields ==
  ASSUME NEW v, NEW i
  PROVE  /\ Packed(v, i).frequency = freqFP[v.freqs[i]]
         /\ Packed(v, i).enabled <=> i \in v.active
         /\ Packed(v, i).recalc <=> i \in v.pll
<1>1. Packed(v, i).frequency = freqFP[v.freqs[i]]
  BY DEF Packed
<1>2. Packed(v, i).enabled = (i \in v.active)
  BY DEF Packed
<1>3. Packed(v, i).recalc = (i \in v.pll)
  BY DEF Packed
<1> QED
  BY <1>1, <1>2, <1>3

(* The device finds the active steps in its two blocks, in their order.    *)
LEMMA BothBlocks ==
  ASSUME NEW v \in Window, Table(v)
  PROVE  Enabled(packMacroData(v, 0)) \o Enabled(packMacroData(v, 1))
           = [i \in 1 .. Cardinality(v.active) |-> Packed(v, i - 1)]
<1> DEFINE n == Cardinality(v.active)
           B == MACRO_STEPS_PER_BLOCK
           c(k) == Count(n, k)
           e(k) == [i \in 1 .. c(k) |-> Packed(v, k * B + i - 1)]
<1>1. /\ n \in Nat \ {0} /\ n <= NumSteps /\ v.active = 0 .. n - 1
      /\ B \in Nat \ {0} /\ n <= 2 * B
  <2>1. /\ Greatest(v.active) \in 1 .. NumSteps - 1
        /\ v.active = 0 .. Greatest(v.active) /\ n = Greatest(v.active) + 1
    BY ActiveRows
  <2>2. NumSteps \in Nat /\ NumSteps <= 2 * B /\ B \in Nat \ {0}
    BY TableAssumption, RowsAssumption, BlockAssumption
  <2> HIDE DEF n, B
  <2> QED
    BY <2>1, <2>2
<1>2. c(0) \in Nat /\ c(1) \in Nat /\ c(0) + c(1) = n /\ (c(1) # 0 => c(0) = B)
  <2>1. /\ Count(n, 0) = IF n < B THEN n ELSE B
        /\ Count(n, 1) = IF n > B THEN n - B ELSE 0
    BY <1>1 DEF Count
  <2> HIDE DEF n, B
  <2> QED
    BY <1>1, <2>1
<1>3. ASSUME NEW k \in 0 .. 1
      PROVE  Enabled(packMacroData(v, k)) = e(k)
  <2> DEFINE b == packMacroData(v, k)
             q == e(k)
             m == c(k)
  <2>1. macroSteps(v, k) = m
    <3>1. k = 0 \/ k = 1
      BY <1>3
    <3> QED
      BY <3>1, BlocksSteps
  <2>2. b = [stepConfig |-> q, macroSteps |-> m]
    BY <2>1 DEF packMacroData
  <2>3. m \in Nat
    <3>1. k = 0 \/ k = 1
      BY <1>3
    <3> QED
      BY <1>2, <3>1
  <2>4. \A i \in 1 .. m : q[i].enabled
    <3>1. ASSUME NEW i \in 1 .. m PROVE k * B + i - 1 \in 0 .. n - 1
      <4>1. CASE k = 0
        <5>1. m = c(0)
          BY <4>1
        <5> HIDE DEF c, m, n, B
        <5> QED
          BY <1>1, <1>2, <3>1, <4>1, <5>1
      <4>2. CASE k = 1
        <5>1. m = c(1)
          BY <4>2
        <5> HIDE DEF c, m, n, B
        <5> QED
          BY <1>1, <1>2, <3>1, <4>2, <5>1
      <4> QED
        BY <1>3, <4>1, <4>2
    <3>2. \A i \in 1 .. m : q[i] = Packed(v, k * B + i - 1)
      OBVIOUS
    <3> HIDE DEF q, m, n, B
    <3>3. ASSUME NEW i \in 1 .. m PROVE q[i].enabled
      <4>1. k * B + i - 1 \in v.active
        BY <1>1, <3>1
      <4>2. Packed(v, k * B + i - 1).enabled
        BY <4>1, PackedFields
      <4> QED
        BY <3>2, <4>2
    <3> QED
      BY <3>3
  <2>5. q = [i \in 1 .. m |-> q[i]]
    OBVIOUS
  <2> HIDE DEF q, m, b
  <2>6. b.stepConfig = q /\ b.macroSteps = m
    BY <2>2
  <2>7. Enabled(b) = q
    BY <2>3, <2>4, <2>5, <2>6, AllEnabled
  <2> QED
    BY <2>7 DEF b, q
<1> DEFINE e0 == e(0)
           e1 == e(1)
           c0 == c(0)
           c1 == c(1)
           S == {Packed(v, i) : i \in Steps}
<1>4. e0 = [i \in 1 .. c0 |-> Packed(v, i - 1)]
  <2>1. \A i \in 1 .. c0 : 0 * B + i - 1 = i - 1
    BY <1>1, <1>2
  <2> QED
    BY <2>1
<1>5. e1 = [i \in 1 .. c1 |-> Packed(v, B + i - 1)]
  <2>1. \A i \in 1 .. c1 : 1 * B + i - 1 = B + i - 1
    BY <1>1, <1>2
  <2> QED
    BY <2>1
<1>6. Enabled(packMacroData(v, 0)) = e0 /\ Enabled(packMacroData(v, 1)) = e1
  BY <1>3
<1>7. c0 \in Nat /\ c1 \in Nat /\ c0 + c1 = n /\ (c1 # 0 => c0 = B)
  BY <1>2
<1>8. \A i \in 0 .. n - 1 : Packed(v, i) \in S
  <2>1. \A i \in 0 .. n - 1 : i \in Steps
    BY <1>1, TableAssumption DEF Steps
  <2> QED
    BY <2>1
<1> HIDE DEF e0, e1, c0, c1, n, B, S
<1>9. Len(e0) = c0 /\ Len(e1) = c1
  BY <1>4, <1>5, <1>7
<1>10. /\ \A i \in 1 .. c0 : i - 1 \in 0 .. n - 1
       /\ \A i \in 1 .. c1 : B + i - 1 \in 0 .. n - 1
  BY <1>1, <1>7
<1>11. e0 \in Seq(S) /\ e1 \in Seq(S)
  BY <1>4, <1>5, <1>7, <1>8, <1>10
<1>12. e0 \o e1 = [i \in 1 .. n |-> IF i <= c0 THEN e0[i] ELSE e1[i - c0]]
  <2> DEFINE s == e0 \o e1
  <2>1. /\ s \in Seq(S)
        /\ Len(s) = Len(e0) + Len(e1)
        /\ \A i \in 1 .. Len(e0) + Len(e1) : s[i] = IF i <= Len(e0) THEN e0[i] ELSE e1[i - Len(e0)]
    BY <1>11, ConcatProperties, Zenon
  <2> HIDE DEF s
  <2>2. /\ s \in Seq(S) /\ Len(s) = n
        /\ \A i \in 1 .. n : s[i] = IF i <= c0 THEN e0[i] ELSE e1[i - c0]
    BY <1>7, <1>9, <2>1
  <2>3. s = [i \in 1 .. n |-> s[i]]
    BY <2>2
  <2> QED
    BY <2>2, <2>3 DEF s
<1>13. ASSUME NEW i \in 1 .. n
       PROVE  (IF i <= c0 THEN e0[i] ELSE e1[i - c0]) = Packed(v, i - 1)
  <2>1. CASE i <= c0
    <3>1. i \in 1 .. c0
      BY <1>7, <2>1
    <3> QED
      BY <1>4, <2>1, <3>1
  <2>2. CASE ~(i <= c0)
    <3>1. i - c0 \in 1 .. c1 /\ c0 = B
      BY <1>1, <1>7, <1>13, <2>2
    <3>2. B + (i - c0) - 1 = i - 1
      BY <1>1, <1>7, <1>13, <3>1
    <3>3. e1[i - c0] = Packed(v, B + (i - c0) - 1)
      BY <1>5, <3>1
    <3> QED
      BY <2>2, <3>2, <3>3
  <2> QED
    BY <2>1, <2>2
<1>14. e0 \o e1 = [i \in 1 .. n |-> Packed(v, i - 1)]
  BY <1>12, <1>13
<1> QED
  BY <1>6, <1>14 DEF n

(* The step before the one at the k-th place of what is played is at the   *)
(* place before.                                                           *)
LEMMA PlaceBefore ==
  ASSUME NEW n \in Nat \ {0}, n <= NumSteps, NEW k \in 2 .. 2 * n
  PROVE  Before(0 .. n - 1, Place(k, n) - 1) = Place(k - 1, n) - 1
<1> DEFINE a == 0 .. n - 1
           i == Place(k, n) - 1
           earlier == {j \in a : j < i}
<1>1. NumSteps \in Nat /\ Greatest(a) = n - 1
  <2>1. 0 \in Nat /\ n - 1 \in Nat /\ 0 <= n - 1 /\ n - 1 < NumSteps /\ NumSteps \in Nat
    BY TableAssumption
  <2> QED
    BY <2>1, GreatestOfInterval
<1>2. k \in 1 .. 2 * n /\ k - 1 \in 1 .. 2 * n
  BY <1>1
<1>3. /\ i = (IF k <= n THEN k ELSE k - n) - 1 /\ i \in 0 .. n - 1
      /\ Place(k - 1, n) = IF k - 1 <= n THEN k - 1 ELSE k - 1 - n
  <2>1. /\ Place(k, n) = (IF k <= n THEN k ELSE k - n) /\ Place(k, n) \in 1 .. n
        /\ Place(k - 1, n) = IF k - 1 <= n THEN k - 1 ELSE k - 1 - n
    BY <1>1, <1>2, Places
  <2> QED
    BY <1>1, <2>1
<1>4. Before(a, i) = Greatest(IF earlier = {} THEN a ELSE earlier)
  BY DEF Before
<1> HIDE DEF i
<1>5. CASE i = 0
  <2>1. earlier = {}
    BY <1>1, <1>5
  <2>2. k = n + 1
    BY <1>1, <1>3, <1>5
  <2>3. Place(k - 1, n) = n
    BY <1>1, <1>3, <2>2
  <2> QED
    BY <1>1, <1>4, <2>1, <2>3 DEF i
<1>6. CASE i # 0
  <2>1. earlier = 0 .. i - 1
    BY <1>1, <1>3
  <2>2. 0 \in Nat /\ i - 1 \in Nat /\ 0 <= i - 1 /\ i - 1 < NumSteps
    BY <1>1, <1>3, <1>6
  <2>3. Greatest(0 .. i - 1) = i - 1 /\ 0 \in 0 .. i - 1
    BY <2>2, GreatestOfInterval
  <2>4. Place(k - 1, n) - 1 = i - 1
    BY <1>1, <1>2, <1>3, <1>6
  <2> QED
    BY <1>4, <2>1, <2>3, <2>4 DEF i
<1> QED
  BY <1>5, <1>6

(* The rows in the order in which the window shows them.                   *)
LEMMA ShownRows ==
  ASSUME w \in Window, Table(w)
  PROVE  LET n == Cardinality(w.active) IN Shown = [k \in 1 .. 2 * n |-> Place(k, n) - 1]
<1> DEFINE n == Cardinality(w.active)
           before(i) == {j \in w.active : j < i}
           row(k) == CHOOSE i \in w.active : Cardinality(before(i)) = (k - 1) % n
<1>1. n \in Nat \ {0} /\ n <= NumSteps /\ w.active = 0 .. n - 1
  <2>1. /\ Greatest(w.active) \in 1 .. NumSteps - 1
        /\ w.active = 0 .. Greatest(w.active) /\ n = Greatest(w.active) + 1
    BY ActiveRows
  <2> HIDE DEF n
  <2> QED
    BY <2>1, TableAssumption
<1>2. Shown = [k \in 1 .. 2 * n |-> row(k)]
  BY DEF Shown
<1> HIDE DEF n
<1>3. ASSUME NEW i \in w.active PROVE Cardinality(before(i)) = i
  <2>1. i \in Nat /\ i < n
    BY <1>1, <1>3
  <2>2. before(i) = 0 .. i - 1
    BY <1>1, <2>1
  <2>3. Cardinality(0 .. i - 1) = IF 0 > i - 1 THEN 0 ELSE i - 1 - 0 + 1
    BY <2>1, FS_Interval, SMT
  <2> HIDE DEF before
  <2> QED
    BY <2>1, <2>2, <2>3
<1>4. ASSUME NEW k \in 1 .. 2 * n PROVE row(k) = Place(k, n) - 1
  <2>1. Place(k, n) \in 1 .. n
    BY <1>1, <1>4, Places
  <2>2. (k - 1) % n = Place(k, n) - 1
    <3>1. (k - 1) % n \in Int
      BY <1>1, <1>4
    <3> QED
      BY <3>1 DEF Place
  <2>3. Place(k, n) - 1 \in w.active
    BY <1>1, <2>1
  <2> HIDE DEF before
  <2>4. \A i \in w.active : Cardinality(before(i)) = (k - 1) % n <=> i = Place(k, n) - 1
    BY <1>3, <2>2
  <2> QED
    BY <2>3, <2>4
<1> HIDE DEF row
<1> QED
  BY <1>2, <1>4 DEF n

(* The macro that was programmed is tuned right at every row.              *)
LEMMA Tuning ==
  ASSUME w \in Window, Table(w)
  PROVE  FlashMacroIsTuned
<1> DEFINE n == Cardinality(w.active)
           all == [i \in 1 .. n |-> Packed(w, i - 1)]
           at(k) == Place(k, n)
           tuned(k) == CHOOSE j \in 1 .. k : /\ j = 1 \/ all[at(j)].recalc
                                             /\ \A i \in j + 1 .. k : ~all[at(i)].recalc
           F == [k \in 1 .. 2 * n |-> freqFP[w.freqs[at(k) - 1]]]
           R == [k \in 1 .. 2 * n |-> at(k) - 1 \in w.pll]
           N == 2 * n
<1>1. n \in Nat \ {0} /\ n <= NumSteps /\ w.active = 0 .. n - 1
  <2>1. /\ Greatest(w.active) \in 1 .. NumSteps - 1
        /\ w.active = 0 .. Greatest(w.active) /\ n = Greatest(w.active) + 1
    BY ActiveRows
  <2> HIDE DEF n
  <2> QED
    BY <2>1, TableAssumption
<1>2. Enabled(packMacroData(w, 0)) \o Enabled(packMacroData(w, 1)) = all
  BY BothBlocks
<1>3. Len(all) = n
  BY <1>1
<1>4. Len(Plays) = N /\ \A k \in 1 .. N : Plays[k].frequency = all[at(tuned(k))].frequency
  <2>1. Plays =
          LET q == Enabled(packMacroData(w, 0)) \o Enabled(packMacroData(w, 1))
              step(k) == q[((k - 1) % Len(q)) + 1]
              tune(k) == CHOOSE j \in 1 .. k :
                            /\ j = 1 \/ step(j).recalc
                            /\ \A i \in j + 1 .. k : ~step(i).recalc
          IN [k \in 1 .. 2 * Len(q) |->
                [frequency |-> step(tune(k)).frequency, step_ms |-> step(k).step_ms,
                 on |-> step(k).rf = STEP_FLAG_RF_ON]]
    BY Zenon DEF Plays, Played
  <2> HIDE DEF all
  <2>2. Plays =
          LET step(k) == all[((k - 1) % n) + 1]
              tune(k) == CHOOSE j \in 1 .. k :
                            /\ j = 1 \/ step(j).recalc
                            /\ \A i \in j + 1 .. k : ~step(i).recalc
          IN [k \in 1 .. 2 * n |->
                [frequency |-> step(tune(k)).frequency, step_ms |-> step(k).step_ms,
                 on |-> step(k).rf = STEP_FLAG_RF_ON]]
    BY <1>2, <1>3, <2>1, Zenon
  <2>3. Plays = [k \in 1 .. N |->
                   [frequency |-> all[at(tuned(k))].frequency, step_ms |-> all[at(k)].step_ms,
                    on |-> all[at(k)].rf = STEP_FLAG_RF_ON]]
    BY <2>2, Zenon DEF Place
  <2> HIDE DEF n, at, tuned
  <2> QED
    BY <1>1, <2>3
<1>5. \A i \in 1 .. n : (all[i].recalc <=> i - 1 \in w.pll) /\ all[i].frequency = freqFP[w.freqs[i - 1]]
  <2>1. \A i \in 1 .. n : all[i] = Packed(w, i - 1)
    OBVIOUS
  <2> HIDE DEF all, n
  <2> QED
    BY <2>1, PackedFields
<1>6. \A k \in 1 .. N : at(k) \in 1 .. n
  BY <1>1, Places, Zenon
<1>7. /\ \A k \in 1 .. N : F[k] = freqFP[w.freqs[at(k) - 1]]
      /\ \A k \in 1 .. N : R[k] <=> at(k) - 1 \in w.pll
  OBVIOUS
<1> HIDE DEF all, F, R
<1>8. \A i \in 2 .. N : ~R[i] => F[i] = F[i - 1]
  <2> SUFFICES ASSUME NEW i \in 2 .. N, ~R[i] PROVE F[i] = F[i - 1]
    BY Zenon
  <2>1. i \in 1 .. N /\ i - 1 \in 1 .. N
    <3> HIDE DEF n
    <3> QED
      BY <1>1
  <2>2. at(i) - 1 \notin w.pll /\ at(i) - 1 \in w.active
    <3>1. at(i) \in 1 .. n
      BY <1>6, <2>1, Zenon
    <3> HIDE DEF n, at
    <3> QED
      BY <1>1, <1>7, <2>1, <3>1
  <2>3. w.freqs[Before(w.active, at(i) - 1)] = w.freqs[at(i) - 1]
    BY <2>2, UnflaggedStep, Zenon
  <2>4. Before(w.active, at(i) - 1) = at(i - 1) - 1
    BY <1>1, PlaceBefore, Zenon
  <2> QED
    BY <1>7, <2>1, <2>3, <2>4, Zenon
<1>9. ASSUME NEW k \in 1 .. N PROVE tuned(k) \in 1 .. N /\ F[tuned(k)] = F[k]
  <2>1. \A j \in 1 .. k : j \in 1 .. N /\ \A i \in j + 1 .. k : i \in 1 .. N
    <3> HIDE DEF n
    <3> QED
      BY <1>1, <1>9
  <2> DEFINE Flagged(j) == /\ j = 1 \/ all[at(j)].recalc
                           /\ \A i \in j + 1 .. k : ~all[at(i)].recalc
             Marked(j)  == /\ j = 1 \/ R[j]
                           /\ \A i \in j + 1 .. k : ~R[i]
  <2>2. \A j \in 1 .. N : all[at(j)].recalc <=> R[j]
    BY <1>5, <1>6, <1>7, Zenon
  <2>3. \A j \in 1 .. k : Flagged(j) <=> Marked(j)
    BY <2>1, <2>2, Zenon
  <2>4. tuned(k) = CHOOSE j \in 1 .. k : Flagged(j)
    BY Zenon
  <2>5. tuned(k) = LastMarked(R, k)
    <3> HIDE DEF Flagged, Marked, tuned
    <3>1. (CHOOSE j \in 1 .. k : Flagged(j)) = (CHOOSE j \in 1 .. k : Marked(j))
      BY <2>3, SMT
    <3> QED
      BY <2>4, <3>1, Zenon DEF LastMarked, Marked
  <2> HIDE DEF tuned, Flagged, Marked
  <2>6. N \in Nat
    <3> HIDE DEF n
    <3> QED
      BY <1>1
  <2>7. LastMarked(R, k) \in 1 .. k /\ F[LastMarked(R, k)] = F[k]
    <3> HIDE DEF N
    <3> QED
      BY ONLY <1>8, <1>9, <2>6, TunedRight, Zenon
  <2> QED
    BY <2>1, <2>5, <2>7, Zenon
<1>10. Shown = [k \in 1 .. N |-> at(k) - 1]
  BY ShownRows
<1>11. Len(Shown) = N
  <2> HIDE DEF n, at
  <2> QED
    BY <1>1, <1>10
<1>12. ASSUME NEW k \in 1 .. N PROVE Plays[k].frequency = freqFP[w.freqs[Shown[k]]]
  <2>1. Plays[k].frequency = all[at(tuned(k))].frequency
    BY <1>4, Zenon
  <2>2. tuned(k) \in 1 .. N /\ F[tuned(k)] = F[k]
    BY <1>9, Zenon
  <2> HIDE DEF tuned
  <2>3. all[at(tuned(k))].frequency = F[tuned(k)]
    BY <1>5, <1>6, <1>7, <2>2, Zenon
  <2>4. Shown[k] = at(k) - 1
    <3> HIDE DEF n, at
    <3> QED
      BY <1>10
  <2> QED
    BY <1>7, <2>1, <2>2, <2>3, <2>4, Zenon
<1> HIDE DEF N
<1> QED
  BY <1>4, <1>11, <1>12, Zenon DEF FlashMacroIsTuned

-----------------------------------------------------------------------------
(***************************************************************************)
(* The properties.                                                         *)
(***************************************************************************)
(* Every value stays in its type: the frequencies in the range of the spin *)
(* boxes, whatever the sweep adds up to, and the step of the macro in the  *)
(* table.                                                                  *)
THEOREM TypesKept == Spec => []TypeOK
<1>1. Inv => TypeOK
  BY DEF Inv
<1> QED
  BY <1>1, Invariant, PTL

(* While a macro runs all ten controls that macro_start disables stay so,  *)
(* whatever update_gui is told meanwhile (usbioboard.cpp:1657-1725); in a  *)
(* sweep that is sure of automatic transmission and "Write" alone; and     *)
(* never do both run.                                                      *)
THEOREM Conflicts == Spec => []ConflictsDisabled
<1>1. Inv => ConflictsDisabled
  BY DEF Inv, Sound, Guarded, ConflictsDisabled
<1> QED
  BY <1>1, Invariant, PTL

(* What runs can be stopped by its button, as long as there is a device.   *)
THEOREM StopOffered == Spec => []StopIsOffered
<1>1. Inv => StopIsOffered
  BY DEF Inv, Sound, Guarded, Stoppable, StopIsOffered
<1> QED
  BY <1>1, Invariant, PTL

(* A sweep and a macro leave automatic transmission as the user chose it,  *)
(* also when one takes over from the other or the device is lost.          *)
THEOREM ChoiceKept == Spec => []ChoiceRestored
<1>1. Inv => ChoiceRestored
  BY DEF Inv, Saved, ChoiceRestored
<1> QED
  BY <1>1, Invariant, PTL

(* HID_PnP has the registers and the output state of the macro's step,     *)
(* though only the steps that change the frequency send registers.         *)
THEOREM StepIsSent == Spec => []MacroStepIsSent
<1>1. Inv => MacroStepIsSent
  BY DEF Inv, Sound, AtStep, StepSent, MacroStepIsSent
<1> QED
  BY <1>1, Invariant, PTL

(* Programmed at any moment, a macro visits the active rows in their order *)
(* and the device is tuned to the frequency of each, in every round: the   *)
(* recalculation flags, made for a macro that the window runs, are right   *)
(* also where the device plays two blocks (usbioboard.cpp:482 and 542).    *)
THEOREM FlashTuned == Spec => []FlashMacroIsTuned
<1>1. Inv => FlashMacroIsTuned
  BY Tuning DEF Inv, Sound
<1> QED
  BY <1>1, Invariant, PTL
=============================================================================
