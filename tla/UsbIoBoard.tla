----------------------------- MODULE UsbIoBoard -----------------------------
(***************************************************************************)
(* The desktop application's window, USBIOBoard: the sweep and the macro   *)
(* it runs by its timers, automatic transmission, and which controls can   *)
(* be operated when.  The slots run one at a time, each to its end, but    *)
(* they call each other: a handler is an operator from a window to a       *)
(* window, and composes.                                                   *)
(*                                                                         *)
(* HID_PnP is seen through the slots it offers, change_reg, change_RF_CTRL *)
(* and set_RF_state, and through its signal to update_gui, which the last  *)
(* two emit before they return: update_gui runs inside the handler that    *)
(* called them.  HidPnp has the selection of a device and the requests     *)
(* that wait for a poll.                                                   *)
(*                                                                         *)
(* A frequency is a number up to MaxFreq, the largest the spin boxes take; *)
(* the other parameters of the synthesiser only cause a recalculation.     *)
(* Texts, icons, colours and the elapsed-time display are left out.        *)
(*                                                                         *)
(* A definition named for a mistake (KeepsForced, ComparesClamped, ...) is *)
(* what the code next to it must not be; no specification uses it.         *)
(***************************************************************************)
EXTENDS Integers, FiniteSets

CONSTANTS
  NumSteps,    \* rows of the macro table: MACRO_MAX_STEPS, 14 in the code
  MaxFreq,     \* largest frequency: 4400 MHz in the code
  Sweeps,      \* sweep settings the user chooses from
  Majors,      \* major versions of the devices' firmware
  MaxClicks,   \* bound: user actions
  MaxPlugs     \* bound: devices opened and lost

Steps == 0 .. NumSteps - 1
Freqs == 1 .. MaxFreq

ASSUME TableAssumption == NumSteps \in Nat /\ NumSteps >= 2
ASSUME FreqAssumption == MaxFreq \in Nat \ {0}
ASSUME SweepsAssumption ==     \* getDataFromUI bounds the end and the step so
  Sweeps \subseteq {s \in [start : Freqs, end : Freqs, step : 0 .. MaxFreq] :
                      s.start <= s.end /\ s.step <= s.end - s.start}
ASSUME MajorsAssumption == Majors \subseteq Nat \ {0}
ASSUME LimitsAssumption == MaxClicks \in Nat /\ MaxPlugs \in Nat

(* Of the controls: "active" are the macro table's check boxes.            *)
NeedDevice == {"USBTX", "RF_CTRL", "sweep_start", "sweep_stop", "program_flash",
               "erase_flash", "identify", "macroStart", "macroProgram"}
Controls == NeedDevice \cup {"macroStop", "autotx", "active"}

VARIABLES
  w,            \* the members and widgets of USBIOBoard
  hid,          \* what HID_PnP tells update_gui, in ui_data
  firmware,     \* major version of the device that is open
  clicks, plugs,
  \* history variables
  chosen,       \* automatic transmission as the user set it last
  odd,          \* since then, sweep_start was clicked in a sweep or sweep_stop in none
  edited        \* the user changed a frequency or the output since the macro's start

vars == <<w, hid, firmware, clicks, plugs, chosen, odd, edited>>

(* basic and freq are the frequency's two spin boxes, adf is               *)
(* adf4351->frequency, sent the frequency of the registers change_reg was  *)
(* given last, rf the output state HID_PnP was asked for last.             *)
Window ==
  [isDeviceConnected : BOOLEAN, deviceFirmwareMajor : Majors \cup {0},
   enabled : SUBSET Controls, enable_auto_tx : BOOLEAN,
   before_sweep : BOOLEAN, before_macro : BOOLEAN,
   sweep : Sweeps, sweeping : BOOLEAN,
   isMacroRunning : BOOLEAN, macroFirstIteration : BOOLEAN, currentMacroStep : 0 .. NumSteps,
   active : SUBSET Steps, freqs : [Steps -> Freqs], rfs : [Steps -> BOOLEAN],
   pll : SUBSET Steps,
   basic : Freqs, freq : Freqs, adf : Freqs, sent : Freqs, rf : BOOLEAN]
(* pending: the version is to be read; done: a change of device is made.   *)
UIData == [isConnected : BOOLEAN, pending : BOOLEAN, major : Majors \cup {0}, done : BOOLEAN]

(* The constructor; the settings of the sweep are any the user may make    *)
(* before a device is there.  macroFirstIteration is not initialised.      *)
Init ==
  /\ \E s \in Sweeps, first \in BOOLEAN :
       w = [isDeviceConnected |-> FALSE, deviceFirmwareMajor |-> 0,
            enabled |-> {"autotx", "active"}, enable_auto_tx |-> TRUE,
            before_sweep |-> FALSE, before_macro |-> FALSE,
            sweep |-> s, sweeping |-> FALSE,
            isMacroRunning |-> FALSE, macroFirstIteration |-> first, currentMacroStep |-> 0,
            active |-> {0, 1}, freqs |-> [i \in Steps |-> 1], rfs |-> [i \in Steps |-> TRUE],
            pll |-> {},
            basic |-> 1, freq |-> 1, adf |-> 1, sent |-> 1, rf |-> FALSE]
  /\ hid = [isConnected |-> FALSE, pending |-> TRUE, major |-> 0, done |-> FALSE]
  /\ firmware = 0
  /\ clicks = 0 /\ plugs = 0
  /\ chosen = TRUE /\ odd = FALSE /\ edited = FALSE

Only(c, b) == IF b THEN {c} ELSE {}    \* the control c if b

-----------------------------------------------------------------------------
(***************************************************************************)
(* Registers.                                                              *)
(***************************************************************************)
(* signal_update_reg, with the registers on display                        *)
Sent(v) == [v EXCEPT !.sent = v.adf]
(* singal_recalculate: BuildRegisters, display_reg and, with automatic     *)
(* transmission, update_reg                                                *)
Rebuilt(v) == IF v.enable_auto_tx THEN Sent(v) ELSE v
(* recalculate(): the spin box of the tab in front counts                  *)
Recalculated(v, front) ==
  LET f == IF front = "control" THEN v.basic ELSE v.freq
  IN Rebuilt([v EXCEPT !.basic = f, !.freq = f, !.adf = f])

-----------------------------------------------------------------------------
(***************************************************************************)
(* The macro table.                                                        *)
(***************************************************************************)
Least(S)    == CHOOSE i \in S : \A j \in S : i <= j
Greatest(S) == CHOOSE i \in S : \A j \in S : j <= i

(* recalcMacroPLL: the steps whose frequency differs from the step before, *)
(* the last one's before the first.                                        *)
ForgetsWrap(active, freqs) ==
  {i \in active : \E j \in active : j < i /\ freqs[j] # freqs[i]
                     /\ \A k \in active : k < i => k <= j}
Before(active, i) ==
  LET earlier == {j \in active : j < i}
  IN Greatest(IF earlier = {} THEN active ELSE earlier)
recalcMacroPLL(active, freqs) ==
  IF Cardinality(active) <= 1 THEN active
  ELSE {i \in active : freqs[Before(active, i)] # freqs[i]}

(* macro_active_changed: steps are active without a gap.                   *)
ActiveChanged(v, i) ==
  LET a == IF i \in v.active THEN {j \in v.active : j < i}
                             ELSE v.active \cup {j \in Steps : j <= i}
  IN [v EXCEPT !.active = a, !.pll = recalcMacroPLL(a, v.freqs)]

getMacroTotalRange(v) == IF v.active = {} THEN 0 ELSE Greatest(v.active) + 1

-----------------------------------------------------------------------------
(***************************************************************************)
(* Stopping, which every other handler may do.                             *)
(***************************************************************************)
(* "Program Macro to Flash", for the devices that have it                  *)
Programs(v) == Only("macroProgram", v.deviceFirmwareMajor >= 2)

(* What both stops give back; saved is automatic transmission as it was.   *)
KeepsForced(v, saved) ==
  [v EXCEPT !.enabled = (@ \ {"USBTX", "macroProgram"})
                          \cup {"autotx", "sweep_start", "erase_flash", "macroStart"}
                          \cup Only("USBTX", ~saved) \cup Programs(v)]
Released(v, saved) ==
  [v EXCEPT !.enable_auto_tx = saved,
            !.enabled = (@ \ {"USBTX", "macroProgram"})
                          \cup {"autotx", "sweep_start", "erase_flash", "macroStart"}
                          \cup Only("USBTX", ~saved) \cup Programs(v)]
sweep_stop(v) == [Released(v, v.before_sweep) EXCEPT !.sweeping = FALSE]
macro_stop(v) ==
  [Released(v, v.before_macro) EXCEPT
     !.isMacroRunning = FALSE,
     !.enabled = (@ \ {"macroStop"}) \cup {"sweep_stop", "RF_CTRL", "active"}]

-----------------------------------------------------------------------------
(***************************************************************************)
(* update_gui(h.isConnected, h)                                            *)
(***************************************************************************)
(* "unless sweep/macro overrides"                                          *)
ForgetsMacro(v) == ~v.sweeping
NothingRuns(v) == ~v.sweeping /\ ~v.isMacroRunning

ShowsVersion(v) ==
  [v EXCEPT !.enabled =
     IF NothingRuns(v)
       THEN (@ \ {"macroProgram", "USBTX"})
              \cup {"program_flash", "macroStart", "RF_CTRL", "sweep_start", "sweep_stop",
                    "erase_flash", "identify"}
              \cup Only("USBTX", ~v.enable_auto_tx) \cup Programs(v)
     ELSE IF v.sweeping THEN @ \ {"program_flash", "macroProgram", "macroStart"}
     ELSE @ \ ({"program_flash"} \cup ({"macroProgram"} \ Programs(v)))]

OnlyOnce(v) ==
  IF v.deviceFirmwareMajor = 0 THEN v
  ELSE [v EXCEPT !.enabled = @ \ NeedDevice, !.deviceFirmwareMajor = 0]
Unavailable(v) == [v EXCEPT !.enabled = @ \ NeedDevice, !.deviceFirmwareMajor = 0]
ShowsLoss(v) ==
  LET d == Unavailable(IF v.sweeping THEN sweep_stop(v) ELSE v)
  IN IF d.isMacroRunning THEN macro_stop(d) ELSE d

update_gui(v, h) ==
  LET c == [v EXCEPT !.isDeviceConnected = h.isConnected]
      s == IF ~h.isConnected THEN ShowsLoss(c)
           ELSE IF h.pending THEN c
           ELSE ShowsVersion([c EXCEPT !.deviceFirmwareMajor = h.major])
  IN IF h.done THEN Rebuilt(s) ELSE s
(* what update_gui leaves in ui_data                                       *)
Told(h) == [h EXCEPT !.pending = @ \/ ~h.isConnected, !.done = FALSE]

(* signal_set_RF_state and signal_update_RF_CTRL                           *)
SetRF(v, on, h) == update_gui([v EXCEPT !.rf = on], h)

-----------------------------------------------------------------------------
(***************************************************************************)
(* Sweep and macro.                                                        *)
(***************************************************************************)
(* executeMacroStep, at step i or the first active one after it; loop is   *)
(* the box "Loop".  The end of the table is NumSteps.                      *)
SkipsTheLast(v, i, loop) ==
  IF i < getMacroTotalRange(v) - 1 THEN Least({j \in v.active : i <= j})
  ELSE IF loop THEN Least(v.active) ELSE NumSteps
StepAt(v, i, loop) ==
  IF i < getMacroTotalRange(v) THEN Least({j \in v.active : i <= j})
  ELSE IF loop THEN Least(v.active) ELSE NumSteps
executeMacroStep(v, i, loop, h) ==
  LET j == StepAt(v, i, loop)
      f == v.freqs[j]
      s == [SetRF([v EXCEPT !.currentMacroStep = j], v.rfs[j], h)
              EXCEPT !.macroFirstIteration = FALSE]
  IN IF j = NumSteps THEN macro_stop([v EXCEPT !.currentMacroStep = i])
     ELSE IF j \in v.pll \/ v.macroFirstIteration
       THEN Rebuilt([s EXCEPT !.basic = f, !.freq = f, !.adf = f])
     ELSE s

MacroConflicts == {"autotx", "macroStart", "macroProgram", "active", "USBTX", "RF_CTRL",
                   "sweep_start", "sweep_stop", "program_flash", "erase_flash"}
macro_start(v, loop, h) ==
  LET s == IF v.sweeping THEN sweep_stop(v) ELSE v
  IN IF getMacroTotalRange(v) < 2 \/ ~v.isDeviceConnected THEN v
     ELSE executeMacroStep(
       [s EXCEPT !.before_macro = s.enable_auto_tx, !.enable_auto_tx = TRUE,
                 !.isMacroRunning = TRUE, !.macroFirstIteration = TRUE,
                 !.enabled = (@ \ MacroConflicts) \cup {"macroStop"}], 0, loop, h)

DisablesStop == {"autotx", "USBTX", "program_flash", "erase_flash", "macroStart",
                 "macroProgram", "sweep_stop"}
SweepConflicts == {"autotx", "USBTX", "program_flash", "erase_flash", "macroStart",
                   "macroProgram"}
(* The timer starts last: update_gui runs, by SetRF, before the sweep.     *)
sweep_start(v, h) ==
  LET s == IF v.isMacroRunning THEN macro_stop(v) ELSE v
      f == [s EXCEPT !.before_sweep = s.enable_auto_tx, !.enable_auto_tx = TRUE,
                     !.basic = s.sweep.start, !.enabled = @ \ SweepConflicts]
  IN [SetRF(f, TRUE, h) EXCEPT !.sweeping = TRUE]

(* sweep_timer_timeout.  The spin box does not take more than MaxFreq.     *)
Clamped(f) == IF f > MaxFreq THEN MaxFreq ELSE f
TakesTheSum(v, f) == [v EXCEPT !.basic = Clamped(f), !.adf = f]
Tuned(v, f)       == [v EXCEPT !.basic = Clamped(f), !.adf = Clamped(f)]
PastItsEndShown(v, f) == Clamped(f) > v.sweep.end
PastItsEnd(v, f)      == f > v.sweep.end
sweep_timeout(v, loop) ==
  LET f == v.basic + v.sweep.step
      s == Tuned(v, f)
  IN Rebuilt(IF ~PastItsEnd(v, f) THEN s
             ELSE IF loop THEN [s EXCEPT !.basic = v.sweep.start]
             ELSE sweep_stop(s))

-----------------------------------------------------------------------------
(***************************************************************************)
(* The user.                                                               *)
(***************************************************************************)
Acts(v) == clicks < MaxClicks /\ clicks' = clicks + 1 /\ w' = v /\ UNCHANGED <<firmware, plugs>>
Clicks(control, v) == control \in w.enabled /\ Acts(v)
Recorded == UNCHANGED <<chosen, odd, edited>>

SweepStart ==
  /\ Clicks("sweep_start", sweep_start(w, hid)) /\ hid' = Told(hid)
  /\ odd' = (odd \/ w.sweeping)
  /\ UNCHANGED <<chosen, edited>>
SweepStop ==
  /\ Clicks("sweep_stop", sweep_stop(w))
  /\ odd' = (odd \/ ~w.sweeping)
  /\ UNCHANGED <<hid, chosen, edited>>
MacroStart ==      \* with a device, update_gui leaves hid as it is
  /\ \E loop \in BOOLEAN : Clicks("macroStart", macro_start(w, loop, hid))
  /\ edited' = FALSE
  /\ UNCHANGED <<hid, chosen, odd>>
MacroStop == Clicks("macroStop", macro_stop(w)) /\ Recorded /\ UNCHANGED hid

autotx_clicked ==
  /\ Clicks("autotx", [w EXCEPT !.enable_auto_tx = ~@,
                         !.enabled = (@ \ {"USBTX"}) \cup Only("USBTX", w.enable_auto_tx)])
  /\ chosen' = ~w.enable_auto_tx /\ odd' = FALSE
  /\ UNCHANGED <<hid, edited>>

update_reg == Clicks("USBTX", Sent(w)) /\ Recorded /\ UNCHANGED hid
program_flash_click == Clicks("program_flash", Sent(Rebuilt(w))) /\ Recorded /\ UNCHANGED hid

(* The button; the diagram's link, which asks for a device only.  The      *)
(* state that changes over is the one the device reported last.            *)
update_RF_CTRL ==
  /\ \E on \in BOOLEAN :
       \/ Clicks("RF_CTRL", SetRF(w, on, hid))
       \/ w.isDeviceConnected /\ Acts(SetRF(w, on, hid))
  /\ hid' = Told(hid) /\ edited' = TRUE
  /\ UNCHANGED <<chosen, odd>>

(* A value in a spin box, on one tab or the other; any other parameter.    *)
ChangeFrequency(f) ==
  /\ \/ f # w.basic /\ Acts(Recalculated([w EXCEPT !.basic = f], "control"))
     \/ f # w.freq /\ Acts(Recalculated([w EXCEPT !.freq = f], "advance"))
  /\ edited' = TRUE
  /\ UNCHANGED <<hid, chosen, odd>>
ChangeSweep(s) ==
  LET v == [w EXCEPT !.sweep = s]
      ends == s.start # w.sweep.start \/ s.end # w.sweep.end
  IN s # w.sweep /\ Acts(IF ends THEN Recalculated(v, "control") ELSE v)
       /\ Recorded /\ UNCHANGED hid
recalculate ==
  (\E front \in {"control", "advance"} : Acts(Recalculated(w, front))) /\ Recorded /\ UNCHANGED hid
autoStartonBoot_clicked == Acts(Rebuilt(w)) /\ Recorded /\ UNCHANGED hid

ChangeStep(i, f, rf) ==
  /\ i \in w.active /\ (f # w.freqs[i] \/ rf # w.rfs[i])
  /\ LET fs == [w.freqs EXCEPT ![i] = f]
     IN Acts([w EXCEPT !.freqs = fs, !.rfs[i] = rf,
                       !.pll = IF fs = w.freqs THEN @ ELSE recalcMacroPLL(w.active, fs)])
  /\ edited' = TRUE
  /\ UNCHANGED <<hid, chosen, odd>>
macro_active_changed(i) == Clicks("active", ActiveChanged(w, i)) /\ Recorded /\ UNCHANGED hid

User ==
  \/ SweepStart \/ SweepStop \/ MacroStart \/ MacroStop
  \/ autotx_clicked \/ update_reg \/ program_flash_click \/ update_RF_CTRL
  \/ \E f \in Freqs : ChangeFrequency(f)
  \/ \E s \in Sweeps : ChangeSweep(s)
  \/ recalculate \/ autoStartonBoot_clicked
  \/ \E i \in Steps, f \in Freqs, rf \in BOOLEAN : ChangeStep(i, f, rf)
  \/ \E i \in Steps \ {0, 1} : macro_active_changed(i)

-----------------------------------------------------------------------------
(***************************************************************************)
(* The timers of the window, and HID_PnP.                                  *)
(***************************************************************************)
Alone == UNCHANGED <<firmware, clicks, plugs, chosen, odd, edited>>

sweep_timer_timeout ==
  /\ w.sweeping /\ \E loop \in BOOLEAN : w' = sweep_timeout(w, loop)
  /\ Alone /\ UNCHANGED hid
macro_timer_timeout ==
  /\ w.isMacroRunning
  /\ \E loop \in BOOLEAN : w' = executeMacroStep(w, w.currentMacroStep + 1, loop, hid)
  /\ Alone /\ UNCHANGED hid

(* PollUSB without a device tells the window, then tries to open one.      *)
PollWithoutDevice ==
  /\ ~hid.isConnected /\ w' = update_gui(w, hid)
  /\ UNCHANGED <<clicks, chosen, odd, edited>>
  /\ \/ hid' = Told(hid) /\ UNCHANGED <<firmware, plugs>>
     \/ /\ plugs < MaxPlugs /\ plugs' = plugs + 1
        /\ hid' = [Told(hid) EXCEPT !.isConnected = TRUE]
        /\ firmware' \in Majors
(* CloseDevice, for a failed transfer or for another device                *)
CloseDevice ==
  /\ hid.isConnected
  /\ LET h == [hid EXCEPT !.isConnected = FALSE]
     IN w' = update_gui(w, h) /\ \E done \in BOOLEAN : hid' = [Told(h) EXCEPT !.done = done]
  /\ Alone
(* A reply with the version; one with the state of the output, a change of *)
(* the list or a request that update_gui collects.                         *)
ReadVersion ==
  /\ hid.isConnected /\ hid.pending
  /\ hid' = [hid EXCEPT !.pending = FALSE, !.major = firmware]
  /\ w' = update_gui(w, hid')
  /\ Alone
ReadStatus ==
  /\ hid.isConnected /\ w' = update_gui(w, hid) /\ hid' = Told(hid) /\ Alone
slow_read_timeout ==
  /\ hid' = [hid EXCEPT !.pending = TRUE] /\ UNCHANGED w /\ Alone

Next ==
  \/ User
  \/ sweep_timer_timeout \/ macro_timer_timeout
  \/ PollWithoutDevice \/ CloseDevice \/ ReadVersion \/ ReadStatus \/ slow_read_timeout

Spec == Init /\ [][Next]_vars

(* A started timer fires, and the device answers.                          *)
Fairness ==
  /\ WF_vars(sweep_timer_timeout) /\ WF_vars(macro_timer_timeout)
  /\ WF_vars(PollWithoutDevice) /\ WF_vars(slow_read_timeout) /\ WF_vars(ReadVersion)
FairSpec == Spec /\ Fairness

-----------------------------------------------------------------------------
TypeOK ==
  /\ w \in Window /\ hid \in UIData /\ firmware \in Majors \cup {0}
  /\ clicks \in 0 .. MaxClicks /\ plugs \in 0 .. MaxPlugs
  /\ chosen \in BOOLEAN /\ odd \in BOOLEAN /\ edited \in BOOLEAN

(***************************************************************************)
(* While a macro runs, no control that could disturb it can be operated,   *)
(* whatever update_gui is told meanwhile; in a sweep that much holds of    *)
(* automatic transmission and "Write" alone (SweepKeepsDisabled has the    *)
(* other four); and never do both run.                                     *)
(***************************************************************************)
ConflictsDisabled ==
  /\ w.isMacroRunning => w.enabled \cap MacroConflicts = {} /\ ~w.sweeping
  /\ w.sweeping => w.enabled \cap {"autotx", "USBTX"} = {}

(***************************************************************************)
(* What sweep_start_click disables stays so: "Not available while sweep is *)
(* active" (usbioboard.cpp:1462-1472).  It does not: the update_gui run    *)
(* by the signal at 1489 finds the timer not yet started (1493).           *)
(***************************************************************************)
SweepKeepsDisabled == w.sweeping => w.enabled \cap SweepConflicts = {}

(* What runs can be stopped by its button, as long as there is a device.   *)
StopIsOffered ==
  /\ w.isMacroRunning => "macroStop" \in w.enabled
  /\ w.sweeping /\ w.isDeviceConnected => "sweep_stop" \in w.enabled

(* A sweep and a macro, however they end, leave automatic transmission as  *)
(* the user chose it, also when one takes over from the other.             *)
ChoiceRestored ==
  ~odd => chosen = CASE w.sweeping -> w.before_sweep
                     [] w.isMacroRunning -> w.before_macro
                     [] OTHER -> w.enable_auto_tx

(* While a macro runs, HID_PnP has the registers and the output state of   *)
(* the step the table shows, though only steps that change the frequency   *)
(* send registers.  (Until the user edits a frequency during the macro.)   *)
MacroStepIsSent ==
  w.isMacroRunning =>
    /\ w.currentMacroStep \in w.active
    /\ ~edited => /\ w.sent = w.freqs[w.currentMacroStep]
                  /\ w.rf = w.rfs[w.currentMacroStep]

(***************************************************************************)
(* A sweep that goes on sends every frequency of its raster after the      *)
(* first, again and again.  The first, its start, is never sent: a loop    *)
(* sets only the spin box back (usbioboard.cpp:1518), and the next timeout *)
(* adds the step to it before it sends.                                    *)
(***************************************************************************)
InRaster(s, f) ==
  s.step > 0 /\ s.start < f /\ f <= s.end /\ (f - s.start) % s.step = 0
SweepComesRound ==
  \A f \in Freqs : <>[](w.sweeping /\ InRaster(w.sweep, f)) => []<>(w.sent = f)

(* A macro that goes on executes every active step again and again.        *)
MacroComesRound ==
  \A i \in Steps :
    <>[](w.isMacroRunning /\ i \in w.active) => []<>(w.currentMacroStep = i)

(* Whatever a sweep, a macro or the user did to the controls, they end up  *)
(* disabled when the device stays away, enabled when it stays and nothing  *)
(* runs; and in a sweep that goes on the next version read disables what   *)
(* its start has enabled, but for "Erase" (usbioboard.cpp:1657-1699).      *)
ControlsSettle ==
  /\ <>[]~hid.isConnected => <>[](w.enabled \cap NeedDevice = {})
  /\ <>[](hid.isConnected /\ NothingRuns(w)) =>
       <>[]({"program_flash", "macroStart", "RF_CTRL", "sweep_start", "sweep_stop",
             "erase_flash", "identify"} \subseteq w.enabled)
  /\ <>[]w.sweeping => <>[](w.enabled \cap (SweepConflicts \ {"erase_flash"}) = {})
=============================================================================
