----------------------------- MODULE MacroTable -----------------------------
(***************************************************************************)
(* What "Program Macro to Flash" packs of the window's macro table, and    *)
(* what the device plays from it.  HidPnp has the two packets that carry   *)
(* the blocks.  The rows' times are left out: their spin boxes take what   *)
(* three bytes hold.                                                       *)
(***************************************************************************)
EXTENDS UsbIoBoard, MacroBlocks

CONSTANT TenKHz    \* the window's frequencies, in units of 10 kHz

ASSUME TenKHzAssumption == TenKHz \in [Freqs -> 3500 .. 440000]
ASSUME RowsAssumption ==    \* the two blocks hold every row of the table
  NumSteps <= 2 * MACRO_STEPS_PER_BLOCK

(* The window's frequencies, as they are packed *)
freqFP == [f \in Freqs |-> Hundredfold(TenKHz[f])]

(* The rows of block k that are packed: up to its last active one.         *)
OffByOne(v, k) ==
  LET rows == {i \in v.active : i \div MACRO_STEPS_PER_BLOCK = k}
  IN IF rows = {} THEN 0 ELSE Greatest(rows) - k * MACRO_STEPS_PER_BLOCK
macroSteps(v, k) ==
  LET rows == {i \in v.active : i \div MACRO_STEPS_PER_BLOCK = k}
  IN IF rows = {} THEN 0 ELSE Greatest(rows) - k * MACRO_STEPS_PER_BLOCK + 1

(* The combo box has "On" as item 0.                                       *)
currentIndex(on) == IF on THEN 0 ELSE 1
rfVal(index) == IF index # 0 THEN STEP_FLAG_RF_ON ELSE STEP_FLAG_RF_OFF

Packed(v, i) ==
  [frequency |-> freqFP[v.freqs[i]], step_ms |-> 0,
   enabled |-> i \in v.active, rf |-> rfVal(currentIndex(v.rfs[i])), recalc |-> i \in v.pll]
packMacroData(v, k) ==
  [stepConfig |-> [i \in 1 .. macroSteps(v, k) |-> Packed(v, k * MACRO_STEPS_PER_BLOCK + i - 1)],
   macroSteps |-> macroSteps(v, k)]

Plays == Played(packMacroData(w, 0), packMacroData(w, 1))

-----------------------------------------------------------------------------
(* The active rows in their order, twice.                                  *)
Shown ==
  LET n == Cardinality(w.active)
      row(k) == CHOOSE i \in w.active : Cardinality({j \in w.active : j < i}) = (k - 1) % n
  IN [k \in 1 .. 2 * n |-> row(k)]

(* Programmed at any moment, a macro visits the active rows in their order *)
(* and is tuned to the frequency of each, in every round: the recalculation *)
(* flags, made for a macro that the window runs, are right for the device, *)
(* which tunes its first step by itself (usbioboard.cpp:482 and 542).      *)
FlashMacroIsTuned ==
  LET plays == Plays
      shown == Shown
  IN /\ Len(plays) = Len(shown)
     /\ \A k \in 1 .. Len(plays) : plays[k].frequency = freqFP[w.freqs[shown[k]]]
=============================================================================
