----------------------------- MODULE MacroBlocks -----------------------------
(***************************************************************************)
(* The two blocks of steps in which a macro goes to the device's flash,    *)
(* and what the device plays from them.  Frequencies are in units of       *)
(* 10 kHz.  The padding after the steps is left out.                       *)
(***************************************************************************)
EXTENDS Integers, Sequences, FiniteSets

CONSTANT MACRO_STEPS_PER_BLOCK    \* 7 in the code

ASSUME BlockAssumption == MACRO_STEPS_PER_BLOCK \in Nat \ {0}

STEP_FLAG_RF_ON  == 1
STEP_FLAG_RF_OFF == 2

(* Three bytes of frequency and of time, and the status flag's three fields *)
Step == [frequency : 0 .. 2^24 - 1, step_ms : 0 .. 2^24 - 1, enabled : BOOLEAN,
         rf : 0 .. 3, recalc : BOOLEAN]
Block == [stepConfig : Seq(Step), macroSteps : 0 .. MACRO_STEPS_PER_BLOCK]

-----------------------------------------------------------------------------
(***************************************************************************)
(* A frequency of n * 10 kHz in MHz, times 100, truncated.  The double for *)
(* n / 100 lies r / 100 units of its last place below it; that is more     *)
(* than half a unit of the last place of n if n has only six more binary   *)
(* digits before the point and r > 32, and the product then is less than n *)
(* (n a power of two: r > 16).                                             *)
(***************************************************************************)
Exponent(n) == CHOOSE e \in 0 .. 30 : 2^e <= n /\ n < 2^(e + 1)
(* 2^(52 - e), e the exponent of n / 100, modulo 100                       *)
Scale(e) == LET pow[k \in Nat] == IF k = 0 THEN 1 ELSE (2 * pow[k - 1]) % 100 IN pow[52 - e]
Remainder(n, e) == LET r == ((n % 100) * Scale(e)) % 100 IN IF r > 50 THEN r - 100 ELSE r
Hundredfold(n) ==
  IF n = 0 THEN 0
  ELSE LET e    == Exponent((128 * n) \div 100) - 7
           more == Exponent(n) - e - (IF n = 2 ^ Exponent(n) THEN 1 ELSE 0)
       IN IF Remainder(n, e) > 2 ^ (more - 1) THEN n - 1 ELSE n

-----------------------------------------------------------------------------
(***************************************************************************)
(* The device (external): it plays the enabled steps of block 0, then of   *)
(* block 1, again and again, and tunes the synthesiser at its first step   *)
(* and at those marked.  What it puts out at each step of the first two    *)
(* rounds.                                                                 *)
(***************************************************************************)
Enabled(b) ==
  LET on     == {i \in 1 .. b.macroSteps : b.stepConfig[i].enabled}
      nth(k) == CHOOSE i \in on : Cardinality({j \in on : j < i}) = k - 1
  IN [k \in 1 .. Cardinality(on) |-> b.stepConfig[nth(k)]]
Played(block0, block1) ==
  LET steps   == Enabled(block0) \o Enabled(block1)
      step(k) == steps[((k - 1) % Len(steps)) + 1]
      tuned(k) == CHOOSE j \in 1 .. k :
                    /\ j = 1 \/ step(j).recalc
                    /\ \A i \in j + 1 .. k : ~step(i).recalc
  IN [k \in 1 .. 2 * Len(steps) |->
        [frequency |-> step(tuned(k)).frequency, step_ms |-> step(k).step_ms,
         on |-> step(k).rf = STEP_FLAG_RF_ON]]
=============================================================================
