------------------------------- MODULE Adf4351 -------------------------------
(***************************************************************************)
(* The registers of the ADF4351 synthesiser as both programs compute them: *)
(* ADF4351::BuildRegisters of the application, and the same method of      *)
(* rfgen44.py, whose settings are always the defaults.                     *)
(*                                                                         *)
(* Frequencies are in units of 10 kHz, what the spin boxes and the         *)
(* device's fixed-point fields resolve.  The code computes with doubles;   *)
(* here N = f * divider / PFD is a fraction.  The two differ where N is    *)
(* whole and the PFD frequency has no finite binary fraction of a MHz: the *)
(* double may then lie below N.  Of the settings, those the frequency      *)
(* depends on; the others are fields of the registers with a fixed value.  *)
(***************************************************************************)
EXTENDS Integers

MinFreq == 3500
MaxFreq == 440000
MinVco == 220000
MinRef == 1000
MaxRef == 25000
MaxR == 1023

(* ref is the crystal, r the R counter; feedback: of the fundamental, not  *)
(* of the divided output.                                                  *)
Setting == [ref : MinRef .. MaxRef, doubler : BOOLEAN, div2 : BOOLEAN, r : 1 .. MaxR,
            feedback : BOOLEAN]
Default == [ref |-> 2500, doubler |-> FALSE, div2 |-> FALSE, r |-> 50, feedback |-> TRUE]

Rounded(a, b) == (2 * a + b) \div (2 * b)
RoundedUp(a, b) == (a + b - 1) \div b

gcd[p \in Nat \X Nat] ==
  LET a == p[1]
      b == p[2]
  IN IF a = 0 THEN b
     ELSE IF b = 0 THEN a
     ELSE IF a > b THEN gcd[<<a % b, b>>]
     ELSE gcd[<<a, b % a>>]

(* The VCO runs from 2200 to 4400 MHz; log2 of the output divider.         *)
Band(f) == IF f >= MinVco THEN 0 ELSE IF f >= 110000 THEN 1 ELSE IF f >= 55000 THEN 2
           ELSE IF f >= 27500 THEN 3 ELSE IF f >= 13750 THEN 4 ELSE IF f >= 6875 THEN 5 ELSE 6

(* The PFD frequency is Crystal / Divided, in units of 10 kHz.             *)
Crystal(s) == s.ref * (IF s.doubler THEN 2 ELSE 1)
Divided(s) == s.r * (IF s.div2 THEN 2 ELSE 1)
Modulus(s) == Rounded(10 * Crystal(s), Divided(s))
(* N is Multiplied / Crystal.                                              *)
Multiplied(f, s) == f * Divided(s) * (IF s.feedback THEN 2 ^ Band(f) ELSE 1)
InBinary(s) ==
  \E k \in 0 .. 20 :
    (100 * Divided(s)) \div gcd[<<100 * Divided(s), Crystal(s)>>] = 2 ^ k

ReducedHalf(int, frac, mod) ==
  LET g == gcd[<<mod, frac>>]
  IN [INT |-> int, FRAC |-> frac, MOD |-> IF mod \div g = 1 THEN 2 ELSE mod \div g]
Reduced(int, frac, mod) ==
  LET g == gcd[<<mod, frac>>]
      m == mod \div g
  IN [INT |-> int, FRAC |-> frac \div g, MOD |-> IF m = 1 THEN 2 ELSE m]

(* INT, FRAC and MOD: more than one outcome where the double may lie below *)
(* a whole N, and FRAC is then rounded up to MOD.                          *)
Divisions(f, s) ==
  LET n     == Multiplied(f, s)
      whole == n \div Crystal(s)
      part  == n % Crystal(s)
  IN {Reduced(whole, Rounded(part * Modulus(s), Crystal(s)), Modulus(s))}
       \cup (IF part = 0 /\ ~InBinary(s) THEN {Reduced(whole - 1, Modulus(s), Modulus(s))} ELSE {})

BandSelect(s) ==
  LET d == RoundedUp(8 * Crystal(s), 100 * Divided(s)) IN IF d > 255 THEN 255 ELSE d

Bit(b) == IF b THEN 1 ELSE 0
(* The six words; the constants are the fields that the frequency does not *)
(* depend on, with rfgen44.py's values.                                    *)
Words(p, f, s) ==
  <<(p.INT % 65536) * 2^15 + (p.FRAC % 4096) * 2^3,
    2^27 + 2^15 + (p.MOD % 4096) * 2^3 + 1,
    Bit(s.doubler) * 2^25 + Bit(s.div2) * 2^24 + s.r * 2^14 + 7 * 2^9 + 2^6 + 2,
    150 * 2^3 + 3,
    Bit(s.feedback) * 2^23 + Band(f) * 2^20 + BandSelect(s) * 2^12 + 2^5 + 3 * 2^3 + 4,
    2^22 + 3 * 2^19 + 5>>

(* What the words may be: one outcome for the defaults.                    *)
BuildRegisters(f, s) == {Words(p, f, s) : p \in Divisions(f, s)}

-----------------------------------------------------------------------------
(***************************************************************************)
(* The synthesiser (external): what it makes of the words, with a crystal  *)
(* of ref.                                                                 *)
(***************************************************************************)
Field(word, low, width) == (word \div 2^low) % 2^width
(* The output is f: N as programmed is the N of f; the VCO is in its range, *)
(* and has 125 kHz to select its band.                                     *)
Outputs(reg, ref, f) ==
  LET s == [ref |-> ref, doubler |-> Field(reg[3], 25, 1) = 1, div2 |-> Field(reg[3], 24, 1) = 1,
            r |-> Field(reg[3], 14, 10), feedback |-> Field(reg[5], 23, 1) = 1]
      d == 2 ^ Field(reg[5], 20, 3)
      n == f * Divided(s) * (IF s.feedback THEN d ELSE 1)
      frac == Field(reg[1], 3, 12)
      mod == Field(reg[2], 3, 12)
      off == frac * Crystal(s) - (n % Crystal(s)) * mod
  IN /\ Field(reg[1], 15, 16) = n \div Crystal(s)
     /\ frac < mod
     /\ off = 0
     /\ f * d \in MinVco .. MaxFreq
     /\ 8 * Crystal(s) <= Field(reg[5], 12, 8) * 100 * Divided(s)
=============================================================================
