----------------------------- MODULE MCRfgen44 -----------------------------
(***************************************************************************)
(* rfgen44.py with two generators, one too old for macros, and blocks of   *)
(* two steps, so that a macro of three reaches into the second block.      *)
(***************************************************************************)
EXTENDS Rfgen44

MCFirmware == [d \in Serials |-> IF d = "A" THEN 2 ELSE 1]

(* Settings whose PFD frequency is exact in binary: 0.5, 0.25, 1, 2.5 and  *)
(* 25 MHz; the frequencies are the ends of the synthesiser's bands, their  *)
(* neighbours, and some whose product by 100 falls short.                  *)
S(doubler, div2, r, feedback) ==
  [ref |-> 2500, doubler |-> doubler, div2 |-> div2, r |-> r, feedback |-> feedback]
MCSettings == {Default, S(TRUE, TRUE, 100, TRUE), S(TRUE, FALSE, 50, FALSE),
               S(FALSE, FALSE, 10, TRUE), S(FALSE, FALSE, 1, TRUE)}
MCFrequencies == {3500, 3505, 6874, 6875, 13749, 13750, 27499, 27500, 43392, 54999, 55000,
                  109999, 110000, 219999, 220000, 439998, 440000}
MCLeft == {[frequency |-> f, setting |-> Default] : f \in MCFrequencies}
          \cup {[frequency |-> f, setting |-> s] : f \in {3505, 43392, 220000}, s \in MCSettings}

Macro3 == <<[frequency |-> 10000, duration |-> 500, rf |-> TRUE],
            [frequency |-> 10000, duration |-> 2^24 - 1, rf |-> FALSE],
            [frequency |-> 3505, duration |-> 2^24, rf |-> TRUE]>>
Macro2 == SubSeq(Macro3, 2, 3)
MCOldMacro == Macro3

Sweep(start, stop, step, ms) == [start |-> start, stop |-> stop, step |-> step, ms |-> ms]
Plain == [ops |-> {"info"}, serial_number |-> None, frequency |-> None,
          sweep |-> Sweep(10000, 20000, 100, 50), steps |-> Macro2, rfstate |-> "on"]
MCInvocations ==
  {[Plain EXCEPT !.ops = o, !.frequency = f, !.serial_number = n] :
     o \in {{"write", "flashwrite", "rfstate"}, {"write", "erase", "programsweep"}},
     f \in {None, 3499, 3505, 220000}, n \in {None, "A", "B"}}
  \cup {[Plain EXCEPT !.ops = {"erase", "programmacro", "flashwrite"}, !.frequency = 3505,
                      !.steps = m, !.serial_number = n] :
          m \in {<<>>, Macro2, Macro3, Macro3 \o Macro2,
                 <<[Macro3[1] EXCEPT !.duration = 29], Macro3[1]>>},
          n \in {None, "A", "B"}}
  \cup {[Plain EXCEPT !.ops = {"programsweep"}, !.sweep = s] :
          s \in {Sweep(20000, 10000, 100, 50), Sweep(10000, 20000, -1, 50),
                 Sweep(10001, 43391, 57, 2^16)}}
  \cup {[Plain EXCEPT !.ops = {"info", "devindetify", "rfstate"}, !.rfstate = r] :
          r \in {"read", "off", "other"}}
  \cup {[Plain EXCEPT !.ops = {"flashwrite"}, !.frequency = f] : f \in {None, 440001}}
  \cup {[Plain EXCEPT !.ops = {"rfstate", "erase"}, !.rfstate = r] : r \in {"read", "on"}}
=============================================================================
