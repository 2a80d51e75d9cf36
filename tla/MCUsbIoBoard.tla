---------------------------- MODULE MCUsbIoBoard ----------------------------
(***************************************************************************)
(* USBIOBoard with a table of three steps, in two blocks, and three        *)
(* frequencies; 35.05 MHz is one of those whose product by 100 falls short. *)
(***************************************************************************)
EXTENDS MacroTable

(* One step leads past the end of its range inside what the spin box       *)
(* takes, the other beyond it.                                             *)
MCSweeps == {[start |-> 1, end |-> 2, step |-> 1], [start |-> 1, end |-> 3, step |-> 1]}

MCTenKHz == <<3503, 3505, 220000>>
=============================================================================
