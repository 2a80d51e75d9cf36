---------------------------- MODULE MCUsbControl ----------------------------
(* Finite instances of UsbControl: a few requests of every kind that the   *)
(* dispatch tells apart, with lengths below, at and above a packet and the *)
(* reply.                                                                  *)
EXTENDS UsbControl

Ask(name, type, recip, what, val, in, len) ==
  [name |-> name, type |-> type, recip |-> recip, what |-> what,
   val |-> val, in |-> in, len |-> len]

Device(len)    == Ask("GET_DESCRIPTOR", "std", "device", "DEVICE", 0, TRUE, len)
String(i, len) == Ask("GET_DESCRIPTOR", "std", "device", "STRING", i, TRUE, len)
HidDsc         == Ask("GET_DESCRIPTOR", "std", "interface", "HID", 0, TRUE, 9)
Unknown        == Ask("GET_DESCRIPTOR", "std", "device", "NONE", 0, TRUE, 10)
Address(a)     == Ask("SET_ADDRESS", "std", "device", "NONE", a, FALSE, 0)
Configure(c)   == Ask("SET_CONFIGURATION", "std", "device", "NONE", c, FALSE, 0)
SetIdle        == Ask("SET_IDLE", "class", "interface", "NONE", 0, FALSE, 0)
SetReport      == Ask("SET_REPORT", "class", "interface", "NONE", 0, FALSE, 8)

MCRequests  == {Device(8), Device(64), String(1, 4), HidDsc, Unknown, Address(5), Address(0),
                Configure(1), SetIdle, SetReport}
=============================================================================
