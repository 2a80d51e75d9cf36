-------------------------- MODULE MCRfgenFirmware --------------------------
(* Finite instances of RfgenFirmware: two registers, one command of each   *)
(* kind the handler treats differently, a few packets and bus events.      *)
EXTENDS RfgenFirmware

MCCommands == {"SET_REG", "READ_RF_CTRL", "RF_ON", "OTHER"}
=============================================================================
