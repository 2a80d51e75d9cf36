------------------------------ MODULE MCHidPnp ------------------------------
(* Finite instances of HidPnp: one or two generators, a few actions of the *)
(* user and a few faults.                                                  *)
EXTENDS HidPnp

MCDevices    == {1, 2}
MCOneDevice  == {1}
MCRequests   == {"macro"}
MCWindow     == {"flash", "serial"}
MCNoRequests == {}
=============================================================================
