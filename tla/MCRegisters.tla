---------------------------- MODULE MCRegisters ----------------------------
(* Instances of Registers for TLC.                                           *)
EXTENDS RegistersInvariant

CONSTANTS d1, d2, x1, v0, v1, none

OneDevice   == {d1}
TwoDevices  == {d1, d2}
OneStranger == {x1}
NoStranger  == {}
TwoValues   == {v0, v1}

=============================================================================
