----------------------------- MODULE MCSession -----------------------------
(* Instances of Session for TLC.                                             *)
EXTENDS Session

CONSTANTS s1, s2, a1, a2, f1, f2

OneServer    == {s1}
TwoServers   == {s1, s2}
OneAddress   == {a1}
TwoAddresses == {a1, a2}
OneFile      == {f1}

=============================================================================
