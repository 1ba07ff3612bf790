----------------------------- MODULE MCReadout -----------------------------
(* Instances of Readout for TLC.                                             *)
EXTENDS ReadoutInvariant, TLC

CONSTANTS d1, d2

OneDetector  == {d1}
TwoDetectors == {d1, d2}

DetectorSymmetry == Permutations({d1, d2})

=============================================================================
