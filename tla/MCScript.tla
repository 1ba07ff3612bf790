------------------------------ MODULE MCScript ------------------------------
(* The instance of Script that the code is.                                  *)
EXTENDS Script

DepthOfCode == 10

=============================================================================
