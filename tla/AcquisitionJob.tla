--------------------------- MODULE AcquisitionJob ---------------------------
(***************************************************************************)
(* What `readout` and `pedcalib_readout` promise the operator of an        *)
(* interactive hero_shell, without threads, RPCs or files: at most one job *)
(* at a time, a request to stop it that cannot be withdrawn, and one       *)
(* outcome per job, fixed when the job ends and kept until the next one.   *)
(* Module Readout implements this specification.                           *)
(***************************************************************************)

VARIABLES
  phase,    \* what the shell may be told of the job
  asked,    \* the operator asked this job to stop
  outcome   \* how the last job ended

vars == <<phase, asked, outcome>>

Phases   == {"idle", "starting", "running", "ended"}
Outcomes == {"none", "completed", "stopped", "failed"}

TypeOK == phase \in Phases /\ asked \in BOOLEAN /\ outcome \in Outcomes

Init == phase = "idle" /\ asked = FALSE /\ outcome = "none"

\* A new job may be announced only when no job is in progress; it forgets
\* the previous outcome and the previous request to stop.
Announce ==
  /\ phase \in {"idle", "ended"}
  /\ phase' = "idle" /\ asked' = FALSE /\ outcome' = "none"

Begin ==
  /\ phase = "idle"
  /\ phase' = "starting"
  /\ UNCHANGED <<asked, outcome>>

Record ==
  /\ phase = "starting"
  /\ phase' = "running"
  /\ UNCHANGED <<asked, outcome>>

Ask ==
  /\ asked' = TRUE
  /\ UNCHANGED <<phase, outcome>>

\* The outcome of a job is settled once, while it is still in progress: only
\* a job that was recording completes, and only a job that was asked to stop
\* is reported as stopped.
Settle(o) ==
  /\ phase \in {"starting", "running"} /\ outcome = "none"
  /\ o = "completed" => phase = "running"
  /\ o = "stopped" => asked
  /\ outcome' = o
  /\ UNCHANGED <<phase, asked>>

End ==
  /\ phase \in {"starting", "running"} /\ outcome # "none"
  /\ phase' = "ended"
  /\ UNCHANGED <<asked, outcome>>

Next ==
  \/ Announce \/ Begin \/ Record \/ Ask \/ End
  \/ \E o \in Outcomes \ {"none"} : Settle(o)

Spec == Init /\ [][Next]_vars

=============================================================================
