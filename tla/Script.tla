------------------------------- MODULE Script -------------------------------
(***************************************************************************)
(* The interpreter of commands and scripts: main, run_shell, load_script   *)
(* and execute_command, which call each other recursively, and the way a   *)
(* Ctrl-C and a failure travel through them.  A file is a sequence of      *)
(* lines of any length; what a line says is chosen when it is read.  The   *)
(* call stack is the number of scripts that are open.                      *)
(***************************************************************************)
EXTENDS Naturals

CONSTANT MaxDepth   \* execute_command refuses a deeper call: 10

ASSUME ScriptAssumption == MaxDepth \in Nat

VARIABLES
  interactive,  \* g_interactive_shell
  pc,           \* where the shell thread is
  cmd,          \* what the command under way is
  depth,        \* scripts open, the depth of the next execute_command
  result,       \* the value being returned
  exitCode,     \* of the process
  interrupted,  \* g_interrupted
  active,       \* g_readout_active
  stopReq,      \* g_readout_stop_requested
  failed,       \* history: a command of this run has returned false
  pressed,      \* history: Ctrl-C was pressed during this run
  begun         \* history: commands begun since then, 2 for more than one

historyVars == <<failed, pressed, begun>>
vars == <<interactive, pc, cmd, depth, result, exitCode, interrupted, active, stopReq,
          failed, pressed, begun>>

-----------------------------------------------------------------------------
\* The commands by what they do with the flags: exclusive ones are refused
\* during an acquisition, shared ones are not.
Commands == {"shared", "exclusive", "connect", "sleep", "readout", "stop"}
Words    == Commands \union {"script", "exit"}

RefusedDuringReadout == {"exclusive", "connect", "script"}

Pcs == {"prompt", "dispatch", "running", "line", "check", "return", "exited"}

\* Interactive: the first prompt. Otherwise the script given to the program.
Init ==
  /\ interactive \in BOOLEAN
  /\ pc = (IF interactive THEN "prompt" ELSE "dispatch")
  /\ cmd = (IF interactive THEN "none" ELSE "script")
  /\ depth = 0 /\ result = TRUE /\ exitCode = 0
  /\ interrupted = FALSE /\ active = FALSE /\ stopReq = FALSE
  /\ failed = FALSE /\ pressed = FALSE /\ begun = 0

\* handle_sigint.
SigintRaised ==
  /\ pc # "exited" /\ ~interrupted
  /\ interrupted' = TRUE /\ stopReq' = (stopReq \/ active)
  /\ pressed' = (pc # "prompt")
  /\ begun' = 0
  /\ UNCHANGED <<interactive, pc, cmd, depth, result, exitCode, active, failed>>

\* The background job of an interactive shell ends, by itself or because of
\* stopReq.
ReadoutEnds ==
  /\ active /\ active' = FALSE
  /\ UNCHANGED <<interactive, pc, cmd, depth, result, exitCode, interrupted, stopReq,
                 historyVars>>

-----------------------------------------------------------------------------
(* run_shell.                                                                *)

PromptCancelled ==
  /\ pc = "prompt" /\ interrupted /\ interrupted' = FALSE
  /\ UNCHANGED <<interactive, pc, cmd, depth, result, exitCode, active, stopReq, historyVars>>

\* A line was entered before the Ctrl-C, if any, was noticed.
LineEntered(word) ==
  /\ pc = "prompt" /\ pc' = "dispatch" /\ cmd' = word
  /\ pressed' = interrupted
  /\ UNCHANGED <<interactive, depth, result, exitCode, interrupted, active, stopReq, failed,
                 begun>>

Exit(code) ==
  /\ pc' = "exited" /\ exitCode' = code
  /\ stopReq' = (stopReq \/ active) /\ active' = FALSE
  /\ UNCHANGED <<interactive, cmd, depth, result, interrupted, historyVars>>

\* End of input: shutdown_readout stops and joins the job.
EndOfInput == pc = "prompt" /\ ~interrupted /\ Exit(0)

-----------------------------------------------------------------------------
(* execute_command.                                                          *)

Returns(ok) ==
  /\ pc' = "return" /\ result' = ok /\ failed' = (failed \/ ~ok)
  /\ UNCHANGED <<interactive, exitCode, pressed, begun>>

\* Fault: only the acquisition is looked at.
AcceptedAtAnyDepth == ~(active /\ cmd \in RefusedDuringReadout)

\* depth > 10 is refused, and so are most commands during an acquisition.
Accepted == depth <= MaxDepth /\ ~(active /\ cmd \in RefusedDuringReadout)

Refused ==
  /\ pc = "dispatch" /\ ~Accepted
  /\ Returns(FALSE)
  /\ UNCHANGED <<cmd, depth, interrupted, active, stopReq>>

CommandBegins ==
  /\ pc = "dispatch" /\ Accepted /\ cmd \in Commands
  /\ pc' = "running"
  /\ begun' = IF pressed /\ begun < 2 THEN begun + 1 ELSE begun
  /\ UNCHANGED <<interactive, cmd, depth, result, exitCode, interrupted, active, stopReq,
                 failed, pressed>>

ExitCommand ==
  /\ pc = "dispatch" /\ Accepted /\ cmd = "exit" /\ Exit(0)

\* Fault: the Ctrl-C is consumed but the command counts as a success.
SleepConsumesInterrupt ==
  /\ pc = "running" /\ cmd = "sleep"
  /\ Returns(TRUE) /\ interrupted' = FALSE
  /\ UNCHANGED <<cmd, depth, active, stopReq>>

\* sleep: a Ctrl-C is consumed by the failure it causes.
SleepEnds ==
  /\ pc = "running" /\ cmd = "sleep"
  /\ Returns(~interrupted) /\ interrupted' = FALSE
  /\ UNCHANGED <<cmd, depth, active, stopReq>>

\* connect: the same, and the connection may fail.
ConnectEnds ==
  /\ pc = "running" /\ cmd = "connect"
  /\ \E ok \in BOOLEAN : Returns(ok /\ ~interrupted)
  /\ interrupted' = FALSE
  /\ UNCHANGED <<cmd, depth, active, stopReq>>

\* Commands that do not look at g_interrupted succeed or fail.
PlainEnds ==
  /\ pc = "running" /\ cmd \in {"shared", "exclusive"}
  /\ \E ok \in BOOLEAN : Returns(ok)
  /\ UNCHANGED <<cmd, depth, interrupted, active, stopReq>>

\* readout in a script given to the program runs in the foreground; it fails
\* on a Ctrl-C and leaves the flag to load_script.
ForegroundEnds ==
  /\ pc = "running" /\ cmd = "readout" /\ ~interactive
  /\ \E ok \in BOOLEAN : Returns(ok /\ ~interrupted)
  /\ UNCHANGED <<cmd, depth, interrupted, active, stopReq>>

\* readout in an interactive shell starts a job, unless it cannot or one runs.
BackgroundStarts ==
  /\ pc = "running" /\ cmd = "readout" /\ interactive
  /\ \/ ~active /\ active' = TRUE /\ stopReq' = FALSE /\ Returns(TRUE)
     \/ Returns(FALSE) /\ UNCHANGED <<active, stopReq>>
  /\ UNCHANGED <<cmd, depth, interrupted>>

\* readout stop.
StopEnds ==
  /\ pc = "running" /\ cmd = "stop"
  /\ Returns(active) /\ stopReq' = (stopReq \/ active)
  /\ UNCHANGED <<cmd, depth, interrupted, active>>

-----------------------------------------------------------------------------
(* load_script.                                                              *)

\* @file: the file is opened, or cannot be.
ScriptOpened ==
  /\ pc = "dispatch" /\ Accepted /\ cmd = "script"
  /\ pc' = "line" /\ cmd' = "none" /\ depth' = depth + 1
  /\ UNCHANGED <<interactive, result, exitCode, interrupted, active, stopReq, historyVars>>

ScriptNotOpened ==
  /\ pc = "dispatch" /\ Accepted /\ cmd = "script"
  /\ Returns(FALSE)
  /\ UNCHANGED <<cmd, depth, interrupted, active, stopReq>>

\* The end of the file is noticed before a Ctrl-C is.
EndOfScript ==
  /\ pc = "line" /\ depth' = depth - 1
  /\ Returns(TRUE)
  /\ UNCHANGED <<cmd, interrupted, active, stopReq>>

LineRead ==
  /\ pc = "line" /\ pc' = "check"
  /\ UNCHANGED <<interactive, cmd, depth, result, exitCode, interrupted, active, stopReq,
                 historyVars>>

\* Fault: the pending Ctrl-C is dropped.
InterruptDropped ==
  /\ pc = "check" /\ interrupted /\ interrupted' = FALSE
  /\ UNCHANGED <<interactive, pc, cmd, depth, result, exitCode, active, stopReq, historyVars>>

ScriptInterrupted ==
  /\ pc = "check" /\ interrupted
  /\ Returns(FALSE) /\ interrupted' = FALSE /\ depth' = depth - 1
  /\ UNCHANGED <<cmd, active, stopReq>>

\* An empty line or a comment, or a command.
LineSkipped ==
  /\ pc = "check" /\ ~interrupted /\ pc' = "line"
  /\ UNCHANGED <<interactive, cmd, depth, result, exitCode, interrupted, active, stopReq,
                 historyVars>>

LineExecuted(word) ==
  /\ pc = "check" /\ ~interrupted /\ pc' = "dispatch" /\ cmd' = word
  /\ UNCHANGED <<interactive, depth, result, exitCode, interrupted, active, stopReq,
                 historyVars>>

-----------------------------------------------------------------------------
(* The return from execute_command.                                          *)

NextLine ==
  /\ pc = "return" /\ depth > 0 /\ result
  /\ pc' = "line" /\ cmd' = "none"
  /\ UNCHANGED <<interactive, depth, result, exitCode, interrupted, active, stopReq,
                 historyVars>>

\* Fault: a nested script that fails does not fail its caller.
FailureContained ==
  /\ pc = "return" /\ depth > 0 /\ ~result
  /\ pc' = "line" /\ cmd' = "none"
  /\ UNCHANGED <<interactive, depth, result, exitCode, interrupted, active, stopReq,
                 historyVars>>

\* The failure of a line is that of its script.
ScriptFails ==
  /\ pc = "return" /\ depth > 0 /\ ~result
  /\ depth' = depth - 1
  /\ UNCHANGED <<interactive, pc, cmd, result, exitCode, interrupted, active, stopReq,
                 historyVars>>

\* Fault: the result of the script is not looked at.
BatchSucceeds ==
  /\ pc = "return" /\ depth = 0 /\ ~interactive /\ Exit(0)

BatchEnds ==
  /\ pc = "return" /\ depth = 0 /\ ~interactive /\ Exit(IF result THEN 0 ELSE 1)

\* Back at the prompt, where a pending interrupt is cleared.
BackToPrompt ==
  /\ pc = "return" /\ depth = 0 /\ interactive
  /\ pc' = "prompt" /\ cmd' = "none" /\ result' = TRUE /\ interrupted' = FALSE
  /\ failed' = FALSE /\ pressed' = FALSE /\ begun' = 0
  /\ UNCHANGED <<interactive, depth, exitCode, active, stopReq>>

Exited == pc = "exited" /\ UNCHANGED vars

-----------------------------------------------------------------------------
OperatorStep == SigintRaised \/ EndOfInput \/ \E word \in Words : LineEntered(word)

ScriptStep ==
  \/ ScriptOpened \/ ScriptNotOpened \/ EndOfScript \/ LineRead \/ ScriptInterrupted
  \/ LineSkipped \/ \E word \in Words : LineExecuted(word)

ShellStep ==
  \/ PromptCancelled \/ Refused \/ CommandBegins \/ ExitCommand
  \/ SleepEnds \/ ConnectEnds \/ PlainEnds \/ ForegroundEnds \/ BackgroundStarts \/ StopEnds
  \/ ScriptStep \/ NextLine \/ ScriptFails \/ BatchEnds \/ BackToPrompt

Next == OperatorStep \/ ShellStep \/ ReadoutEnds \/ Exited

Spec == Init /\ [][Next]_vars

\* The shell runs and its commands return.
FairSpec == Spec /\ WF_vars(ShellStep)

-----------------------------------------------------------------------------
(* Properties.                                                               *)

PlaceType ==
  /\ pc \in Pcs /\ cmd \in Words \union {"none"} /\ interactive \in BOOLEAN
DepthType ==
  /\ depth \in 0..(MaxDepth + 1) /\ begun \in 0..2 /\ exitCode \in {0, 1}
FlagType ==
  /\ result \in BOOLEAN /\ interrupted \in BOOLEAN /\ active \in BOOLEAN
  /\ stopReq \in BOOLEAN /\ failed \in BOOLEAN /\ pressed \in BOOLEAN

\* Every variable has its type; no script is open beyond the limit.
TypeOK == PlaceType /\ DepthType /\ FlagType

\* Fail fast: once a command has failed, at whatever depth, no other one
\* begins before the shell is back at its prompt or the process is gone.
FailFast == failed => pc \in {"return", "exited"} /\ ~result

\* After a Ctrl-C no more than one command begins, the one whose line was
\* already past the check, whatever the scripts still hold.
InterruptStopsScript == begun <= 1

\* A process that was given a script exits with 0 only if nothing failed, a
\* script that was interrupted with lines left to do included.
ExitCodeTells ==
  pc = "exited" /\ ~interactive => (exitCode = 1 <=> failed)

\* A Ctrl-C ends the scripts that are open, even if their files had no end.
InterruptEndsScript == (interrupted /\ depth > 0) ~> (depth = 0 \/ pc = "exited")

=============================================================================
