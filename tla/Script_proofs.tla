--------------------------- MODULE Script_proofs ---------------------------
(***************************************************************************)
(* Proofs about Script for every limit on the depth.                       *)
(***************************************************************************)
EXTENDS Script, TLAPS

\* A value being returned tells whether the run has failed, the exit code of a
\* batch run is that value, and only an interactive shell has a prompt.
ResultInv ==
  /\ FailFast /\ ExitCodeTells
  /\ pc = "return" => (failed <=> ~result)
  /\ pc = "prompt" => interactive

\* A script is open wherever a line is read, and one more than the limit only
\* until the first of its lines has been refused or has failed.
DepthInv ==
  /\ pc \in {"line", "check"} => depth > 0
  /\ pc = "running" => depth <= MaxDepth
  /\ pc = "prompt" => depth = 0

\* A Ctrl-C is pending until it has made a command or a script fail; a command
\* that began after it is the last one.
InterruptInv ==
  /\ pressed => pc # "prompt" /\ (interrupted \/ failed \/ pc = "exited")
  /\ begun > 0 => pressed /\ pc \in {"running", "return", "line", "check", "exited"}
  /\ begun <= 1

Inv == TypeOK /\ ResultInv /\ DepthInv /\ InterruptInv

USE DEF Commands, Words, Pcs, RefusedDuringReadout

-----------------------------------------------------------------------------
\* The inductive invariant holds at first.
LEMMA InitInv == Init => Inv
<1> SUFFICES ASSUME Init PROVE Inv
  OBVIOUS
<1>1. PlaceType /\ FlagType
  BY DEF Init, PlaceType, FlagType
<1>2. DepthType
  BY ScriptAssumption DEF Init, DepthType
<1>3. pc \notin {"return", "running", "line", "check", "exited"} /\ depth = 0
  BY DEF Init
<1>4. pc = "prompt" => interactive
  BY DEF Init
<1>5. failed = FALSE /\ pressed = FALSE /\ begun = 0
  BY DEF Init
<1> QED
  BY <1>1, <1>2, <1>3, <1>4, <1>5 DEF Inv, TypeOK, ResultInv, FailFast, ExitCodeTells,
     DepthInv, InterruptInv

\* Every step keeps the thread and its command where they may be.
LEMMA PlaceTypeStep ==
  ASSUME TypeOK, [Next]_vars
  PROVE  PlaceType'
BY DEF TypeOK, PlaceType, Next, OperatorStep, SigintRaised, EndOfInput, LineEntered, Exit,
   ShellStep, ScriptStep, ScriptOpened, ScriptNotOpened, EndOfScript, LineRead,
   ScriptInterrupted, LineSkipped, LineExecuted, Returns, PromptCancelled, Refused,
   CommandBegins, ExitCommand, SleepEnds, ConnectEnds, PlainEnds, ForegroundEnds,
   BackgroundStarts, StopEnds, NextLine, ScriptFails, BatchEnds, BackToPrompt, ReadoutEnds,
   Exited, vars

\* Every step keeps the numbers in their ranges.
LEMMA DepthTypeStep ==
  ASSUME TypeOK, DepthInv, [Next]_vars
  PROVE  DepthType'
<1> USE ScriptAssumption DEF TypeOK, DepthType, historyVars
<1>1. CASE OperatorStep
  BY <1>1 DEF OperatorStep, SigintRaised, EndOfInput, LineEntered, Exit
<1>2. CASE ScriptStep
  BY <1>2 DEF ScriptStep, ScriptOpened, ScriptNotOpened, EndOfScript, LineRead,
     ScriptInterrupted, LineSkipped, LineExecuted, Returns, Accepted, DepthInv
<1>3. CASE PromptCancelled \/ Refused \/ CommandBegins \/ ExitCommand
  BY <1>3 DEF PromptCancelled, Refused, CommandBegins, ExitCommand, Exit, Returns
<1>4. CASE SleepEnds \/ ConnectEnds \/ PlainEnds \/ ForegroundEnds \/ BackgroundStarts
           \/ StopEnds
  BY <1>4 DEF SleepEnds, ConnectEnds, PlainEnds, ForegroundEnds, BackgroundStarts,
     StopEnds, Returns
<1>5. CASE NextLine \/ ScriptFails \/ BatchEnds \/ BackToPrompt
  BY <1>5 DEF NextLine, ScriptFails, BatchEnds, BackToPrompt, Exit
<1>6. CASE ReadoutEnds \/ Exited \/ UNCHANGED vars
  BY <1>6 DEF ReadoutEnds, Exited, vars
<1> QED
  BY <1>1, <1>2, <1>3, <1>4, <1>5, <1>6 DEF Next, ShellStep

\* Every step keeps the flags Boolean.
LEMMA FlagTypeStep ==
  ASSUME TypeOK, [Next]_vars
  PROVE  FlagType'
<1> USE DEF TypeOK, FlagType, historyVars
<1>1. CASE OperatorStep
  BY <1>1 DEF OperatorStep, SigintRaised, EndOfInput, LineEntered, Exit
<1>2. CASE ScriptStep
  BY <1>2 DEF ScriptStep, ScriptOpened, ScriptNotOpened, EndOfScript, LineRead,
     ScriptInterrupted, LineSkipped, LineExecuted, Returns
<1>3. CASE PromptCancelled \/ Refused \/ CommandBegins \/ ExitCommand
  BY <1>3 DEF PromptCancelled, Refused, CommandBegins, ExitCommand, Exit, Returns
<1>4. CASE SleepEnds \/ ConnectEnds \/ PlainEnds \/ ForegroundEnds \/ BackgroundStarts
           \/ StopEnds
  BY <1>4 DEF SleepEnds, ConnectEnds, PlainEnds, ForegroundEnds, BackgroundStarts,
     StopEnds, Returns
<1>5. CASE NextLine \/ ScriptFails \/ BatchEnds \/ BackToPrompt
  BY <1>5 DEF NextLine, ScriptFails, BatchEnds, BackToPrompt, Exit
<1>6. CASE ReadoutEnds \/ Exited \/ UNCHANGED vars
  BY <1>6 DEF ReadoutEnds, Exited, vars
<1> QED
  BY <1>1, <1>2, <1>3, <1>4, <1>5, <1>6 DEF Next, ShellStep

\* Every step keeps every variable in its type.
LEMMA TypeStep ==
  ASSUME TypeOK, DepthInv, [Next]_vars
  PROVE  TypeOK'
BY PlaceTypeStep, DepthTypeStep, FlagTypeStep DEF TypeOK

\* A return statement ends a command that was not preceded by a failure.
LEMMA ReturnsLemma ==
  ASSUME TypeOK, ResultInv, pc \notin {"return", "exited"}, NEW ok \in BOOLEAN, Returns(ok)
  PROVE  ResultInv'
<1>1. failed = FALSE
  BY DEF ResultInv, FailFast, TypeOK, FlagType
<1>2. CASE ok = TRUE
  BY <1>1, <1>2 DEF Returns, ResultInv, FailFast, ExitCodeTells
<1>3. CASE ok = FALSE
  BY <1>1, <1>3 DEF Returns, ResultInv, FailFast, ExitCodeTells
<1> QED
  BY <1>2, <1>3

\* Every step keeps what is known of the value being returned.
LEMMA ResultStep ==
  ASSUME TypeOK, ResultInv, [Next]_vars
  PROVE  ResultInv'
<1>1. CASE SigintRaised \/ \E word \in Words : LineEntered(word)
  BY <1>1 DEF SigintRaised, LineEntered, ResultInv, FailFast, ExitCodeTells
<1>2. CASE EndOfInput \/ ExitCommand
  BY <1>2 DEF EndOfInput, ExitCommand, Exit, historyVars, ResultInv, FailFast, ExitCodeTells
<1>3. ASSUME NEW ok \in BOOLEAN, pc \notin {"return", "exited"}, Returns(ok)
      PROVE  ResultInv'
  BY <1>3, ReturnsLemma
<1>4. CASE Refused \/ ScriptNotOpened \/ EndOfScript \/ ScriptInterrupted
  BY <1>3, <1>4 DEF Refused, ScriptNotOpened, EndOfScript, ScriptInterrupted
<1>5. CASE SleepEnds
  <2>1. pc \notin {"return", "exited"} /\ Returns(~interrupted)
    BY <1>5 DEF SleepEnds
  <2>2. (~interrupted) \in BOOLEAN
    OBVIOUS
  <2> QED BY <1>3, <2>1, <2>2
<1>6. CASE ConnectEnds \/ ForegroundEnds
  <2>1. pc \notin {"return", "exited"} /\ \E ok \in BOOLEAN : Returns(ok /\ ~interrupted)
    BY <1>6 DEF ConnectEnds, ForegroundEnds
  <2>2. PICK ok \in BOOLEAN : Returns(ok /\ ~interrupted)
    BY <2>1
  <2>3. (ok /\ ~interrupted) \in BOOLEAN
    OBVIOUS
  <2> QED BY <1>3, <2>1, <2>2, <2>3
<1>7. CASE PlainEnds \/ BackgroundStarts \/ StopEnds
  BY <1>3, <1>7 DEF PlainEnds, BackgroundStarts, StopEnds, TypeOK, FlagType
<1>8. CASE ScriptOpened \/ LineRead \/ LineSkipped \/ \E word \in Words : LineExecuted(word)
  BY <1>8 DEF ScriptOpened, LineRead, LineSkipped, LineExecuted, historyVars, ResultInv,
     FailFast, ExitCodeTells
<1>9. CASE PromptCancelled \/ CommandBegins
  BY <1>9 DEF PromptCancelled, CommandBegins, historyVars, ResultInv, FailFast, ExitCodeTells
<1>10. CASE NextLine \/ ScriptFails \/ BackToPrompt
  BY <1>10 DEF NextLine, ScriptFails, BackToPrompt, historyVars, ResultInv, FailFast,
     ExitCodeTells
<1>11. CASE BatchEnds
  BY <1>11 DEF BatchEnds, Exit, historyVars, ResultInv, FailFast, ExitCodeTells
<1>12. CASE ReadoutEnds \/ Exited \/ UNCHANGED vars
  BY <1>12 DEF ReadoutEnds, Exited, vars, historyVars, ResultInv, FailFast, ExitCodeTells
<1> QED
  BY <1>1, <1>2, <1>4, <1>5, <1>6, <1>7, <1>8, <1>9, <1>10, <1>11, <1>12
     DEF Next, OperatorStep, ShellStep, ScriptStep

\* Every step keeps the depth within what the position allows.
LEMMA DepthStep ==
  ASSUME TypeOK, DepthInv, [Next]_vars
  PROVE  DepthInv'
<1> USE ScriptAssumption DEF DepthInv, DepthType, historyVars
<1>1. CASE OperatorStep
  BY <1>1 DEF OperatorStep, SigintRaised, EndOfInput, LineEntered, Exit, TypeOK
<1>2. CASE ScriptStep
  BY <1>2 DEF ScriptStep, ScriptOpened, ScriptNotOpened, EndOfScript, LineRead,
     ScriptInterrupted, LineSkipped, LineExecuted, Returns, TypeOK
<1>3. CASE PromptCancelled \/ Refused \/ CommandBegins \/ ExitCommand
  BY <1>3 DEF PromptCancelled, Refused, CommandBegins, Accepted, ExitCommand, Exit, Returns,
     TypeOK
<1>4. CASE SleepEnds \/ ConnectEnds \/ PlainEnds \/ ForegroundEnds \/ BackgroundStarts
           \/ StopEnds
  BY <1>4 DEF SleepEnds, ConnectEnds, PlainEnds, ForegroundEnds, BackgroundStarts,
     StopEnds, Returns
<1>5. CASE NextLine \/ ScriptFails \/ BatchEnds \/ BackToPrompt
  BY <1>5 DEF NextLine, ScriptFails, BatchEnds, BackToPrompt, Exit, TypeOK
<1>6. CASE ReadoutEnds \/ Exited \/ UNCHANGED vars
  BY <1>6 DEF ReadoutEnds, Exited, vars, historyVars
<1> QED
  BY <1>1, <1>2, <1>3, <1>4, <1>5, <1>6 DEF Next, ShellStep

\* A command that ends leaves a Ctrl-C pending or fails.
LEMMA ConsumedLemma ==
  ASSUME TypeOK, InterruptInv, pc = "running", NEW ok \in BOOLEAN, Returns(ok),
         interrupted => ~ok \/ interrupted'
  PROVE  InterruptInv'
<1>1. begun' <= 1 /\ (begun' > 0 => pressed' /\ pc' = "return")
  BY DEF Returns, InterruptInv
<1>2. pressed' => pc' # "prompt" /\ (interrupted' \/ failed')
  <2>1. pressed' => interrupted \/ failed
    BY DEF Returns, InterruptInv
  <2>2. failed => failed'
    BY DEF Returns
  <2>3. ~ok => failed'
    BY DEF Returns
  <2>4. pc' = "return"
    BY DEF Returns
  <2> QED BY <2>1, <2>2, <2>3, <2>4
<1> QED
  BY <1>1, <1>2 DEF InterruptInv

\* Every step keeps a Ctrl-C pending or turns it into a failure.
LEMMA InterruptStep ==
  ASSUME TypeOK, ResultInv, InterruptInv, [Next]_vars
  PROVE  InterruptInv'
<1> USE DEF InterruptInv, DepthType, FlagType
<1>1. CASE OperatorStep
  BY <1>1 DEF OperatorStep, SigintRaised, EndOfInput, LineEntered, Exit, historyVars, TypeOK
<1>2. CASE ScriptStep
  BY <1>2 DEF ScriptStep, ScriptOpened, ScriptNotOpened, EndOfScript, LineRead,
     ScriptInterrupted, LineSkipped, LineExecuted, Returns, historyVars, TypeOK,
     ResultInv, FailFast
<1>3. CASE PromptCancelled \/ Refused \/ CommandBegins \/ ExitCommand
  <2>1. CASE PromptCancelled
    <3>1. ~pressed
      BY <2>1 DEF PromptCancelled
    <3> QED BY <2>1, <3>1 DEF PromptCancelled, historyVars
  <2>2. CASE Refused
    BY <2>2 DEF Refused, Returns, TypeOK
  <2>3. CASE CommandBegins
    <3>1. begun = 0
      BY <2>3 DEF CommandBegins, TypeOK
    <3> QED BY <2>3, <3>1 DEF CommandBegins
  <2>4. CASE ExitCommand
    BY <2>4 DEF ExitCommand, Exit, historyVars
  <2> QED BY <1>3, <2>1, <2>2, <2>3, <2>4
<1>4. CASE SleepEnds
  <2>1. pc = "running" /\ Returns(~interrupted) /\ (~interrupted) \in BOOLEAN
    BY <1>4 DEF SleepEnds
  <2> QED BY <2>1, ConsumedLemma
<1>5. CASE ConnectEnds \/ ForegroundEnds
  <2>1. pc = "running" /\ \E ok \in BOOLEAN : Returns(ok /\ ~interrupted)
    BY <1>5 DEF ConnectEnds, ForegroundEnds
  <2>2. PICK ok \in BOOLEAN : Returns(ok /\ ~interrupted)
    BY <2>1
  <2>3. (ok /\ ~interrupted) \in BOOLEAN
    OBVIOUS
  <2> QED BY <2>1, <2>2, <2>3, ConsumedLemma
<1>6. CASE PlainEnds \/ BackgroundStarts \/ StopEnds
  <2>1. pc = "running" /\ interrupted' = interrupted /\ \E ok \in BOOLEAN : Returns(ok)
    BY <1>6 DEF PlainEnds, BackgroundStarts, StopEnds, TypeOK
  <2> QED BY <2>1, ConsumedLemma
<1>7. CASE NextLine \/ ScriptFails \/ BatchEnds \/ BackToPrompt
  BY <1>7 DEF NextLine, ScriptFails, BatchEnds, BackToPrompt, Exit, historyVars, TypeOK
<1>8. CASE ReadoutEnds \/ Exited \/ UNCHANGED vars
  BY <1>8 DEF ReadoutEnds, Exited, vars, historyVars
<1> QED
  BY <1>1, <1>2, <1>3, <1>4, <1>5, <1>6, <1>7, <1>8 DEF Next, ShellStep

-----------------------------------------------------------------------------
\* The invariant holds of every behaviour.
THEOREM Invariance == Spec => []Inv
<1>1. Inv /\ [Next]_vars => Inv'
  BY TypeStep, ResultStep, DepthStep, InterruptStep DEF Inv
<1> QED
  BY InitInv, <1>1, PTL DEF Spec

\* Every variable keeps its type, and recursion its limit.
THEOREM TypeCorrect == Spec => []TypeOK
<1>1. Inv => TypeOK
  BY DEF Inv
<1> QED
  BY Invariance, <1>1, PTL

\* No command begins once one has failed (fail fast).
THEOREM FailFastCorrect == Spec => []FailFast
<1>1. Inv => FailFast
  BY DEF Inv, ResultInv
<1> QED
  BY Invariance, <1>1, PTL

\* After a Ctrl-C at most the command whose line was already read begins.
THEOREM InterruptCorrect == Spec => []InterruptStopsScript
<1>1. Inv => InterruptStopsScript
  BY DEF Inv, InterruptInv, InterruptStopsScript
<1> QED
  BY Invariance, <1>1, PTL

\* The exit code of a batch run tells whether it failed.
THEOREM ExitCodeCorrect == Spec => []ExitCodeTells
<1>1. Inv => ExitCodeTells
  BY DEF Inv, ResultInv
<1> QED
  BY Invariance, <1>1, PTL

=============================================================================
