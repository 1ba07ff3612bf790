--------------------------- MODULE Readout_proofs ---------------------------
(***************************************************************************)
(* Proofs about Readout, for every set of detectors, every duration and    *)
(* interval and every bound.                                               *)
(***************************************************************************)
EXTENDS ReadoutInvariant, TLAPS

\* Every lemma may use the types of the constants, the groups of variables and
\* the transitions of the three program counters.
USE ReadoutAssumption
USE DEF vars, shellVars, signalVars, flagVars, workerVars, readerVars, serverVars,
        ShellAt, ShellGoes, WorkerGoes, GiveUp, ReaderGoes, FrameArrives

\* Recording a message keeps a status a status and touches nothing else of it.
LEMMA MessageLemma ==
  ASSUME NEW s \in Status
  PROVE  /\ WithMessage(s) \in Status
         /\ WithMessage(s).frames = s.frames /\ WithMessage(s).job = s.job
         /\ WithMessage(s).prefix = s.prefix /\ WithMessage(s).started = s.started
         /\ WithMessage(s).hasResult = s.hasResult
         /\ WithMessage(s).succeeded = s.succeeded
         /\ WithMessage(s).stopRequested = s.stopRequested
         /\ WithMessage(s).messages > 0
BY DEF WithMessage, Status

\* A fresh status is a status without frames and without a result.
LEMMA FreshLemma ==
  ASSUME NEW job \in Jobs, NEW n \in Nat
  PROVE  /\ FreshStatus(job, n) \in Status
         /\ FreshStatus(job, n).frames = NoFrames /\ FreshStatus(job, n).job = job
         /\ FreshStatus(job, n).prefix = n /\ ~FreshStatus(job, n).hasResult
         /\ ~FreshStatus(job, n).started
BY DEF FreshStatus, Status, NoFrames

\* Counting a frame keeps a status a status and touches one counter of it.
LEMMA CountLemma ==
  ASSUME NEW s \in Status, NEW d \in Detectors
  PROVE  LET t == [s EXCEPT !.frames[d] = @ + 1]
         IN  /\ t \in Status
             /\ t.frames = [s.frames EXCEPT ![d] = @ + 1]
             /\ t.job = s.job /\ t.prefix = s.prefix /\ t.started = s.started
             /\ t.hasResult = s.hasResult /\ t.succeeded = s.succeeded
             /\ t.stopRequested = s.stopRequested /\ t.messages = s.messages
BY DEF Status

\* The outcome of a status is one of the four values the shell tells.
LEMMA ResultLemma ==
  ASSUME NEW s \in Status
  PROVE  /\ ResultOf(s) \in Results \union {"none"}
         /\ ResultOf(s) = "none" <=> ~s.hasResult
         /\ ResultOf(s) = "completed" <=> s.hasResult /\ s.succeeded
BY DEF ResultOf, Results, Status

\* What `readout status` prints is one of the texts it has.
LEMMA ReportLemma ==
  ASSUME NEW s \in [result : Results \union {"none"}, started : BOOLEAN],
         NEW b \in BOOLEAN, NEW c \in BOOLEAN
  PROVE  /\ ReportOf(s, b, c) \in Results \union {"unknown", "none", "starting", "running", "stopping"}
         /\ ReportOf(s, b, c) \in Results => ~b /\ ReportOf(s, b, c) = s.result
BY DEF ReportOf, Results

\* What each kind of step leaves alone.
LEMMA Untouched ==
  /\ SignalStep => UNCHANGED <<shellVars, active, setup, status, workerVars, readerVars,
                               serverVars>>
  /\ OperatorStep => UNCHANGED <<runs, report, active, setup, status, workerVars,
                                 readerVars, serverVars>>
  /\ WorkerStep => UNCHANGED <<shellVars, signalVars, stopReq, setup>>
  /\ FrameStep \/ ReaderStep => UNCHANGED <<shellVars, signalVars, flagVars, setup,
                                            workerVars, serverVars>>
  /\ ServerStep => UNCHANGED <<shellVars, signalVars, flagVars, setup, status, workerVars,
                               readerVars>>
<1>1. SignalStep => UNCHANGED <<shellVars, active, setup, status, workerVars, readerVars,
                                serverVars>>
  BY DEF SignalStep, SigintRaised, SigintForwarded
<1>2. OperatorStep => UNCHANGED <<runs, report, active, setup, status, workerVars,
                                  readerVars, serverVars>>
  BY DEF OperatorStep, PromptCancelled, StartCommand, StopCommand, StatusCommand,
         OtherCommand, Shutdown
<1>3. WorkerStep => UNCHANGED <<shellVars, signalVars, stopReq, setup>>
  BY DEF WorkerStep, OpenFiles, ReadFlag, FlagsRead, StartStream, SpawnReader, MarkStarted,
         LoopIteration, LoopExpired, StopStream, CancelStream, JoinReader, Return,
         Calibrate, FinishStatus, Deactivate
<1>4. FrameStep \/ ReaderStep => UNCHANGED <<shellVars, signalVars, flagVars, setup,
                                             workerVars, serverVars>>
  BY DEF FrameStep, FrameWritten, FrameDropped, FrameNotWritten, HkArrives, ReaderStep,
         FrameCounted, StopChecked, EndOfStream, ReaderFinished
<1>5. ServerStep => UNCHANGED <<shellVars, signalVars, flagVars, setup, status, workerVars,
                                readerVars>>
  BY DEF ServerStep, ServerCloses, ServerHangs
<1> QED BY <1>1, <1>2, <1>3, <1>4, <1>5

-----------------------------------------------------------------------------
(* Types.                                                                    *)
\* The shell thread's variables keep their types.
LEMMA ShellTypeStep ==
  ASSUME TypeOK, [Next]_vars
  PROVE  ShellType'
<1>1. CASE SignalStep \/ WorkerStep \/ FrameStep \/ ReaderStep \/ ServerStep
   \/ UNCHANGED vars
  BY <1>1, Untouched DEF TypeOK, ShellType, ShellPcs
<1>2. CASE OperatorStep
  <2>1. CASE StatusCommand
    BY <2>1, ResultLemma DEF StatusCommand, TypeOK, ShellType, ShellPcs,
       Status, JobType
  <2>2. CASE PromptCancelled \/ StartCommand \/ StopCommand \/ Shutdown \/ \E
     kind \in {"shared", "exclusive"} : OtherCommand(kind)
    BY <2>2 DEF PromptCancelled, StartCommand, StopCommand, OtherCommand,
       Shutdown, TypeOK, ShellType, ShellPcs
  <2> QED BY <1>2, <2>1, <2>2 DEF OperatorStep
<1>3. CASE CommandStep
  <2>1. ASSUME NEW job \in Jobs, NEW dets \in SUBSET Detectors, Prepared(job,
     dets) PROVE ShellType'
    BY <2>1 DEF Prepared, TypeOK, ShellType, ShellPcs
  <2>2. CASE StatusPrinted
    <3>1. snap' \in [result : Results \union {"none"}, started : BOOLEAN]
      BY <2>2 DEF StatusPrinted, NoSnap
    <3>2. report' \in Results \union
                        {"unknown", "none", "starting", "running", "stopping"}
      BY <2>2, ReportLemma DEF StatusPrinted, TypeOK, ShellType, FlagType
    <3>3. /\ shellPc' \in ShellPcs /\ runs' \in Nat
          /\ holder' \in {"none", "global", "local"}
      BY <2>2 DEF StatusPrinted, TypeOK, ShellType, ShellGoes, ShellPcs
    <3> QED BY <3>1, <3>2, <3>3 DEF ShellType
  <2>3. CASE LoopTop \/ PrepareFailed \/ Activate \/ Launch \/ StopStored \/
     StatusDone \/ OtherCommandDone \/ ShutdownJoined
    BY <2>3 DEF LoopTop, PrepareFailed, Activate, Launch, StopStored,
       StatusDone, OtherCommandDone, ShutdownJoined, TypeOK, ShellType,
       ShellPcs
  <2> QED BY <1>3, <2>1, <2>2, <2>3 DEF CommandStep
<1> QED
  BY <1>1, <1>2, <1>3 DEF Next, Exited

\* The flags keep their types.
LEMMA FlagTypeStep ==
  ASSUME TypeOK, [Next]_vars
  PROVE  FlagType'
<1>1. CASE FrameStep \/ ReaderStep \/ ServerStep \/ UNCHANGED vars
  BY <1>1, Untouched DEF TypeOK, FlagType
<1>2. CASE SignalStep
  BY <1>2 DEF SignalStep, SigintRaised, SigintForwarded, TypeOK, FlagType
<1>3. CASE OperatorStep
  BY <1>3 DEF OperatorStep, PromptCancelled, StartCommand, StopCommand,
     StatusCommand, OtherCommand, Shutdown, TypeOK, FlagType
<1>4. CASE CommandStep
  BY <1>4 DEF CommandStep, LoopTop, PrepareFailed, Prepared, Activate, Launch,
     StopStored, StatusPrinted, StatusDone, OtherCommandDone, ShutdownJoined,
     TypeOK, FlagType
<1>5. CASE WorkerStep
  BY <1>5 DEF WorkerStep, OpenFiles, ReadFlag, FlagsRead, StartStream,
     SpawnReader, MarkStarted, LoopIteration, LoopExpired, StopStream,
     CancelStream, JoinReader, Return, Verdict, Calibrate, FinishStatus,
     Deactivate, TypeOK, FlagType
<1> QED
  BY <1>1, <1>2, <1>3, <1>4, <1>5 DEF Next, Exited

\* The job and its status keep their types.
LEMMA JobTypeStep ==
  ASSUME TypeOK, [Next]_vars
  PROVE  JobType'
<1>1. CASE SignalStep \/ OperatorStep \/ ServerStep \/ UNCHANGED vars
  BY <1>1, Untouched DEF TypeOK, JobType
<1>2. CASE CommandStep
  <2>1. ASSUME NEW job \in Jobs, NEW dets \in SUBSET Detectors, Prepared(job,
     dets) PROVE JobType'
    BY <2>1, FreshLemma DEF Prepared, TypeOK, JobType, ShellType
  <2>2. CASE LoopTop \/ PrepareFailed \/ Activate \/ Launch \/ StopStored \/
     StatusPrinted \/ StatusDone \/ OtherCommandDone \/ ShutdownJoined
    BY <2>2 DEF LoopTop, PrepareFailed, Activate, Launch, StopStored,
       StatusPrinted, StatusDone, OtherCommandDone, ShutdownJoined, TypeOK,
       JobType
  <2> QED BY <1>2, <2>1, <2>2 DEF CommandStep
<1>3. CASE WorkerStep
  <2>1. CASE MarkStarted
    BY <2>1 DEF MarkStarted, TypeOK, JobType, Status
  <2>2. CASE FinishStatus
    BY <2>2 DEF FinishStatus, TypeOK, JobType, Status, FlagType, WorkerType
  <2>3. CASE OpenFiles \/ ReadFlag \/ FlagsRead \/ StartStream \/ SpawnReader
     \/ LoopIteration \/ LoopExpired \/ StopStream \/ CancelStream \/
     JoinReader \/ Return \/ Calibrate \/ Deactivate
    BY <2>3, MessageLemma DEF OpenFiles, ReadFlag, FlagsRead, StartStream,
       SpawnReader, LoopIteration, LoopExpired, StopStream, CancelStream,
       JoinReader, Return, Verdict, Calibrate, Deactivate, TypeOK, JobType
  <2> QED BY <1>3, <2>1, <2>2, <2>3 DEF WorkerStep
<1>4. CASE FrameStep
  BY <1>4, MessageLemma DEF FrameStep, FrameWritten, FrameDropped,
     FrameNotWritten, HkArrives, TypeOK, JobType
<1>5. CASE ReaderStep
  <2>1. CASE FrameCounted
    BY <2>1, CountLemma DEF FrameCounted, TypeOK, JobType, ReaderType
  <2>2. CASE StopChecked \/ EndOfStream \/ ReaderFinished
    BY <2>2, MessageLemma DEF StopChecked, EndOfStream, ReaderFinished,
       TypeOK, JobType
  <2> QED BY <1>5, <2>1, <2>2 DEF ReaderStep
<1> QED
  BY <1>1, <1>2, <1>3, <1>4, <1>5 DEF Next, Exited

\* The worker's variables keep their types.
LEMMA WorkerTypeStep ==
  ASSUME TypeOK, [Next]_vars
  PROVE  WorkerType'
<1>1. CASE SignalStep \/ OperatorStep \/ FrameStep \/ ReaderStep \/ ServerStep
   \/ UNCHANGED vars
  BY <1>1, Untouched DEF TypeOK, WorkerType, WorkerPcs, JobType
<1>2. CASE CommandStep
  <2>1. CASE Launch
    BY <2>1 DEF Launch, TypeOK, WorkerType, WorkerPcs, JobType
  <2>2. CASE LoopTop \/ PrepareFailed \/ Activate \/ StopStored \/
     StatusPrinted \/ StatusDone \/ OtherCommandDone \/ ShutdownJoined \/ \E
     job \in Jobs, dets \in SUBSET Detectors : Prepared(job, dets)
    BY <2>2 DEF LoopTop, PrepareFailed, Prepared, Activate, StopStored,
       StatusPrinted, StatusDone, OtherCommandDone, ShutdownJoined, TypeOK,
       WorkerType, WorkerPcs, JobType
  <2> QED BY <1>2, <2>1, <2>2 DEF CommandStep
<1>3. CASE WorkerStep
  <2>1. CASE ReadFlag
    BY <2>1 DEF ReadFlag, TypeOK, WorkerType, WorkerPcs, JobType
  <2>2. CASE LoopIteration
    BY <2>2 DEF LoopIteration, TypeOK, WorkerType, WorkerPcs, JobType
  <2>3. CASE Calibrate
    BY <2>3 DEF Calibrate, TypeOK, WorkerType, WorkerPcs, JobType
  <2>4. CASE OpenFiles \/ FlagsRead \/ StartStream \/ SpawnReader \/
     MarkStarted \/ LoopExpired \/ StopStream \/ CancelStream \/ JoinReader \/
     Return \/ FinishStatus \/ Deactivate
    BY <2>4 DEF OpenFiles, FlagsRead, StartStream, SpawnReader, MarkStarted,
       LoopExpired, StopStream, CancelStream, JoinReader, Return, Verdict,
       FinishStatus, Deactivate, TypeOK, WorkerType, WorkerPcs, JobType
  <2> QED BY <1>3, <2>1, <2>2, <2>3, <2>4 DEF WorkerStep
<1> QED
  BY <1>1, <1>2, <1>3 DEF Next, Exited

\* The reader's variables keep their types.
LEMMA ReaderTypeStep ==
  ASSUME TypeOK, [Next]_vars
  PROVE  ReaderType'
<1>1. CASE SignalStep \/ OperatorStep \/ ServerStep \/ UNCHANGED vars
  BY <1>1, Untouched DEF TypeOK, ReaderType, ReaderPcs, NoFrames
<1>2. CASE CommandStep
  <2>1. CASE Launch
    BY <2>1 DEF Launch, TypeOK, ReaderType, ReaderPcs, NoFrames
  <2>2. CASE LoopTop \/ PrepareFailed \/ Activate \/ StopStored \/
     StatusPrinted \/ StatusDone \/ OtherCommandDone \/ ShutdownJoined \/ \E
     job \in Jobs, dets \in SUBSET Detectors : Prepared(job, dets)
    BY <2>2 DEF LoopTop, PrepareFailed, Prepared, Activate, StopStored,
       StatusPrinted, StatusDone, OtherCommandDone, ShutdownJoined, TypeOK,
       ReaderType, ReaderPcs, NoFrames
  <2> QED BY <1>2, <2>1, <2>2 DEF CommandStep
<1>3. CASE WorkerStep
  BY <1>3 DEF WorkerStep, OpenFiles, ReadFlag, FlagsRead, StartStream,
     SpawnReader, MarkStarted, LoopIteration, LoopExpired, StopStream,
     CancelStream, JoinReader, Return, Verdict, Calibrate, FinishStatus,
     Deactivate, TypeOK, ReaderType, ReaderPcs, NoFrames
<1>4. CASE FrameStep
  <2>1. readerPc' \in ReaderPcs /\ sent' \in Nat
    BY <1>4 DEF FrameStep, FrameWritten, FrameDropped, FrameNotWritten, HkArrives,
                FrameArrives, ReaderGoes, TypeOK, ReaderType, ReaderPcs
  <2>2. readFailed' \in BOOLEAN /\ source' \in Detectors
    BY <1>4 DEF FrameStep, FrameWritten, FrameDropped, FrameNotWritten, HkArrives,
                TypeOK, ReaderType
  <2>3. written' \in [Detectors -> Nat]
    BY <1>4 DEF FrameStep, FrameWritten, FrameDropped, FrameNotWritten, HkArrives,
                TypeOK, ReaderType
  <2> QED BY <2>1, <2>2, <2>3 DEF ReaderType
<1>5. CASE ReaderStep
  BY <1>5 DEF ReaderStep, FrameCounted, StopChecked, EndOfStream,
     ReaderFinished, TypeOK, ReaderType, ReaderPcs, NoFrames
<1> QED
  BY <1>1, <1>2, <1>3, <1>4, <1>5 DEF Next, Exited

\* The server's variables keep their types.
LEMMA ServerTypeStep ==
  ASSUME TypeOK, [Next]_vars
  PROVE  ServerType'
<1>1. CASE SignalStep \/ OperatorStep \/ FrameStep \/ ReaderStep \/ UNCHANGED
   vars
  BY <1>1, Untouched DEF TypeOK, ServerType
<1>2. CASE CommandStep
  BY <1>2 DEF CommandStep, LoopTop, PrepareFailed, Prepared, Activate, Launch,
     StopStored, StatusPrinted, StatusDone, OtherCommandDone, ShutdownJoined,
     TypeOK, ServerType
<1>3. CASE WorkerStep
  BY <1>3 DEF WorkerStep, OpenFiles, ReadFlag, FlagsRead, StartStream,
     SpawnReader, MarkStarted, LoopIteration, LoopExpired, StopStream,
     CancelStream, JoinReader, Return, Verdict, Calibrate, FinishStatus,
     Deactivate, TypeOK, ServerType
<1>4. CASE ServerStep
  BY <1>4 DEF ServerStep, ServerCloses, ServerHangs, TypeOK, ServerType
<1> QED
  BY <1>1, <1>2, <1>3, <1>4 DEF Next, Exited

\* Every step keeps every variable in its type.
LEMMA TypeStep ==
  ASSUME TypeOK, [Next]_vars
  PROVE  TypeOK'
BY ShellTypeStep, FlagTypeStep, JobTypeStep, WorkerTypeStep, ReaderTypeStep,
   ServerTypeStep DEF TypeOK

-----------------------------------------------------------------------------
(* The other parts of the invariant, in the order in which they depend on   *)
(* one another.                                                              *)

\* The worker thread has one owner, and the active flag covers its life.
LEMMA OwnershipStep ==
  ASSUME TypeOK, Ownership, [Next]_vars
  PROVE  Ownership'
<1>1. CASE FrameStep \/ ReaderStep \/ ServerStep \/ UNCHANGED vars
  BY <1>1, Untouched DEF Ownership, WorkerStopped
<1>2. CASE SignalStep
  BY <1>2 DEF SignalStep, SigintRaised, SigintForwarded, Ownership,
     WorkerStopped
<1>3. CASE OperatorStep
  BY <1>3 DEF OperatorStep, PromptCancelled, StartCommand, StopCommand,
     StatusCommand, OtherCommand, Shutdown, Ownership, WorkerStopped
<1>4. CASE CommandStep
  BY <1>4 DEF CommandStep, LoopTop, PrepareFailed, Prepared, Activate, Launch,
     StopStored, StatusPrinted, StatusDone, OtherCommandDone, ShutdownJoined,
     Ownership, WorkerStopped
<1>5. CASE WorkerStep
  BY <1>5 DEF WorkerStep, OpenFiles, ReadFlag, FlagsRead, StartStream,
     SpawnReader, MarkStarted, LoopIteration, LoopExpired, StopStream,
     CancelStream, JoinReader, Return, Verdict, Calibrate, FinishStatus,
     Deactivate, Ownership, WorkerStopped
<1> QED
  BY <1>1, <1>2, <1>3, <1>4, <1>5 DEF Next, Exited

\* The reader lives between its spawning and its join.
LEMMA LifetimeStep ==
  ASSUME TypeOK, Ownership, ReaderLifetime, [Next]_vars
  PROVE  ReaderLifetime'
<1>1. CASE SignalStep \/ OperatorStep \/ UNCHANGED vars
  BY <1>1, Untouched DEF Ownership, ReaderLifetime, ReaderWithinScope,
     WorkerStopped, ReaderStopped
<1>2. CASE CommandStep
  BY <1>2 DEF CommandStep, LoopTop, PrepareFailed, Prepared, Activate, Launch,
     StopStored, StatusPrinted, StatusDone, OtherCommandDone, ShutdownJoined,
     Ownership, ReaderLifetime, ReaderWithinScope, WorkerStopped,
     ReaderStopped
<1>3. CASE WorkerStep
  BY <1>3 DEF WorkerStep, OpenFiles, ReadFlag, FlagsRead, StartStream,
     SpawnReader, MarkStarted, LoopIteration, LoopExpired, StopStream,
     CancelStream, JoinReader, Return, Verdict, Calibrate, FinishStatus,
     Deactivate, Ownership, ReaderLifetime, ReaderWithinScope, WorkerStopped,
     ReaderStopped
<1>4. CASE FrameStep
  BY <1>4 DEF FrameStep, FrameWritten, FrameDropped, FrameNotWritten,
     HkArrives, Ownership, ReaderLifetime, ReaderWithinScope, WorkerStopped,
     ReaderStopped
<1>5. CASE ReaderStep
  BY <1>5 DEF ReaderStep, FrameCounted, StopChecked, EndOfStream,
     ReaderFinished, Ownership, ReaderLifetime, ReaderWithinScope,
     WorkerStopped, ReaderStopped
<1>6. CASE ServerStep
  BY <1>6 DEF ServerStep, ServerCloses, ServerHangs, Ownership,
     ReaderLifetime, ReaderWithinScope, WorkerStopped, ReaderStopped
<1> QED
  BY <1>1, <1>2, <1>3, <1>4, <1>5, <1>6 DEF Next, Exited

\* What a return statement found out stays true until the next job.
LEMMA VerdictsStep ==
  ASSUME TypeOK, Ownership, ReaderLifetime, Verdicts, [Next]_vars
  PROVE  Verdicts'
<1>1. CASE SignalStep \/ OperatorStep \/ UNCHANGED vars
  BY <1>1, Untouched DEF Ownership, ReaderLifetime, ReaderWithinScope,
     Verdicts, BeforeReturn, WorkerStopped, ReaderStopped
<1>2. CASE CommandStep
  BY <1>2 DEF CommandStep, LoopTop, PrepareFailed, Prepared, Activate, Launch,
     StopStored, StatusPrinted, StatusDone, OtherCommandDone, ShutdownJoined,
     Ownership, ReaderLifetime, ReaderWithinScope, Verdicts, BeforeReturn,
     WorkerStopped, ReaderStopped
<1>3. CASE WorkerStep
  <2>1. CASE StartStream
    <3>1. returned = "none" /\ ~succeeded
      BY <2>1 DEF StartStream, Verdicts, BeforeReturn
    <3>2. /\ workerPc' \in {"reader", "finish"} /\ succeeded' = FALSE
          /\ returned' \in {"none", "error"}
      BY <2>1, <3>1 DEF StartStream, GiveUp, WorkerGoes, TypeOK, WorkerType
    <3>3. workerPc' = "reader" => returned' = "none"
      BY <2>1, <3>1 DEF StartStream, GiveUp, WorkerGoes
    <3> QED BY <3>2, <3>3 DEF Verdicts, BeforeReturn
  <2>2. CASE StopStream
    BY <2>2 DEF StopStream, Ownership, ReaderLifetime, ReaderWithinScope,
       Verdicts, BeforeReturn, WorkerStopped, ReaderStopped
  <2>3. CASE Return
    BY <2>3 DEF Return, Verdict, Ownership, ReaderLifetime, ReaderWithinScope,
       Verdicts, BeforeReturn, WorkerStopped, ReaderStopped
  <2>4. CASE Calibrate
    BY <2>4 DEF Calibrate, Ownership, ReaderLifetime, ReaderWithinScope,
       Verdicts, BeforeReturn, WorkerStopped, ReaderStopped
  <2>5. CASE OpenFiles \/ ReadFlag \/ FlagsRead \/ SpawnReader \/ MarkStarted
     \/ LoopIteration \/ LoopExpired \/ CancelStream \/ JoinReader \/
     FinishStatus \/ Deactivate
    BY <2>5 DEF OpenFiles, ReadFlag, FlagsRead, SpawnReader, MarkStarted,
       LoopIteration, LoopExpired, CancelStream, JoinReader, FinishStatus,
       Deactivate, Ownership, ReaderLifetime, ReaderWithinScope, Verdicts,
       BeforeReturn, WorkerStopped, ReaderStopped
  <2> QED BY <1>3, <2>1, <2>2, <2>3, <2>4, <2>5 DEF WorkerStep
<1>4. CASE FrameStep
  BY <1>4 DEF FrameStep, FrameWritten, FrameDropped, FrameNotWritten,
     HkArrives, Ownership, ReaderLifetime, ReaderWithinScope, Verdicts,
     BeforeReturn, WorkerStopped, ReaderStopped
<1>5. CASE ReaderStep
  BY <1>5 DEF ReaderStep, FrameCounted, StopChecked, EndOfStream,
     ReaderFinished, Ownership, ReaderLifetime, ReaderWithinScope, Verdicts,
     BeforeReturn, WorkerStopped, ReaderStopped
<1>6. CASE ServerStep
  BY <1>6 DEF ServerStep, ServerCloses, ServerHangs, Ownership,
     ReaderLifetime, ReaderWithinScope, Verdicts, BeforeReturn, WorkerStopped,
     ReaderStopped
<1> QED
  BY <1>1, <1>2, <1>3, <1>4, <1>5, <1>6 DEF Next, Exited

\* A frame is counted after it is written, and only once.
LEMMA AccountingStep ==
  ASSUME TypeOK, Ownership, ReaderLifetime, Accounting, [Next]_vars
  PROVE  Accounting'
<1>1. CASE SignalStep \/ ServerStep \/ UNCHANGED vars
  BY <1>1, Untouched DEF Ownership, Accounting, Pending, TypeOK, JobType,
     WorkerStopped, ReaderLifetime, ReaderWithinScope, ReaderStopped
<1>2. CASE OperatorStep
  BY <1>2 DEF OperatorStep, PromptCancelled, StartCommand, StopCommand,
     StatusCommand, OtherCommand, Shutdown, Ownership, Accounting, Pending,
     TypeOK, JobType, WorkerStopped, ReaderLifetime, ReaderWithinScope,
     ReaderStopped
<1>3. CASE CommandStep
  <2>1. ASSUME NEW job \in Jobs, NEW dets \in SUBSET Detectors, Prepared(job,
     dets) PROVE Accounting'
    BY <2>1, FreshLemma DEF Prepared, Ownership, Accounting, Pending, TypeOK,
       JobType, WorkerStopped, ReaderLifetime, ReaderWithinScope,
       ReaderStopped, ShellType
  <2>2. CASE Launch
    BY <2>2 DEF Launch, Ownership, Accounting, Pending, TypeOK, JobType,
       WorkerStopped, ReaderLifetime, ReaderWithinScope, ReaderStopped,
       NoFrames
  <2>3. CASE LoopTop \/ PrepareFailed \/ Activate \/ StopStored \/
     StatusPrinted \/ StatusDone \/ OtherCommandDone \/ ShutdownJoined
    BY <2>3 DEF LoopTop, PrepareFailed, Activate, StopStored, StatusPrinted,
       StatusDone, OtherCommandDone, ShutdownJoined, Ownership, Accounting,
       Pending, TypeOK, JobType, WorkerStopped, ReaderLifetime,
       ReaderWithinScope, ReaderStopped
  <2> QED BY <1>3, <2>1, <2>2, <2>3 DEF CommandStep
<1>4. CASE WorkerStep
  <2>1. CASE MarkStarted
    BY <2>1 DEF MarkStarted, Ownership, Accounting, Pending, TypeOK, JobType,
       WorkerStopped, ReaderLifetime, ReaderWithinScope, ReaderStopped, Status
  <2>2. CASE FinishStatus
    BY <2>2 DEF FinishStatus, Ownership, Accounting, Pending, TypeOK, JobType,
       WorkerStopped, ReaderLifetime, ReaderWithinScope, ReaderStopped, Status
  <2>3. CASE OpenFiles \/ ReadFlag \/ FlagsRead \/ StartStream \/ SpawnReader
     \/ LoopIteration \/ LoopExpired \/ StopStream \/ CancelStream \/
     JoinReader \/ Return \/ Calibrate \/ Deactivate
    BY <2>3, MessageLemma DEF OpenFiles, ReadFlag, FlagsRead, StartStream,
       SpawnReader, LoopIteration, LoopExpired, StopStream, CancelStream,
       JoinReader, Return, Verdict, Calibrate, Deactivate, Ownership,
       Accounting, Pending, TypeOK, JobType, WorkerStopped, ReaderLifetime,
       ReaderWithinScope, ReaderStopped
  <2> QED BY <1>4, <2>1, <2>2, <2>3 DEF WorkerStep
<1>5. CASE FrameStep
  <2>1. ASSUME NEW d \in Detectors, FrameWritten(d) PROVE Accounting'
    BY <2>1 DEF FrameWritten, Ownership, Accounting, Pending, TypeOK, JobType,
       WorkerStopped, ReaderLifetime, ReaderWithinScope, ReaderStopped,
       ReaderType, Status
  <2>2. CASE FrameDropped \/ FrameNotWritten \/ HkArrives
    BY <2>2, MessageLemma DEF FrameDropped, FrameNotWritten, HkArrives,
       Ownership, Accounting, Pending, TypeOK, JobType, WorkerStopped,
       ReaderLifetime, ReaderWithinScope, ReaderStopped
  <2> QED BY <1>5, <2>1, <2>2 DEF FrameStep
<1>6. CASE ReaderStep
  <2>1. CASE FrameCounted
    BY <2>1, CountLemma DEF FrameCounted, Ownership, Accounting, Pending,
       TypeOK, JobType, WorkerStopped, ReaderLifetime, ReaderWithinScope,
       ReaderStopped, ReaderType, Status
  <2>2. CASE StopChecked \/ EndOfStream \/ ReaderFinished
    BY <2>2, MessageLemma DEF StopChecked, EndOfStream, ReaderFinished,
       Ownership, Accounting, Pending, TypeOK, JobType, WorkerStopped,
       ReaderLifetime, ReaderWithinScope, ReaderStopped
  <2> QED BY <1>6, <2>1, <2>2 DEF ReaderStep
<1> QED
  BY <1>1, <1>2, <1>3, <1>4, <1>5, <1>6 DEF Next, Exited

\* The status is that of the last job and gets its result at its end.
LEMMA CurrentStep ==
  ASSUME TypeOK, Ownership, ReaderLifetime, Verdicts, StatusCurrent, [Next]_vars
  PROVE  StatusCurrent'
<1>1. CASE SignalStep \/ ServerStep \/ UNCHANGED vars
  BY <1>1, Untouched DEF Ownership, StatusCurrent, TypeOK, JobType,
     ReaderLifetime, ReaderWithinScope, Verdicts, BeforeReturn, ReaderStopped,
     WorkerStopped
<1>2. CASE OperatorStep
  BY <1>2 DEF OperatorStep, PromptCancelled, StartCommand, StopCommand,
     StatusCommand, OtherCommand, Shutdown, Ownership, StatusCurrent, TypeOK,
     JobType, ReaderLifetime, ReaderWithinScope, Verdicts, BeforeReturn,
     ReaderStopped, WorkerStopped
<1>3. CASE CommandStep
  <2>1. ASSUME NEW job \in Jobs, NEW dets \in SUBSET Detectors, Prepared(job,
     dets) PROVE StatusCurrent'
    BY <2>1, FreshLemma DEF Prepared, Ownership, StatusCurrent, TypeOK,
       JobType, ReaderLifetime, ReaderWithinScope, Verdicts, BeforeReturn,
       ReaderStopped, WorkerStopped, ShellType
  <2>2. CASE LoopTop \/ PrepareFailed \/ Activate \/ Launch \/ StopStored \/
     StatusPrinted \/ StatusDone \/ OtherCommandDone \/ ShutdownJoined
    BY <2>2 DEF LoopTop, PrepareFailed, Activate, Launch, StopStored,
       StatusPrinted, StatusDone, OtherCommandDone, ShutdownJoined, Ownership,
       StatusCurrent, TypeOK, JobType, ReaderLifetime, ReaderWithinScope,
       Verdicts, BeforeReturn, ReaderStopped, WorkerStopped
  <2> QED BY <1>3, <2>1, <2>2 DEF CommandStep
<1>4. CASE WorkerStep
  <2>1. CASE MarkStarted
    BY <2>1 DEF MarkStarted, Ownership, StatusCurrent, TypeOK, JobType,
       ReaderLifetime, ReaderWithinScope, Verdicts, BeforeReturn,
       ReaderStopped, WorkerStopped, Status
  <2>2. CASE FinishStatus
    BY <2>2 DEF FinishStatus, Ownership, StatusCurrent, TypeOK, JobType,
       ReaderLifetime, ReaderWithinScope, Verdicts, BeforeReturn,
       ReaderStopped, WorkerStopped, Status
  <2>3. CASE OpenFiles \/ ReadFlag \/ FlagsRead \/ StartStream \/ SpawnReader
     \/ LoopIteration \/ LoopExpired \/ StopStream \/ CancelStream \/
     JoinReader \/ Return \/ Calibrate \/ Deactivate
    BY <2>3, MessageLemma DEF OpenFiles, ReadFlag, FlagsRead, StartStream,
       SpawnReader, LoopIteration, LoopExpired, StopStream, CancelStream,
       JoinReader, Return, Verdict, Calibrate, Deactivate, Ownership,
       StatusCurrent, TypeOK, JobType, ReaderLifetime, ReaderWithinScope,
       Verdicts, BeforeReturn, ReaderStopped, WorkerStopped
  <2> QED BY <1>4, <2>1, <2>2, <2>3 DEF WorkerStep
<1>5. CASE FrameStep
  BY <1>5, MessageLemma DEF FrameStep, FrameWritten, FrameDropped,
     FrameNotWritten, HkArrives, Ownership, StatusCurrent, TypeOK, JobType,
     ReaderLifetime, ReaderWithinScope, Verdicts, BeforeReturn, ReaderStopped,
     WorkerStopped
<1>6. CASE ReaderStep
  <2>1. CASE FrameCounted
    BY <2>1, CountLemma DEF FrameCounted, Ownership, StatusCurrent, TypeOK,
       JobType, ReaderLifetime, ReaderWithinScope, Verdicts, BeforeReturn,
       ReaderStopped, WorkerStopped, ReaderType
  <2>2. CASE StopChecked \/ EndOfStream \/ ReaderFinished
    BY <2>2, MessageLemma DEF StopChecked, EndOfStream, ReaderFinished,
       Ownership, StatusCurrent, TypeOK, JobType, ReaderLifetime,
       ReaderWithinScope, Verdicts, BeforeReturn, ReaderStopped, WorkerStopped
  <2> QED BY <1>6, <2>1, <2>2 DEF ReaderStep
<1> QED
  BY <1>1, <1>2, <1>3, <1>4, <1>5, <1>6 DEF Next, Exited

\* A recorded result is final: until the shell resets the status for another
\* job, no step of any thread changes it.
LEMMA FinalStep ==
  ASSUME TypeOK, Ownership, ReaderLifetime, StatusCurrent, [Next]_vars, status.hasResult,
         shellPc # "prepare"
  PROVE  status' = status
<1>1. CASE SignalStep \/ OperatorStep \/ ServerStep \/ UNCHANGED vars
  BY <1>1, Untouched DEF Ownership, StatusCurrent, ReaderLifetime,
     ReaderWithinScope, WorkerStopped, ReaderStopped
<1>2. CASE CommandStep
  BY <1>2 DEF CommandStep, LoopTop, PrepareFailed, Prepared, Activate, Launch,
     StopStored, StatusPrinted, StatusDone, OtherCommandDone, ShutdownJoined,
     Ownership, StatusCurrent, ReaderLifetime, ReaderWithinScope,
     WorkerStopped, ReaderStopped
<1>3. CASE WorkerStep
  BY <1>3 DEF WorkerStep, OpenFiles, ReadFlag, FlagsRead, StartStream,
     SpawnReader, MarkStarted, LoopIteration, LoopExpired, StopStream,
     CancelStream, JoinReader, Return, Verdict, Calibrate, FinishStatus,
     Deactivate, Ownership, StatusCurrent, ReaderLifetime, ReaderWithinScope,
     WorkerStopped, ReaderStopped
<1>4. CASE FrameStep
  BY <1>4 DEF FrameStep, FrameWritten, FrameDropped, FrameNotWritten,
     HkArrives, Ownership, StatusCurrent, ReaderLifetime, ReaderWithinScope,
     WorkerStopped, ReaderStopped
<1>5. CASE ReaderStep
  BY <1>5 DEF ReaderStep, FrameCounted, StopChecked, EndOfStream,
     ReaderFinished, Ownership, StatusCurrent, ReaderLifetime,
     ReaderWithinScope, WorkerStopped, ReaderStopped
<1> QED
  BY <1>1, <1>2, <1>3, <1>4, <1>5 DEF Next, Exited

\* A result that was read or printed stays the recorded result: what other
\* threads do to the status happens before it has a result.
LEMMA SnapshotStep ==
  ASSUME TypeOK, Ownership, ReaderLifetime, StatusCurrent, SnapshotCurrent, [Next]_vars
  PROVE  SnapshotCurrent'
<1>1. /\ status \in Status /\ report \in Results \union {"unknown", "none", "starting", "running", "stopping"}
      /\ snap \in [result : Results \union {"none"}, started : BOOLEAN]
      /\ active \in BOOLEAN /\ stopReq \in BOOLEAN
  BY DEF TypeOK, ShellType, JobType, FlagType
<1>2. shellPc = "status" /\ snap.result # "none" => status.hasResult
  BY <1>1, ResultLemma DEF SnapshotCurrent
<1>3. shellPc = "reported" /\ report \in Results => status.hasResult
  BY <1>1, ResultLemma DEF SnapshotCurrent, Results
<1>4. status.hasResult /\ shellPc # "prepare" => status' = status
  BY FinalStep
<1>5. CASE UNCHANGED <<shellPc, snap, report>>
  BY <1>2, <1>3, <1>4, <1>5 DEF SnapshotCurrent
<1>6. CASE StatusCommand
  BY <1>1, <1>6 DEF StatusCommand, SnapshotCurrent
<1>7. CASE StatusPrinted
  <2>1. status' = status /\ shellPc = "status" /\ report' = ReportOf(snap, active, stopReq)
    BY <1>7 DEF StatusPrinted
  <2>2. report' \in Results => snap.result = report'
    BY <1>1, <2>1, ReportLemma
  <2>3. "none" \notin Results
    BY DEF Results
  <2> QED BY <1>7, <2>1, <2>2, <2>3 DEF StatusPrinted, SnapshotCurrent
<1>8. CASE shellPc' \notin {"status", "reported"}
  BY <1>8 DEF SnapshotCurrent
<1>9. \/ UNCHANGED <<shellPc, snap, report>> \/ StatusCommand \/ StatusPrinted
      \/ shellPc' \notin {"status", "reported"}
  BY DEF Next, Exited, SignalStep, OperatorStep, CommandStep, WorkerStep, FrameStep,
     ReaderStep, ServerStep, SigintRaised, SigintForwarded, LoopTop,
     PromptCancelled, StartCommand, PrepareFailed, Prepared, Activate, Launch, StopCommand,
     StopStored, StatusDone, OtherCommand, OtherCommandDone, Shutdown, ShutdownJoined,
     OpenFiles, ReadFlag, FlagsRead, StartStream, SpawnReader,
     MarkStarted, LoopIteration, LoopExpired, StopStream, CancelStream, JoinReader, Return,
     Calibrate, FinishStatus, Deactivate, FrameWritten, FrameDropped,
     FrameNotWritten, HkArrives, FrameCounted, StopChecked, EndOfStream, ReaderFinished,
     ServerCloses, ServerHangs
<1> QED BY <1>5, <1>6, <1>7, <1>8, <1>9

\* A failure leaves a message before the return statement it leads to, and the
\* message stays as long as the job's status does.
LEMMA ExplainedStep ==
  ASSUME TypeOK, Ownership, ReaderLifetime, Verdicts, StatusCurrent, Explained, [Next]_vars
  PROVE  Explained'
<1>1. status \in Status /\ source \in Detectors
  BY DEF TypeOK, JobType, ReaderType
<1>2. CASE SignalStep \/ OperatorStep \/ ServerStep \/ UNCHANGED vars
  BY <1>2, Untouched DEF ServerStep, ServerCloses, ServerHangs, Explained, WorkerStopped
<1>3. CASE CommandStep
  <2>1. ASSUME NEW job \in Jobs, NEW dets \in SUBSET Detectors, Prepared(job, dets)
        PROVE  Explained'
    <3>1. ~status'.hasResult /\ runs + 1 \in Nat
      BY <2>1, FreshLemma DEF Prepared, TypeOK, ShellType
    <3>2. WorkerStopped
      BY <2>1 DEF Prepared, Ownership
    <3> QED BY <2>1, <3>1, <3>2 DEF Prepared, Explained, WorkerStopped
  <2>2. CASE Launch
    BY <2>2 DEF Launch, Explained, StatusCurrent, WorkerStopped
  <2>3. CASE LoopTop \/ PrepareFailed \/ Activate \/ StopStored \/ StatusPrinted
             \/ StatusDone \/ OtherCommandDone \/ ShutdownJoined
    BY <2>3 DEF LoopTop, PrepareFailed, Activate, StopStored, StatusPrinted, StatusDone,
       OtherCommandDone, ShutdownJoined, Explained, WorkerStopped
  <2> QED BY <1>3, <2>1, <2>2, <2>3 DEF CommandStep
<1>4. CASE WorkerStep
  <2>1. CASE MarkStarted
    BY <1>1, <2>1 DEF MarkStarted, Explained, StatusCurrent, Status, WorkerStopped
  <2>2. CASE FinishStatus
    BY <1>1, <2>2 DEF FinishStatus, Explained, StatusCurrent, Status, WorkerStopped,
       TypeOK, WorkerType
  <2>3. CASE Return
    BY <2>3 DEF Return, Verdict, Explained, Verdicts, StatusCurrent, WorkerStopped
  <2>4. CASE Calibrate
    <3>1. status'.messages > 0
      <4>1. WithMessage(status) \in Status
        BY <1>1, MessageLemma
      <4> QED BY <2>4, <4>1, MessageLemma DEF Calibrate
    <3> QED BY <2>4, <3>1 DEF Explained
  <2>5. CASE StopStream
    <3>1. workerPc' = "cancel" /\ (stopOk' \/ status'.messages > 0)
      BY <1>1, <2>5, MessageLemma DEF StopStream
    <3>2. status' = status \/ status'.messages > 0
      BY <1>1, <2>5, MessageLemma DEF StopStream
    <3>3. ~status.hasResult /\ status'.hasResult = status.hasResult
      BY <1>1, <2>5, MessageLemma DEF StopStream, StatusCurrent
    <3> QED BY <2>5, <3>1, <3>2, <3>3 DEF StopStream, Explained, WorkerStopped
  <2>6. CASE StartStream
    <3>1. (workerPc' = "reader" /\ status' = status) \/ status'.messages > 0
      BY <1>1, <2>6, MessageLemma DEF StartStream
    <3>2. ~status.hasResult
      BY <2>6 DEF StartStream, StatusCurrent
    <3> QED BY <2>6, <3>1, <3>2 DEF StartStream, Explained, WorkerStopped
  <2>7. CASE OpenFiles \/ ReadFlag
    <3>1. (workerPc' = "flags" /\ status' = status) \/ status'.messages > 0
      BY <1>1, <2>7, MessageLemma DEF OpenFiles, ReadFlag
    <3> QED BY <2>7, <3>1 DEF OpenFiles, ReadFlag, Explained, StatusCurrent, WorkerStopped
  <2>8. CASE FlagsRead \/ SpawnReader \/ LoopIteration \/ LoopExpired \/ CancelStream
             \/ JoinReader \/ Deactivate
    <3>1. status' = status \/ status'.messages > 0
      BY <1>1, <2>8, MessageLemma DEF FlagsRead, SpawnReader, LoopIteration, LoopExpired,
         CancelStream, JoinReader, Deactivate
    <3>2. readFailed' => readFailed \/ status'.messages > 0
      BY <1>1, <2>8, MessageLemma DEF FlagsRead, SpawnReader, LoopIteration, LoopExpired,
         CancelStream, JoinReader, Deactivate
    <3>3. workerPc = "cancel" /\ ~stopOk => status'.messages > 0
      BY <1>1, <2>8, MessageLemma DEF FlagsRead, SpawnReader, LoopIteration, LoopExpired,
         CancelStream, JoinReader, Deactivate
    <3> QED
      BY <2>8, <3>1, <3>2, <3>3 DEF FlagsRead, SpawnReader, LoopIteration, LoopExpired,
         CancelStream, JoinReader, Deactivate, Explained, StatusCurrent, WorkerStopped
  <2> QED BY <1>4, <2>1, <2>2, <2>3, <2>4, <2>5, <2>6, <2>7, <2>8 DEF WorkerStep
<1>5. CASE FrameStep
  BY <1>1, <1>5, MessageLemma DEF FrameStep, FrameWritten, FrameDropped, FrameNotWritten,
     HkArrives, Explained, WorkerStopped
<1>6. CASE ReaderStep
  <2>1. CASE FrameCounted
    BY <1>1, <2>1, CountLemma DEF FrameCounted, Explained, WorkerStopped
  <2>2. CASE StopChecked \/ EndOfStream \/ ReaderFinished
    BY <1>1, <2>2, MessageLemma DEF StopChecked, EndOfStream, ReaderFinished, Explained,
       WorkerStopped
  <2> QED BY <1>6, <2>1, <2>2 DEF ReaderStep
<1> QED
  BY <1>2, <1>3, <1>4, <1>5, <1>6 DEF Next, Exited

-----------------------------------------------------------------------------
(* The invariant.                                                            *)

\* The invariant holds initially.
LEMMA InvInit == Init => Inv
<1> SUFFICES ASSUME Init PROVE Inv
  OBVIOUS
<1>1. ShellType /\ FlagType
  <2>1. shellPc \in ShellPcs /\ holder \in {"none", "global", "local"} /\ runs \in Nat
    BY DEF Init, ShellPcs
  <2>2. snap \in [result : Results \union {"none"}, started : BOOLEAN]
    BY DEF Init, NoSnap
  <2> QED BY <2>1, <2>2 DEF Init, ShellType, FlagType
<1>2. JobType
  BY FreshLemma DEF Init, JobType, Jobs
<1>3. WorkerType /\ ServerType
  <2>1. WorkerType
    BY DEF Init, WorkerType, WorkerPcs
  <2> QED BY <2>1 DEF Init, ServerType
<1>4. ReaderType
  <2>1. written \in [Detectors -> Nat]
    BY DEF Init, NoFrames
  <2> QED BY <2>1 DEF Init, ReaderType, ReaderPcs
<1>5. Ownership /\ ReaderLifetime /\ Verdicts
  BY DEF Init, Ownership, ReaderLifetime, ReaderWithinScope, Verdicts, BeforeReturn,
     WorkerStopped, ReaderStopped
<1>6. Accounting /\ StatusCurrent /\ SnapshotCurrent
  BY FreshLemma DEF Init, Accounting, StatusCurrent, SnapshotCurrent, WorkerStopped,
     Results, Jobs
<1>7. Explained
  BY FreshLemma DEF Init, Explained, WorkerStopped, Jobs
<1> QED BY <1>1, <1>2, <1>3, <1>4, <1>5, <1>6, <1>7 DEF Inv, TypeOK

\* Every step preserves it.
LEMMA InvStep == Inv /\ [Next]_vars => Inv'
BY TypeStep, OwnershipStep, LifetimeStep, VerdictsStep, AccountingStep, CurrentStep,
   SnapshotStep, ExplainedStep DEF Inv

\* In every state the session can be in, the invariant holds.
THEOREM Invariance == Spec => []Inv
BY InvInit, InvStep, PTL DEF Spec

-----------------------------------------------------------------------------
(* Safety.                                                                   *)

\* Every variable has its type, whatever the interleaving.
THEOREM TypeCorrect == Spec => []TypeOK
<1>1. Inv => TypeOK
  BY DEF Inv
<1> QED BY <1>1, Invariance, PTL

\* A joinable std::thread is never overwritten or destroyed.
THEOREM NeverTerminates == Spec => []NoTerminate
<1>1. Inv => NoTerminate
  BY DEF Inv, Ownership, ReaderLifetime, ReaderWithinScope, WorkerStopped, NoTerminate
<1> QED BY <1>1, Invariance, PTL

\* The globals the worker and the reader use without a lock are replaced only
\* while neither is alive.
THEOREM RaceFreedom == Spec => []NoConcurrentReplacement
<1>1. Inv => NoConcurrentReplacement
  BY DEF Inv, Ownership, ReaderLifetime, ReaderWithinScope, WorkerStopped,
         NoConcurrentReplacement
<1> QED BY <1>1, Invariance, PTL

\* The reader never outlives the locals it refers to.
THEOREM ReaderScope == Spec => []ReaderWithinScope
<1>1. Inv => ReaderWithinScope
  BY DEF Inv, ReaderLifetime
<1> QED BY <1>1, Invariance, PTL

\* A job reported as completed had no error and a confirmed stop.
THEOREM GenuineCompletion == Spec => []CompletedIsGenuine
<1>1. Inv => CompletedIsGenuine
  BY DEF Inv, Verdicts, StatusCurrent, CompletedIsGenuine
<1> QED BY <1>1, Invariance, PTL

\* The counters of the status are those of the files, up to the frame being
\* accounted, and exact in a result.
THEOREM ExactCounters == Spec => []CountersMatchFiles
<1>1. ASSUME Inv, NEW d \in Detectors, ~WorkerStopped
      PROVE  /\ status.frames[d] <= written[d] /\ written[d] <= status.frames[d] + 1
             /\ status.hasResult => status.frames[d] = written[d]
  <2>1. status.frames[d] \in Nat /\ written[d] = status.frames[d] + Pending(d)
    BY <1>1 DEF Inv, TypeOK, JobType, Status, Accounting
  <2>2. Pending(d) \in {0, 1} /\ (status.hasResult => Pending(d) = 0)
    BY <1>1 DEF Inv, Pending, ReaderLifetime, ReaderWithinScope, ReaderStopped,
                StatusCurrent, WorkerStopped
  <2> QED BY <2>1, <2>2
<1>2. Inv => CountersMatchFiles
  BY <1>1 DEF CountersMatchFiles
<1> QED BY <1>2, Invariance, PTL

\* The calibration reads a raw file that is complete and its own.
THEOREM CalibrationInput == Spec => []CalibrationInputFinal
<1>1. Inv => CalibrationInputFinal
  BY DEF Inv, Verdicts, StatusCurrent, ReaderLifetime, ReaderWithinScope, ReaderStopped,
         CalibrationInputFinal
<1> QED BY <1>1, Invariance, PTL

\* A job reported as failed has left a message, unless a Ctrl-C that was not
\* counted as a request to stop ended it.
THEOREM NoSilentFailure == Spec => []FailureExplained
<1>1. Inv => FailureExplained
  BY DEF Inv, Explained, FailureExplained
<1> QED BY <1>1, Invariance, PTL

\* The operator is told when the server may still be in observation mode.
THEOREM NoSilentObservation == Spec => []ServerLeftObservingExplained
<1>1. Inv => ServerLeftObservingExplained
  BY DEF Inv, Explained, ServerLeftObservingExplained
<1> QED BY <1>1, Invariance, PTL

\* A printed result is the recorded one.
THEOREM HonestReport == Spec => []PrintedResultIsRecorded
<1>1. Inv => PrintedResultIsRecorded
  BY DEF Inv, SnapshotCurrent, PrintedResultIsRecorded
<1> QED BY <1>1, Invariance, PTL

-----------------------------------------------------------------------------
(* Action properties and the implementation of AcquisitionJob.               *)

\* Only the preparation of a job clears the stop flag.
LEMMA StopFlagLemma ==
  ASSUME [Next]_vars, stopReq, ~stopReq', TypeOK
  PROVE  shellPc = "prepare"
BY DEF Next, Exited, SignalStep, OperatorStep, CommandStep, WorkerStep, FrameStep,
   ReaderStep, ServerStep, SigintRaised, SigintForwarded, LoopTop,
   PromptCancelled, StartCommand, PrepareFailed, Prepared, Activate, Launch, StopCommand,
   StopStored, StatusCommand, StatusPrinted, StatusDone, OtherCommand, OtherCommandDone,
   Shutdown, ShutdownJoined, OpenFiles, ReadFlag, FlagsRead, StartStream,
   SpawnReader, MarkStarted, LoopIteration, LoopExpired, StopStream, CancelStream,
   JoinReader, Return, Calibrate, FinishStatus, Deactivate, FrameWritten,
   FrameDropped, FrameNotWritten, HkArrives, FrameCounted, StopChecked, EndOfStream,
   ReaderFinished, ServerCloses, ServerHangs

\* No step withdraws a request to stop the active job.
THEOREM StickyStop == Spec => StopRequestSticks
<1>1. Inv /\ [Next]_vars => [active /\ stopReq => stopReq']_vars
  BY StopFlagLemma DEF Inv, Ownership
<1> QED BY <1>1, Invariance, PTL DEF Spec, StopRequestSticks

\* No step changes a recorded result but the reset for another job.
THEOREM FinalResult == Spec => ResultIsFinal
<1>1. ASSUME Inv, [Next]_vars, status.hasResult, status'.prefix = status.prefix
      PROVE  status' = status
  <2>1. CASE shellPc # "prepare"
    BY <1>1, <2>1, FinalStep DEF Inv
  <2>2. CASE shellPc = "prepare"
    <3>1. runs \in Nat
      BY <1>1 DEF Inv, TypeOK, ShellType
    <3>2. status.prefix = runs
      BY <1>1 DEF Inv, StatusCurrent
    <3>3. WorkerStopped /\ ReaderStopped
      BY <1>1, <2>2 DEF Inv, Ownership, ReaderLifetime, ReaderWithinScope, WorkerStopped
    <3>4. ASSUME NEW job \in Jobs, NEW dets \in SUBSET Detectors, Prepared(job, dets)
          PROVE  FALSE
      <4>1. status'.prefix = runs + 1
        BY <3>1, <3>4, FreshLemma DEF Prepared
      <4> QED BY <1>1, <3>1, <3>2, <4>1
    <3> QED
      BY <1>1, <2>2, <3>3, <3>4 DEF Next, Exited, SignalStep, OperatorStep,
         CommandStep, WorkerStep, FrameStep, ReaderStep, ServerStep, SigintRaised,
         SigintForwarded, LoopTop, PromptCancelled, StartCommand, PrepareFailed, Activate,
         Launch, StopCommand, StopStored, StatusCommand, StatusPrinted, StatusDone,
         OtherCommand, OtherCommandDone, Shutdown, ShutdownJoined, OpenFiles,
         ReadFlag, FlagsRead, StartStream, SpawnReader, MarkStarted, LoopIteration,
         LoopExpired, StopStream, CancelStream, JoinReader, Return, Calibrate,
         FinishStatus, Deactivate, FrameWritten, FrameDropped, FrameNotWritten, HkArrives,
         FrameCounted, StopChecked, EndOfStream, ReaderFinished,
         ServerCloses, ServerHangs, WorkerStopped, ReaderStopped
  <2> QED BY <2>1, <2>2
<1>2. Inv /\ [Next]_vars => [status.hasResult /\ status'.prefix = status.prefix
                               => status' = status]_vars
  BY <1>1
<1> QED BY <1>2, Invariance, PTL DEF Spec, ResultIsFinal

\* The steps that the abstract job can see; every other step leaves all that
\* its phase, its stop flag and its outcome depend on unchanged.
Seen == <<active, stopReq, status.started, status.hasResult, status.succeeded,
          status.stopRequested>>

SeenStep ==
  \/ SigintForwarded \/ StopStored \/ Shutdown \/ Activate \/ MarkStarted
  \/ FinishStatus \/ Deactivate
  \/ \E job \in Jobs, dets \in SUBSET Detectors : Prepared(job, dets)

\* What is not such a step leaves them alone.
LEMMA UnseenStep ==
  ASSUME TypeOK, [Next]_vars, ~SeenStep
  PROVE  UNCHANGED Seen
<1>1. status \in Status /\ source \in Detectors
  BY DEF TypeOK, JobType, ReaderType
<1>2. CASE SignalStep \/ OperatorStep \/ CommandStep \/ ServerStep \/ UNCHANGED vars
  BY <1>2 DEF Seen, SeenStep, SignalStep, OperatorStep, CommandStep, ServerStep,
     SigintRaised, LoopTop, PromptCancelled, StartCommand, PrepareFailed, Launch,
     StopCommand, StatusCommand, StatusPrinted, StatusDone, OtherCommand,
     OtherCommandDone, ShutdownJoined, ServerCloses, ServerHangs
<1>3. CASE WorkerStep
  BY <1>1, <1>3, MessageLemma DEF Seen, SeenStep, WorkerStep, OpenFiles, ReadFlag,
     FlagsRead, StartStream, SpawnReader, LoopIteration, LoopExpired, StopStream,
     CancelStream, JoinReader, Return, Calibrate
<1>4. CASE FrameStep
  BY <1>1, <1>4, MessageLemma DEF Seen, FrameStep, FrameWritten, FrameDropped,
     FrameNotWritten, HkArrives
<1>5. CASE ReaderStep
  <2>1. CASE FrameCounted
    BY <1>1, <2>1, CountLemma DEF Seen, FrameCounted
  <2>2. CASE StopChecked \/ EndOfStream \/ ReaderFinished
    BY <1>1, <2>2, MessageLemma DEF Seen, StopChecked, EndOfStream, ReaderFinished
  <2> QED BY <1>5, <2>1, <2>2 DEF ReaderStep
<1> QED BY <1>2, <1>3, <1>4, <1>5 DEF Next, Exited

\* The threads implement AcquisitionJob: every step is a step of the abstract
\* job or invisible to it.
THEOREM Implementation == Spec => ImplementsJob
<1>1. Init => Job!Init
  BY DEF Init, Job!Init, JobPhase, ResultOf, FreshStatus
<1>2. ASSUME Inv, [Next]_vars
      PROVE  [Job!Next]_(Job!vars)
  <2>1. status \in Status /\ active \in BOOLEAN /\ stopReq \in BOOLEAN
    BY <1>2 DEF Inv, TypeOK, JobType, FlagType
  <2>2. CASE ~SeenStep
    BY <1>2, <2>2, UnseenStep DEF Inv, Seen, Job!vars, JobPhase, ResultOf
  <2>3. CASE SigintForwarded \/ StopStored \/ Shutdown
    BY <2>1, <2>3 DEF SigintForwarded, StopStored, Shutdown, Job!Next, Job!Ask, Job!vars,
       JobPhase
  <2>4. ASSUME NEW job \in Jobs, NEW dets \in SUBSET Detectors, Prepared(job, dets)
        PROVE  Job!Announce
    <3>1. ~active /\ ~active' /\ stopReq' = FALSE /\ runs \in Nat
      BY <1>2, <2>4 DEF Prepared, Inv, Ownership, TypeOK, ShellType
    <3>2. ~status'.hasResult /\ status' \in Status
      BY <2>4, <3>1, FreshLemma DEF Prepared
    <3>3. JobPhase \in {"idle", "ended"} /\ JobPhase' = "idle"
      BY <3>1, <3>2 DEF JobPhase
    <3> QED BY <3>1, <3>2, <3>3, ResultLemma DEF Job!Announce
  <2>5. CASE Activate
    <3>1. ~active /\ ~status.started /\ ~status.hasResult
      BY <1>2, <2>5 DEF Activate, Inv, Ownership, StatusCurrent
    <3> QED BY <2>5, <3>1 DEF Activate, Job!Next, Job!Begin, JobPhase
  <2>6. CASE MarkStarted
    <3>1. active /\ active' /\ status' = [status EXCEPT !.started = TRUE]
          /\ stopReq' = stopReq
      BY <1>2, <2>6 DEF MarkStarted, Inv, Ownership, WorkerStopped
    <3>2. status'.started /\ ResultOf(status') = ResultOf(status)
      BY <2>1, <3>1 DEF Status, ResultOf
    <3>3. JobPhase' = "running" /\ JobPhase \in {"starting", "running"}
      BY <2>1, <3>1, <3>2 DEF JobPhase, Status
    <3> QED BY <3>1, <3>2, <3>3 DEF Job!Next, Job!Record, Job!vars
  <2>7. CASE FinishStatus
    <3>1. active /\ active' /\ ~status.hasResult /\ UNCHANGED stopReq
          /\ (succeeded => status.started)
      BY <1>2, <2>7 DEF FinishStatus, Inv, Ownership, StatusCurrent, WorkerStopped
    <3>2. /\ status'.started = status.started /\ status'.hasResult
          /\ status'.succeeded = succeeded /\ status'.stopRequested = stopReq
          /\ status' \in Status
      BY <1>2, <2>1, <2>7 DEF FinishStatus, Status, Inv, TypeOK, WorkerType
    <3>3. JobPhase \in {"starting", "running"} /\ JobPhase' = JobPhase
          /\ (status.started => JobPhase = "running")
      BY <2>1, <3>1, <3>2 DEF JobPhase, Status
    <3>4. ResultOf(status) = "none" /\ ResultOf(status') \in Job!Outcomes \ {"none"}
      BY <2>1, <3>1, <3>2 DEF ResultOf, Job!Outcomes, Status
    <3>5. /\ ResultOf(status') = "completed" => succeeded
          /\ ResultOf(status') = "stopped" => stopReq
      BY <3>2 DEF ResultOf, Status
    <3> QED BY <3>1, <3>3, <3>4, <3>5 DEF Job!Next, Job!Settle
  <2>8. CASE Deactivate
    <3>1. active /\ ~active' /\ status.hasResult /\ UNCHANGED <<stopReq, status>>
      BY <1>2, <2>8 DEF Deactivate, Inv, Ownership, StatusCurrent, WorkerStopped
    <3>2. JobPhase \in {"starting", "running"} /\ JobPhase' = "ended"
      BY <2>1, <3>1 DEF JobPhase, Status
    <3> QED BY <2>1, <3>1, <3>2, ResultLemma DEF Job!Next, Job!End
  <2> QED
    BY <2>2, <2>3, <2>4, <2>5, <2>6, <2>7, <2>8 DEF SeenStep, Job!Next
<1> QED BY <1>1, <1>2, Invariance, PTL DEF Spec, ImplementsJob, Job!Spec

=============================================================================
