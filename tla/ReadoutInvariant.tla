-------------------------- MODULE ReadoutInvariant --------------------------
(***************************************************************************)
(* The inductive invariant of Readout from which Readout_proofs derives    *)
(* its theorems, in parts named for what they say of the code.             *)
(***************************************************************************)
EXTENDS Readout

\* The pcs of the worker before it has taken a return statement.
BeforeReturn == {"open", "flags", "start", "reader", "mark", "loop", "stop",
                 "cancel", "join", "result"}

\* Who owns the worker thread: g_readout_active is set from just before the
\* thread is launched to its last statement, and a thread that runs is held by
\* g_readout_worker or by shutdown_readout.
Ownership ==
  /\ active <=> ~WorkerStopped \/ shellPc = "launch"
  /\ shellPc \in {"prepare", "activate", "launch", "exited"} => holder = "none"
  /\ shellPc = "join" <=> holder = "local"
  /\ holder = "none" => WorkerStopped
  /\ shellPc \in {"prepare", "activate", "exclusive"} => ~active

\* The reader lives between its spawning and its join, and when it is done it
\* has seen the end of the stream.
ReaderLifetime ==
  /\ ReaderWithinScope
  /\ readerPc = "done" =>
       /\ stream \in {"closed", "broken"} \/ cancelled
       /\ stream = "broken" => readFailed
  /\ workerPc = "result" => readerPc = "done"
  /\ workerPc \in {"join", "result"} => cancelled

\* What the locals of the worker are worth once a return statement is taken.
Verdicts ==
  /\ workerPc \in BeforeReturn => returned = "none"
  /\ workerPc = "calibrate" => returned = "ok" /\ setup.job = "pedcalib_readout"
  /\ workerPc \in {"cancel", "join", "result"} /\ stopOk => ~observing
  /\ succeeded => returned = "ok"
  /\ returned = "ok" =>
       cancelled /\ readerPc = "done" /\ ~readFailed /\ stopOk /\ ~observing
       /\ stream # "broken"

\* The counters lag behind the files by the frame the reader is accounting.
Pending(d) == IF readerPc = "count" /\ source = d THEN 1 ELSE 0

Accounting ==
  /\ shellPc \in {"activate", "launch"} => status.frames = NoFrames
  /\ ~WorkerStopped => \A d \in Detectors : written[d] = status.frames[d] + Pending(d)

\* g_readout_status is that of the last job, and has a result only once the
\* job is at its end.
StatusCurrent ==
  /\ status.prefix = runs /\ setup.prefix = runs /\ status.job = setup.job
  /\ status.hasResult => workerPc \in {"deactivate", "done"}
  /\ shellPc \in {"activate", "launch"} => ~status.hasResult /\ ~status.started
  /\ workerPc \in {"loop", "stop", "cancel", "join", "result", "calibrate"} =>
       status.started
  /\ workerPc = "finish" /\ succeeded => status.started
  /\ workerPc = "deactivate" => status.hasResult
  /\ status.hasResult /\ status.succeeded => returned = "ok"

\* What a `readout status` under way has read or printed of a result is still
\* the recorded result.
SnapshotCurrent ==
  /\ shellPc = "status" /\ snap.result # "none" => snap.result = ResultOf(status)
  /\ shellPc = "reported" /\ report \in Results => report = ResultOf(status)

\* What went wrong has left a message: a reader that failed while the worker
\* lives, a stop that was not confirmed, and, from the return on, a job that
\* failed or left the server in observation mode.
Explained ==
  /\ ~WorkerStopped /\ readFailed => status.messages > 0
  /\ workerPc \in {"cancel", "join", "result"} /\ ~stopOk => status.messages > 0
  /\ workerPc = "finish" /\ (observing \/ (~succeeded /\ returned # "stop")) =>
       status.messages > 0
  /\ status.hasResult /\ (observing \/ (~status.succeeded /\ returned # "stop")) =>
       status.messages > 0

Inv ==
  /\ TypeOK /\ Ownership /\ ReaderLifetime /\ Verdicts /\ Accounting
  /\ StatusCurrent /\ SnapshotCurrent /\ Explained

=============================================================================
