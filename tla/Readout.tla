------------------------------ MODULE Readout ------------------------------
(***************************************************************************)
(* A background acquisition of an interactive hero_shell: the shell thread *)
(* (run_shell, do_readout, do_pedcalib_readout, shutdown_readout), the     *)
(* worker thread it spawns (do_readout_foreground and, for a pedestal      *)
(* calibration, the pipeline after it), the reader thread the worker       *)
(* spawns, the SIGINT handler, and the detector server at the other end of *)
(* the gRPC channel.  They share the atomics g_interrupted,                *)
(* g_readout_active and g_readout_stop_requested, the std::thread object   *)
(* g_readout_worker and the mutex-protected g_readout_status.              *)
(*                                                                         *)
(* A step is one access to shared state or one RPC.  A critical section of *)
(* g_readout_status_mutex, and a look at both stop flags, is one step.     *)
(* Time is counted in arbitrary units: Duration is the requested           *)
(* acquisition time and PollInterval the sleep of the worker's loop.       *)
(***************************************************************************)
EXTENDS Naturals

CONSTANTS
  Detectors,      \* logical addresses that may be registered
  Duration,       \* requested acquisition time
  PollInterval,   \* the worker looks at the flags once per interval
  MaxMessages,    \* kMaxReadoutMessages
  ServerMayHang,  \* whether the server may stop answering for good
  MaxRuns,        \* bound: jobs the operator starts in one session
  MaxFrames       \* bound: frames the server sends in one acquisition

ASSUME ReadoutAssumption ==
  /\ Duration \in Nat
  /\ PollInterval \in Nat \ {0}
  /\ MaxMessages \in Nat \ {0}
  /\ ServerMayHang \in BOOLEAN
  /\ MaxRuns \in Nat
  /\ MaxFrames \in Nat

VARIABLES
  shellPc,      \* where the shell thread is
  holder,       \* who holds the joinable thread object: the global
                \*   g_readout_worker, shutdown_readout's local, or nobody
  snap,         \* `readout status`: the copy of g_readout_status it holds
  report,       \* `readout status`: what it printed
  runs,         \* jobs started so far; also the number of the current job
  handler,      \* the SIGINT handler, which runs on the shell thread
  interrupted,  \* g_interrupted
  active,       \* g_readout_active
  stopReq,      \* g_readout_stop_requested
  setup,        \* the worker's copy of its job: ReadoutSetup and file prefix
  status,       \* g_readout_status
  workerPc,     \* where the worker thread is
  toRead,       \* detectors whose ForcetrigFlag is still to be logged
  elapsed,      \* time since the acquisition loop began
  stopOk,       \* stop_ok: the server confirmed StopDataStream
  returned,     \* which return statement do_readout_foreground took
  succeeded,    \* success: what the job as a whole returned
  readerPc,     \* where the reader thread is
  source,       \* the detector of the frame the reader has just written
  readFailed,   \* readout_failed
  written,      \* frames in each data file of the current job
  sent,         \* frames the reader received in the current job
  responsive,   \* server: it still answers
  observing,    \* server: it is in observation mode
  stream,       \* server: its end of the DataStream call
  cancelled     \* stream_context was cancelled

shellVars  == <<shellPc, holder, snap, report, runs>>
signalVars == <<handler, interrupted>>
flagVars   == <<active, stopReq>>
workerVars == <<workerPc, toRead, elapsed, stopOk, returned, succeeded>>
readerVars == <<readerPc, source, readFailed, written, sent>>
serverVars == <<responsive, observing, stream, cancelled>>
vars == <<shellPc, holder, snap, report, runs, handler, interrupted, active,
          stopReq, setup, status, workerPc, toRead, elapsed, stopOk, returned,
          succeeded, readerPc, source, readFailed, written, sent, responsive,
          observing, stream, cancelled>>

-----------------------------------------------------------------------------
Jobs     == {"readout", "pedcalib_readout"}
Results  == {"completed", "stopped", "failed"}

ShellPcs == {"top", "prompt", "prepare", "activate", "launch", "stop", "status",
             "reported", "shared", "exclusive", "join", "exited"}
WorkerPcs == {"none", "open", "flags", "start", "reader", "mark", "loop", "stop",
              "cancel", "join", "result", "calibrate", "finish", "deactivate",
              "done"}
ReaderPcs == {"none", "read", "count", "check", "finish", "done"}

NoFrames == [d \in Detectors |-> 0]

Status == [job : Jobs, prefix : Nat, frames : [Detectors -> Nat],
           messages : 0..MaxMessages, suppressed : Nat, started : BOOLEAN,
           hasResult : BOOLEAN, succeeded : BOOLEAN, stopRequested : BOOLEAN]

\* g_readout_status = {} followed by set_readout_outputs.
FreshStatus(job, prefix) ==
  [job |-> job, prefix |-> prefix, frames |-> NoFrames, messages |-> 0,
   suppressed |-> 0, started |-> FALSE, hasResult |-> FALSE,
   succeeded |-> FALSE, stopRequested |-> FALSE]

\* Fault: no limit on the stored messages.
WithUncappedMessage(s) == [s EXCEPT !.messages = @ + 1]

\* record_readout_message: past the limit only the number of messages is kept.
WithMessage(s) ==
  IF s.messages < MaxMessages THEN [s EXCEPT !.messages = @ + 1]
                              ELSE [s EXCEPT !.suppressed = @ + 1]

\* The result line of `readout status`.
ResultOf(s) ==
  CASE ~s.hasResult -> "none"
    [] s.hasResult /\ s.succeeded -> "completed"
    [] s.hasResult /\ ~s.succeeded /\ s.stopRequested -> "stopped"
    [] s.hasResult /\ ~s.succeeded /\ ~s.stopRequested -> "failed"

\* What `readout status` prints, from its snapshot and the two flags.
ReportOf(s, isActive, isStopping) ==
  CASE ~isActive -> s.result
    [] isActive /\ ~s.started -> "starting"
    [] isActive /\ s.started /\ isStopping -> "stopping"
    [] isActive /\ s.started /\ ~isStopping -> "running"

NoSnap == [result |-> "none", started |-> FALSE]

StopSeen == stopReq \/ interrupted

WorkerStopped == workerPc \in {"none", "done"}
ReaderStopped == readerPc \in {"none", "done"}

Init ==
  /\ shellPc = "top" /\ holder = "none" /\ runs = 0
  /\ snap = NoSnap /\ report = "unknown"
  /\ handler = "idle" /\ interrupted = FALSE
  /\ active = FALSE /\ stopReq = FALSE
  /\ setup = [job |-> "readout", prefix |-> 0, dets |-> {}]
  /\ status = FreshStatus("readout", 0)
  /\ workerPc = "none" /\ toRead = {} /\ elapsed = 0
  /\ stopOk = FALSE /\ returned = "none" /\ succeeded = FALSE
  /\ readerPc = "none" /\ source \in Detectors /\ readFailed = FALSE
  /\ written = NoFrames /\ sent = 0
  /\ responsive = TRUE /\ observing = FALSE /\ stream = "none" /\ cancelled = FALSE

-----------------------------------------------------------------------------
(* The SIGINT handler. It runs on the shell thread, between two of its       *)
(* steps, and not while the worker waits in std::system, which makes the     *)
(* process ignore SIGINT.                                                    *)

SigintRaised ==
  /\ handler = "idle" /\ shellPc # "exited" /\ workerPc # "calibrate"
  /\ handler' = "forward" /\ interrupted' = TRUE
  /\ UNCHANGED <<shellVars, flagVars, setup, status, workerVars, readerVars, serverVars>>

SigintForwarded ==
  /\ handler = "forward" /\ handler' = "idle"
  /\ stopReq' = (stopReq \/ active)
  /\ UNCHANGED <<shellVars, interrupted, active, setup, status, workerVars, readerVars, serverVars>>

-----------------------------------------------------------------------------
(* The shell thread.                                                         *)

ShellAt(pc) == shellPc = pc /\ handler = "idle"

ShellGoes(pc) ==
  /\ shellPc' = pc
  /\ UNCHANGED <<signalVars, setup, workerVars, readerVars, serverVars>>

\* Top of run_shell's loop: a pending interrupt is cleared before every prompt.
LoopTop ==
  /\ ShellAt("top") /\ shellPc' = "prompt" /\ interrupted' = FALSE
  /\ UNCHANGED <<holder, snap, report, runs, handler, flagVars, setup, status,
                 workerVars, readerVars, serverVars>>

\* readline returns without a line because of Ctrl-C: back to the top.
PromptCancelled ==
  /\ ShellAt("prompt") /\ interrupted
  /\ shellPc' = "top" /\ interrupted' = FALSE
  /\ UNCHANGED <<holder, snap, report, runs, handler, flagVars, setup, status,
                 workerVars, readerVars, serverVars>>

\* Fault: the completed worker is not joined before the next one.
StartWithoutJoin ==
  /\ ShellAt("prompt") /\ runs < MaxRuns
  /\ ShellGoes(IF active THEN "top" ELSE "prepare")
  /\ UNCHANGED <<holder, snap, report, runs, flagVars, status>>

\* `readout <duration> <prefix>` or `pedcalib_readout ...` is entered: refused
\* while a job is active; otherwise g_readout_mutex is taken and a completed
\* worker is joined.
StartCommand ==
  /\ ShellAt("prompt") /\ runs < MaxRuns
  /\ \/ active /\ ShellGoes("top") /\ UNCHANGED holder
     \/ /\ ~active
        /\ holder = "global" => workerPc = "done"
        /\ holder' = "none" /\ ShellGoes("prepare")
  /\ UNCHANGED <<snap, report, runs, flagVars, status>>

\* prepare_readout: its RPCs have no deadline. It refuses when there is no
\* detector, when the device list cannot be read and, for a calibration, when
\* the tools or the VAREG file are missing.
PrepareFailed ==
  /\ ShellAt("prepare") /\ responsive
  /\ ShellGoes("top")
  /\ UNCHANGED <<holder, snap, report, runs, flagVars, status>>

\* Fault: of the status only the job and its outputs are replaced.
PreparedOverStaleStatus(job, dets) ==
  /\ ShellAt("prepare") /\ responsive
  /\ dets # {}
  /\ job = "pedcalib_readout" => \E d \in dets : dets = {d}
  /\ shellPc' = "activate" /\ runs' = runs + 1
  /\ setup' = [job |-> job, prefix |-> runs + 1, dets |-> dets]
  /\ status' = [status EXCEPT !.job = job, !.prefix = runs + 1]
  /\ stopReq' = FALSE
  /\ UNCHANGED <<holder, snap, report, signalVars, active, workerVars, readerVars, serverVars>>

\* The job is ready: its status is reset, its outputs are announced and the
\* stop flag of the previous job is cleared. A calibration has one detector.
Prepared(job, dets) ==
  /\ ShellAt("prepare") /\ responsive
  /\ dets # {}
  /\ job = "pedcalib_readout" => \E d \in dets : dets = {d}
  /\ shellPc' = "activate" /\ runs' = runs + 1
  /\ setup' = [job |-> job, prefix |-> runs + 1, dets |-> dets]
  /\ status' = FreshStatus(job, runs + 1)
  /\ stopReq' = FALSE
  /\ UNCHANGED <<holder, snap, report, signalVars, active, workerVars, readerVars, serverVars>>

Activate ==
  /\ ShellAt("activate") /\ ShellGoes("launch")
  /\ active' = TRUE
  /\ UNCHANGED <<holder, snap, report, runs, stopReq, status>>

\* std::thread's constructor: the new thread is at its first statement, with
\* locals of its own.
Launch ==
  /\ ShellAt("launch") /\ shellPc' = "top" /\ holder' = "global"
  /\ workerPc' = "open" /\ toRead' = setup.dets /\ elapsed' = 0
  /\ stopOk' = FALSE /\ returned' = "none" /\ succeeded' = FALSE
  /\ readerPc' = "none" /\ readFailed' = FALSE /\ written' = NoFrames /\ sent' = 0
  /\ stream' = "none" /\ cancelled' = FALSE
  /\ UNCHANGED <<snap, report, runs, signalVars, flagVars, setup, status, source,
                 responsive, observing>>

\* `readout stop`: refused when no job is active; the flag is stored later.
StopCommand ==
  /\ ShellAt("prompt")
  /\ ShellGoes(IF active THEN "stop" ELSE "top")
  /\ UNCHANGED <<holder, snap, report, runs, flagVars, status>>

StopStored ==
  /\ ShellAt("stop") /\ ShellGoes("top")
  /\ stopReq' = TRUE
  /\ UNCHANGED <<holder, snap, report, runs, active, status>>

\* `readout status` copies the status first ...
StatusCommand ==
  /\ ShellAt("prompt") /\ ShellGoes("status")
  /\ snap' = [result |-> ResultOf(status), started |-> status.started]
  /\ UNCHANGED <<holder, report, runs, flagVars, status>>

\* ... and then loads the flags.
StatusPrinted ==
  /\ ShellAt("status") /\ ShellGoes("reported")
  /\ report' = ReportOf(snap, active, stopReq)
  /\ snap' = NoSnap
  /\ UNCHANGED <<holder, runs, flagVars, status>>

StatusDone ==
  /\ ShellAt("reported") /\ ShellGoes("top")
  /\ report' = "unknown"
  /\ UNCHANGED <<holder, snap, runs, flagVars, status>>

\* Fault: the dispatcher does not look at g_readout_active.
UnguardedCommand(kind) ==
  /\ ShellAt("prompt") /\ ShellGoes(kind)
  /\ UNCHANGED <<holder, snap, report, runs, flagVars, status>>

\* Any other command. The dispatcher lets set, get, show, the lists, sleep,
\* help and reconnect_device through while a job is active; the others, which
\* may replace g_stub or g_last_set_vareg_path, only when none is.
OtherCommand(kind) ==
  /\ ShellAt("prompt")
  /\ ShellGoes(IF kind = "exclusive" /\ active THEN "top" ELSE kind)
  /\ UNCHANGED <<holder, snap, report, runs, flagVars, status>>

\* Its RPCs have no deadline.
OtherCommandDone ==
  /\ (ShellAt("shared") \/ ShellAt("exclusive")) /\ responsive
  /\ ShellGoes("top")
  /\ UNCHANGED <<holder, snap, report, runs, flagVars, status>>

\* `exit`, `quit` or end of input: shutdown_readout under g_readout_mutex.
Shutdown ==
  /\ ShellAt("prompt")
  /\ \/ holder = "none" /\ ShellGoes("exited") /\ UNCHANGED <<holder, stopReq>>
     \/ /\ holder = "global" /\ ShellGoes("join")
        /\ holder' = "local" /\ stopReq' = (stopReq \/ active)
  /\ UNCHANGED <<snap, report, runs, active, status>>

ShutdownJoined ==
  /\ ShellAt("join") /\ workerPc = "done"
  /\ holder' = "none" /\ ShellGoes("exited")
  /\ UNCHANGED <<snap, report, runs, flagVars, status>>

\* The process is gone.
Exited == shellPc = "exited" /\ UNCHANGED vars

-----------------------------------------------------------------------------
(* The worker thread. A return statement of do_readout_foreground leads to   *)
(* "finish", or to "calibrate" for a calibration whose readout succeeded.    *)

WorkerGoes(pc) ==
  /\ workerPc' = pc
  /\ UNCHANGED <<shellVars, signalVars, flagVars, setup>>

\* Fault: a return false without a diagnostic.
GiveUpSilently ==
  /\ WorkerGoes("finish") /\ returned' = "error" /\ succeeded' = FALSE
  /\ UNCHANGED <<elapsed, stopOk, status>>

\* Return false before the stream is started, with a diagnostic.
GiveUp ==
  /\ WorkerGoes("finish") /\ returned' = "error" /\ succeeded' = FALSE
  /\ status' = WithMessage(status)
  /\ UNCHANGED <<elapsed, stopOk>>

\* The HK file, the data files and log.txt are opened; any may fail. An
\* attribute that cannot be set on one is only reported.
OpenFiles ==
  /\ workerPc = "open"
  /\ \/ GiveUp
     \/ /\ WorkerGoes("flags")
        /\ status' \in {status, WithMessage(status)}
        /\ UNCHANGED <<elapsed, stopOk, returned, succeeded>>
  /\ UNCHANGED <<toRead, readerVars, serverVars>>

\* ForcetrigFlag of one detector is read, without a deadline, and its line of
\* log.txt is written.
ReadFlag ==
  /\ workerPc = "flags" /\ toRead # {} /\ responsive
  /\ \/ GiveUp /\ UNCHANGED toRead
     \/ /\ WorkerGoes("flags") /\ \E d \in toRead : toRead' = toRead \ {d}
        /\ UNCHANGED <<elapsed, stopOk, returned, succeeded, status>>
  /\ UNCHANGED <<readerVars, serverVars>>

FlagsRead ==
  /\ workerPc = "flags" /\ toRead = {} /\ WorkerGoes("start")
  /\ UNCHANGED <<toRead, elapsed, stopOk, returned, succeeded, status, readerVars, serverVars>>

\* StartDataStream, with a deadline of 10 s: accepted, or refused, or lost
\* before or after the server acted on it.
StartStream ==
  /\ workerPc = "start"
  /\ \/ /\ responsive /\ observing' = TRUE /\ WorkerGoes("reader")
        /\ UNCHANGED <<elapsed, stopOk, returned, succeeded, status>>
     \/ GiveUp /\ (UNCHANGED observing \/ (responsive /\ observing' = TRUE))
  /\ UNCHANGED <<toRead, readerVars, responsive, stream, cancelled>>

\* The reader thread is spawned; it opens the DataStream call.
SpawnReader ==
  /\ workerPc = "reader" /\ WorkerGoes("mark")
  /\ readerPc' = "read" /\ stream' = "open"
  /\ UNCHANGED <<toRead, elapsed, stopOk, returned, succeeded, status, source, readFailed,
                 written, sent, responsive, observing, cancelled>>

MarkStarted ==
  /\ workerPc = "mark" /\ WorkerGoes("loop")
  /\ status' = [status EXCEPT !.started = TRUE]
  /\ UNCHANGED <<toRead, elapsed, stopOk, returned, succeeded, readerVars, serverVars>>

\* One iteration of the acquisition loop: sleep, then look at the stop flags,
\* then at reader_done.
LoopIteration ==
  /\ workerPc = "loop" /\ elapsed < Duration
  /\ elapsed' = elapsed + PollInterval
  /\ \/ StopSeen /\ WorkerGoes("stop") /\ UNCHANGED <<status, readFailed>>
     \/ /\ ~StopSeen /\ readerPc = "done" /\ WorkerGoes("stop")
        /\ status' = WithMessage(status) /\ readFailed' = TRUE
     \/ /\ ~StopSeen /\ readerPc # "done" /\ WorkerGoes("loop")
        /\ UNCHANGED <<status, readFailed>>
  /\ UNCHANGED <<toRead, stopOk, returned, succeeded, readerPc, source, written, sent, serverVars>>

LoopExpired ==
  /\ workerPc = "loop" /\ elapsed >= Duration /\ WorkerGoes("stop")
  /\ UNCHANGED <<toRead, elapsed, stopOk, returned, succeeded, status, readerVars, serverVars>>

\* Fault: StopDataStream without a deadline.
StopStreamUnbounded ==
  /\ workerPc = "stop" /\ responsive /\ WorkerGoes("cancel")
  /\ \/ observing' = FALSE /\ stopOk' = TRUE /\ UNCHANGED status
     \/ observing' \in {observing, FALSE} /\ stopOk' = FALSE /\ status' = WithMessage(status)
  /\ UNCHANGED <<toRead, elapsed, returned, succeeded, readerVars, responsive, stream, cancelled>>

\* Fault: the status of the StopDataStream call is not looked at.
StopStreamUnchecked ==
  /\ workerPc = "stop" /\ WorkerGoes("cancel") /\ stopOk' = TRUE
  /\ \/ UNCHANGED observing
     \/ responsive /\ observing' = FALSE
  /\ UNCHANGED <<toRead, elapsed, returned, succeeded, status, readerVars, responsive, stream,
                 cancelled>>

\* StopDataStream, with a deadline of 7 s: accepted, or refused, or lost
\* before or after the server acted on it.
StopStream ==
  /\ workerPc = "stop" /\ WorkerGoes("cancel")
  /\ \/ responsive /\ observing' = FALSE /\ stopOk' = TRUE /\ UNCHANGED status
     \/ /\ UNCHANGED observing \/ (responsive /\ observing' = FALSE)
        /\ stopOk' = FALSE /\ status' = WithMessage(status)
  /\ UNCHANGED <<toRead, elapsed, returned, succeeded, readerVars, responsive, stream, cancelled>>

\* Fault: the reader is joined without TryCancel.
StreamNotCancelled ==
  /\ workerPc = "cancel" /\ WorkerGoes("join")
  /\ status' = IF stopOk THEN status ELSE WithMessage(status)
  /\ UNCHANGED <<toRead, elapsed, stopOk, returned, succeeded, readerVars, serverVars>>

\* After the drain second: a warning unless the stop was confirmed, TryCancel.
CancelStream ==
  /\ workerPc = "cancel" /\ WorkerGoes("join")
  /\ status' = IF stopOk THEN status ELSE WithMessage(status)
  /\ cancelled' = TRUE
  /\ UNCHANGED <<toRead, elapsed, stopOk, returned, succeeded, readerVars, responsive,
                 observing, stream>>

\* Fault: the reader is not waited for.
ReaderDetached ==
  /\ workerPc = "join" /\ WorkerGoes("result")
  /\ UNCHANGED <<toRead, elapsed, stopOk, returned, succeeded, status, readerVars, serverVars>>

JoinReader ==
  /\ workerPc = "join" /\ readerPc = "done" /\ WorkerGoes("result")
  /\ UNCHANGED <<toRead, elapsed, stopOk, returned, succeeded, status, readerVars, serverVars>>

\* Fault: a stop the server did not confirm counts as a success.
LenientVerdict == IF StopSeen THEN "stop" ELSE IF ~readFailed THEN "ok" ELSE "error"

\* The last two return statements.
Verdict ==
  IF StopSeen THEN "stop" ELSE IF stopOk /\ ~readFailed THEN "ok" ELSE "error"

Return ==
  /\ workerPc = "result"
  /\ returned' = Verdict /\ succeeded' = (Verdict = "ok")
  /\ \/ Verdict = "ok" /\ setup.job = "pedcalib_readout" /\ WorkerGoes("calibrate")
     \/ ~(Verdict = "ok" /\ setup.job = "pedcalib_readout") /\ WorkerGoes("finish")
  /\ UNCHANGED <<toRead, elapsed, stopOk, status, readerVars, serverVars>>

\* The pipeline calc_pedestal | set_delreg.py, with a message before it and
\* one after it; it fails too when Ctrl-C kills its processes.
Calibrate ==
  /\ workerPc = "calibrate" /\ WorkerGoes("finish")
  /\ status' = WithMessage(WithMessage(status))
  /\ succeeded' \in BOOLEAN
  /\ UNCHANGED <<toRead, elapsed, stopOk, returned, readerVars, serverVars>>

\* Fault: every job that did not succeed is recorded as stopped.
FinishAsStopped ==
  /\ workerPc = "finish" /\ WorkerGoes("deactivate")
  /\ status' = [status EXCEPT !.hasResult = TRUE, !.succeeded = succeeded,
                              !.stopRequested = ~succeeded]
  /\ UNCHANGED <<toRead, elapsed, stopOk, returned, succeeded, readerVars, serverVars>>

\* finish_readout_status(success, g_readout_stop_requested)
FinishStatus ==
  /\ workerPc = "finish" /\ WorkerGoes("deactivate")
  /\ status' = [status EXCEPT !.hasResult = TRUE, !.succeeded = succeeded,
                              !.stopRequested = stopReq]
  /\ UNCHANGED <<toRead, elapsed, stopOk, returned, succeeded, readerVars, serverVars>>

\* The last statement of the thread.
Deactivate ==
  /\ workerPc = "deactivate" /\ workerPc' = "done" /\ active' = FALSE
  /\ UNCHANGED <<shellVars, signalVars, stopReq, setup, status, toRead, elapsed, stopOk,
                 returned, succeeded, readerVars, serverVars>>

-----------------------------------------------------------------------------
(* The reader thread.                                                        *)

ReaderGoes(pc) ==
  /\ readerPc' = pc
  /\ UNCHANGED <<shellVars, signalVars, flagVars, setup, workerVars, serverVars>>

FrameArrives ==
  /\ readerPc = "read" /\ stream = "open" /\ ~cancelled /\ sent < MaxFrames
  /\ sent' = sent + 1

\* A data frame of a detector of the job: written to its file and flushed.
FrameWritten(d) ==
  /\ FrameArrives /\ d \in setup.dets /\ ReaderGoes("count")
  /\ written' = [written EXCEPT ![d] = @ + 1] /\ source' = d
  /\ UNCHANGED <<status, readFailed>>

\* A malformed frame, or one of an address outside the job, is dropped with a
\* message; the loop continues without looking at the stop flags.
FrameDropped ==
  /\ FrameArrives /\ ReaderGoes("read")
  /\ status' = WithMessage(status)
  /\ UNCHANGED <<written, source, readFailed>>

\* Fault: the frame is counted although its write failed.
FrameCountedUnwritten ==
  /\ FrameArrives /\ ReaderGoes("count")
  /\ status' = WithMessage(status) /\ readFailed' = TRUE
  /\ UNCHANGED <<written, source>>

\* A data frame that cannot be written.
FrameNotWritten ==
  /\ FrameArrives /\ ReaderGoes("read")
  /\ status' = WithMessage(status) /\ readFailed' = TRUE
  /\ UNCHANGED <<written, source>>

\* A housekeeping frame, written or not.
HkArrives ==
  /\ FrameArrives /\ ReaderGoes("check")
  /\ \/ UNCHANGED <<status, readFailed>>
     \/ status' = WithMessage(status) /\ readFailed' = TRUE
  /\ UNCHANGED <<written, source>>

FrameCounted ==
  /\ readerPc = "count" /\ ReaderGoes("check")
  /\ status' = [status EXCEPT !.frames[source] = @ + 1]
  /\ UNCHANGED <<source, readFailed, written, sent>>

StopChecked ==
  /\ readerPc = "check" /\ ReaderGoes(IF StopSeen THEN "finish" ELSE "read")
  /\ UNCHANGED <<status, source, readFailed, written, sent>>

\* Read returns false once the server closed the stream or it was cancelled.
EndOfStream ==
  /\ readerPc = "read" /\ (stream \in {"closed", "broken"} \/ cancelled)
  /\ ReaderGoes("finish")
  /\ UNCHANGED <<status, source, readFailed, written, sent>>

\* Finish waits for the final status; only CANCELLED and OK are no failure.
ReaderFinished ==
  /\ readerPc = "finish" /\ (stream \in {"closed", "broken"} \/ cancelled)
  /\ ReaderGoes("done")
  /\ \/ stream = "broken" /\ status' = WithMessage(status) /\ readFailed' = TRUE
     \/ stream # "broken" /\ UNCHANGED <<status, readFailed>>
  /\ UNCHANGED <<source, written, sent>>

-----------------------------------------------------------------------------
(* The server.                                                               *)

\* It ends its side of the call, in order or not, unless the client, which
\* sees CANCELLED then, was first.
ServerCloses ==
  /\ stream = "open" /\ ~cancelled /\ stream' \in {"closed", "broken"}
  /\ UNCHANGED <<shellVars, signalVars, flagVars, setup, status, workerVars, readerVars,
                 responsive, observing, cancelled>>

ServerHangs ==
  /\ ServerMayHang /\ responsive /\ responsive' = FALSE
  /\ UNCHANGED <<shellVars, signalVars, flagVars, setup, status, workerVars, readerVars,
                 observing, stream, cancelled>>

-----------------------------------------------------------------------------
SignalStep == SigintRaised \/ SigintForwarded

\* Steps the operator chooses to take ...
OperatorStep ==
  \/ PromptCancelled \/ StartCommand \/ StopCommand \/ StatusCommand \/ Shutdown
  \/ \E kind \in {"shared", "exclusive"} : OtherCommand(kind)

\* ... and those that complete a command he entered.
CommandStep ==
  \/ LoopTop \/ PrepareFailed \/ Activate \/ Launch \/ StopStored
  \/ StatusPrinted \/ StatusDone \/ OtherCommandDone \/ ShutdownJoined
  \/ \E job \in Jobs, dets \in SUBSET Detectors : Prepared(job, dets)

WorkerStep ==
  \/ OpenFiles \/ ReadFlag \/ FlagsRead \/ StartStream \/ SpawnReader \/ MarkStarted
  \/ LoopIteration \/ LoopExpired \/ StopStream \/ CancelStream \/ JoinReader
  \/ Return \/ Calibrate \/ FinishStatus \/ Deactivate

FrameStep ==
  \/ FrameDropped \/ FrameNotWritten \/ HkArrives
  \/ \E d \in Detectors : FrameWritten(d)

ReaderStep == FrameCounted \/ StopChecked \/ EndOfStream \/ ReaderFinished

ServerStep == ServerCloses \/ ServerHangs

Next ==
  \/ SignalStep \/ OperatorStep \/ CommandStep \/ WorkerStep \/ FrameStep
  \/ ReaderStep \/ ServerStep \/ Exited

Spec == Init /\ [][Next]_vars

\* Threads are scheduled: a step a thread can take without the operator or the
\* server sending something is taken. Ctrl-C may preempt the shell thread again
\* and again, hence strong fairness there. Nothing is assumed of an RPC without
\* a deadline to a server that does not answer; with a deadline it returns.
Fairness ==
  /\ WF_vars(SigintForwarded) /\ SF_vars(CommandStep)
  /\ WF_vars(WorkerStep) /\ WF_vars(ReaderStep)

FairSpec == Spec /\ Fairness

-----------------------------------------------------------------------------
(* Safety.                                                                   *)

ShellType ==
  /\ shellPc \in ShellPcs /\ holder \in {"none", "global", "local"}
  /\ snap \in [result : Results \union {"none"}, started : BOOLEAN]
  /\ report \in Results \union {"unknown", "none", "starting", "running", "stopping"}
  /\ runs \in Nat
FlagType ==
  /\ handler \in {"idle", "forward"} /\ interrupted \in BOOLEAN
  /\ active \in BOOLEAN /\ stopReq \in BOOLEAN
JobType ==
  /\ setup \in [job : Jobs, prefix : Nat, dets : SUBSET Detectors]
  /\ status \in Status
WorkerType ==
  /\ workerPc \in WorkerPcs /\ toRead \in SUBSET Detectors /\ elapsed \in Nat
  /\ stopOk \in BOOLEAN /\ returned \in {"none", "ok", "stop", "error"}
  /\ succeeded \in BOOLEAN
ReaderType ==
  /\ readerPc \in ReaderPcs /\ source \in Detectors /\ readFailed \in BOOLEAN
  /\ written \in [Detectors -> Nat] /\ sent \in Nat
ServerType ==
  /\ responsive \in BOOLEAN /\ observing \in BOOLEAN
  /\ stream \in {"none", "open", "closed", "broken"} /\ cancelled \in BOOLEAN

\* Every variable has its type.
TypeOK ==
  /\ ShellType /\ FlagType /\ JobType /\ WorkerType /\ ReaderType /\ ServerType

\* No std::terminate: a new worker is never assigned over a joinable
\* g_readout_worker, and the process never exits, which destroys it, while it
\* is joinable or while the worker or the reader still runs.
NoTerminate ==
  /\ shellPc \in {"prepare", "activate", "launch"} => holder = "none"
  /\ shellPc = "exited" => holder = "none" /\ WorkerStopped /\ ReaderStopped

\* No data race on g_stub and g_last_set_vareg_path: the shell runs a command
\* that may replace them only while neither the worker nor the reader, which
\* use them without a lock, is alive.
NoConcurrentReplacement ==
  shellPc = "exclusive" => WorkerStopped /\ ReaderStopped

\* The reader holds references to locals of do_readout_foreground: it lives
\* only between the statements that spawn and join it, whatever way the
\* function takes to its return.
ReaderWithinScope ==
  ~ReaderStopped => workerPc \in {"mark", "loop", "stop", "cancel", "join"}

\* A job reported as completed lost no frame to a write error, saw no stream
\* error, and had its stop confirmed, so that the server is not left in
\* observation mode.
CompletedIsGenuine ==
  status.hasResult /\ status.succeeded =>
    ~readFailed /\ stopOk /\ ~observing /\ stream # "broken"

\* The frame counters the operator sees are those of frames on disk: never
\* more, at most the one frame being accounted less, and exactly those once
\* the job has a result.
CountersMatchFiles ==
  \A d \in Detectors :
    status.prefix = setup.prefix /\ ~WorkerStopped =>
      /\ status.frames[d] <= written[d]
      /\ written[d] <= status.frames[d] + 1
      /\ status.hasResult => status.frames[d] = written[d]

\* The pedestal calibration reads a raw file of its own job, of the one
\* detector, that nobody writes any more and whose stream was stopped.
CalibrationInputFinal ==
  workerPc = "calibrate" =>
    /\ status.job = "pedcalib_readout" /\ status.prefix = setup.prefix
    /\ ReaderStopped /\ stopOk /\ ~observing

\* A job that is reported as failed left a message that says why, unless the
\* operator's Ctrl-C reached the worker before it was counted as a request to
\* stop.
FailureExplained ==
  status.hasResult /\ ~status.succeeded /\ ~status.stopRequested =>
    status.messages > 0 \/ returned = "stop"

\* A job that ends with the server still in observation mode, because a reply
\* to StartDataStream or StopDataStream was lost, left a message in its status.
ServerLeftObservingExplained ==
  ~active /\ observing /\ status.hasResult => status.messages > 0

\* A result that `readout status` prints is the recorded result of the last
\* job, although the status and the active flag are read at different times.
PrintedResultIsRecorded ==
  shellPc = "reported" /\ report \in Results => report = ResultOf(status)

(* Action properties.                                                        *)

\* A request to stop the active job is never withdrawn before that job ends.
StopRequestSticks ==
  [][active /\ stopReq => stopReq']_vars

\* Once recorded, a result and the counters and messages under it do not
\* change until the status is reset for the next job.
ResultIsFinal ==
  [][status.hasResult /\ status'.prefix = status.prefix => status' = status]_vars

-----------------------------------------------------------------------------
(* The implementation of AcquisitionJob: a job is in progress while          *)
(* g_readout_active is set, and its outcome is the recorded one.             *)

JobPhase ==
  CASE active /\ ~status.started -> "starting"
    [] active /\ status.started -> "running"
    [] ~active /\ status.hasResult -> "ended"
    [] ~active /\ ~status.hasResult -> "idle"

Job == INSTANCE AcquisitionJob WITH
         phase <- JobPhase, asked <- stopReq, outcome <- ResultOf(status)

\* The threads together implement one job at a time, with one outcome settled
\* before the job is seen to end and requests to stop that are never lost.
ImplementsJob == Job!Spec

-----------------------------------------------------------------------------
(* Statements of the documentation and of comments that the code does not    *)
(* keep.                                                                     *)

\* On completion `readout status` distinguishes a normal completion, an
\* operator stop and a failure (docs/COMMANDS.md:390): for a job that has ended
\* it prints a result, and one that fits the statement with which
\* do_readout_foreground returned.
StatusTellsOutcome ==
  shellPc = "reported" /\ report \in Results \union {"none"} /\ runs > 0 =>
    /\ report # "none"
    /\ returned = "error" => report = "failed"
    /\ returned = "stop" => report = "stopped"

\* A job that returned success recorded for the requested duration
\* (docs/COMMANDS.md:379), which is also the exposure time in the attributes of
\* its files and in log.txt, or longer by less than one poll of the loop.
NoShortExposure == returned = "ok" => elapsed >= Duration

-----------------------------------------------------------------------------
(* Liveness.                                                                 *)

\* The only wait of the worker without a bound: a ForcetrigFlag is read from
\* a server that has stopped answering.
StuckInFlagRead == workerPc = "flags" /\ ~responsive

\* A job ends, whatever the operator does and even when the server stops
\* answering, unless it is stuck in a ForcetrigFlag read.
JobEndsUnlessStuck == active ~> (~active \/ StuckInFlagRead)

\* `exit` waits for the worker and terminates, with the same exception.
ExitCompletesUnlessStuck == shellPc = "join" ~> (shellPc = "exited" \/ StuckInFlagRead)

\* Without the exception: the shell's exit never waits forever for a server
\* that becomes unresponsive before the stream starts (src/commands.cc:1560).
ExitCompletes == shellPc = "join" ~> shellPc = "exited"

=============================================================================
