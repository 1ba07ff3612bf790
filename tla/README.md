# hero_shell in TLA+

`hero_shell` is an interactive and scriptable shell that operates CdTe detectors through a gRPC
server: it registers devices, reads and writes their registers, uploads VAREG images, and runs
acquisitions in the background while the operator goes on typing.  This directory holds TLA+ models
of it, TLC configurations that check them on small instances, and TLAPS proofs of the properties
that matter most.  File and line references are to the repository (`src/commands.cc:1524` is a file
of the source tree, `docs/COMMANDS.md` and `README.md:50` are its documentation).

## 1. The system

### 1.1 Components

| component | state it keeps | operations | interacts with |
|---|---|---|---|
| **Acquisition jobs** (`commands.cc`: `do_readout*`, `do_pedcalib_readout`, `shutdown_readout`) | atomics `g_readout_active`, `g_readout_stop_requested`; `g_readout_status` under a mutex; `g_readout_worker` (a `std::thread`); locals of the worker; raw and HK files | `readout`, `pedcalib_readout`, `readout status`, `readout stop`, exit | shell thread, worker thread, reader thread, SIGINT handler, server (stream and unary RPCs), file system, the calibration tools |
| **Connection and devices** (`commands.cc`: `do_connect` … `do_set_linkspeed`) | `g_stub`, `g_current_endpoint`, `g_current_state`, `g_router_count`, `g_detector_count`, `g_last_set_vareg_path` | `connect`, `add_*`, `remove_*`, `remove_all_devices`, `reconnect_device`, `list_*`, `configure_fpga`, `set_vareg`, `set_linkspeed` | the server's registry, which other clients change too; completion, help and prompt read the state |
| **Register access** (`grpc_funcs.hh`, `do_get`, `do_set`) | none beyond one call; the server's task queue | `get`, `set`, `show`; the ForcetrigFlag reads of the worker | submit-and-poll RPCs of two threads on one queue |
| **Interpreter and scripts** (`hero_shell.cc`: `main`, `run_shell`, `load_script`, `execute_command`) | `g_interrupted`, the recursion itself, the exit code | command dispatch, `@script`, `sleep`, `exit`, Ctrl-C | every command; the job's flags |
| Batch readout | locals only | `readout` in a script given to the program | as the acquisition, on the shell thread |
| **Lines and tokens** (`shell_utils.hh`, the joining loops of `hero_shell.cc`) | the command being put together | `split_shell_like`, `consume_line_continuation`; the number parsers | the interpreter |
| **Raw data reader** (`raw_data_file.hh`, `frame_analyzer.hh`) | position in one file, in one frame | `GetNextFrame`, `UnpackNextEvent` | `calc_pedestal`, `raw2root` |
| **Calibration tools** (`calc_pedestal.cc`, `set_delreg.py`, `vareg.py`) | samples | median, Del register, VAREG image | run by the worker as a shell pipeline after a `pedcalib_readout` |
| `raw2root` | events of one or more files | the loop over frames and events | the reader; ROOT |
| Completion, help and prompt (`completions.cc`) | none | candidates for a Tab, some of them from an RPC | the state of the connection |
| Checksums, base64, protocol and build files | – | – | – |

### 1.2 What is hard

* Three threads and a signal handler share four pieces of state, most of it atomics that are read
  and written one by one: a job is started, stopped, reported on and joined in steps that others
  see in between.
* Three *different* flags end a job (`g_interrupted`, `g_readout_stop_requested`, a failure), and
  the first is also the shell's own, cleared at every prompt.
* Almost all RPCs are without a deadline.  A reply may be lost after the server acted; the server
  may refuse, hang, or break the stream, each between any two steps of the client.
* Commands are sequences of RPCs that can end half-way, with state on both sides.
* `load_script` and `execute_command` recurse into each other, and a failure or a Ctrl-C has to
  travel through all levels.
* Raw files have no checksums.  After lost or altered bytes the readers search for the next frame or
  event byte by byte, in a payload that may look like anything, and the size of an event depends on
  flags inside it.
* The calibration is a pipeline whose exit status is that of its last program, and it takes a global
  variable for the register its data was taken with.

`PROJECT.json` lists each of these under `hazards` at the line where it bites, with the properties
that watch it.

### 1.3 What makes each component correct

* **Jobs**: no `std::terminate` and no dangling reference on any way through start, stop, end and
  exit; no use of `g_stub` while it is replaced; a result that is genuine, final, explained and
  printed as recorded; counters that agree with the files; a request to stop that is never lost;
  every job, and every exit, ends.
* **Connection and devices**: state, stub and counts change together; the counts in the prompt are
  those of the server up to what the shell cannot know; the recorded VAREG file is one the server
  accepted; commands return; a connection attempt can be interrupted.
* **Registers**: a `set` that succeeded is in effect, a `get` that succeeded shows the register,
  also after commands that were given up; every command returns unless the server stops answering.
* **Interpreter**: fail fast through every level, at most one more command after a Ctrl-C, an exit
  code that tells, a bounded recursion.
* **Lines**: a command has the tokens that its lines, joined, say; no part of a command is executed
  unreported; no command of a file is left out.
* **Reader**: what is returned was written, whole; what is lost is near the damage; every search ends.
* **Calibration**: a register is written only from medians of all channels, and aligns them as far
  as it reaches; it is the register of the detector that took the data.

## 2. Modules

| module | is |
|---|---|
| `AcquisitionJob` | abstract specification: one job at a time; a request to stop sticks; one outcome, settled once |
| `Readout` | the threads of a background acquisition, step by step; implements `AcquisitionJob` |
| `ReadoutInvariant` | its inductive invariant, in named parts |
| `Readout_proofs` | its theorems |
| `Session`, `Session_proofs` | connection and device commands, RPC by RPC; their invariant and theorems |
| `Registers` | submit-and-poll register access of two threads |
| `RegistersInvariant`, `Registers_proofs` | its inductive invariant, in named parts, and its theorems |
| `Script`, `Script_proofs` | the interpreter; its invariant and theorems |
| `Lines`, `Lines_proofs` | from lines to commands: continuation and tokens; invariants and theorems |
| `RawData` | the reader of raw files and the unpacking of events, in `raw2root` and `calc_pedestal` |
| `RawFiles`, `RawFiles_proofs` | how the files were laid out that it reads, and what one damage leaves of them; theorems on what it returns |
| `Pedestal`, `Pedestal_proofs` | extends `RawData` by the rest of the calibration pipeline, medians and Del register; invariant and theorems |
| `FiniteInduction` | lemmas on finite sets, induction and recursion |
| `MCReadout`, `MCSession`, `MCRegisters`, `MCScript`, `MCLines`, `MCPedestal` | instances for TLC |

Each component has its own module because they meet only at the dispatcher: a job and the shell's
other commands touch disjoint state as long as commands that are not in `kReadoutSafeCommands` are
refused (`hero_shell.cc:42`).  (The readers of raw files are separate programs and meet the shell
only through the file.)  `Readout` keeps just that of the other commands (`OtherCommand`,
kinds *shared* and *exclusive*) and proves that the separation holds (`NoConcurrentReplacement`).

Definitions named *Fault* in their comment are no part of any specification.  Each is a changed
version of the definition after it, with a bug that code could plausibly have, and each property
has one under which it fails.

### 2.1 Readout

One variable per global of the program (`active`, `stopReq`, `interrupted`, `status`, `holder` for
who owns the thread object) and per local that outlives a step (`snap`, `setup`, `toRead`,
`stopOk`, `readFailed`, `written`, …), with a program counter per thread.  A step is one access to
shared state or one RPC; a critical section of `g_readout_status_mutex` is one step, and so is the
look at both stop flags in one condition.  The mapping of steps to code:

* shell: `LoopTop` clears `g_interrupted`; `StartCommand` joins an ended worker; `Prepared` reads
  the job's set-up and resets the status, `Activate` sets the active flag, `Launch` starts the thread
  (`commands.cc:1962-1990`); `StatusCommand` / `StatusPrinted` are the two reads of `readout status`;
  `Shutdown` / `ShutdownJoined` are `shutdown_readout`.
* handler: `SigintRaised` sets `g_interrupted`, `SigintForwarded` then tests the active flag and sets
  the stop flag: two steps that preempt the shell thread.
* worker: `OpenFiles`, `ReadFlag`/`FlagsRead`, `StartStream`, `SpawnReader`, `MarkStarted`,
  `LoopIteration`/`LoopExpired`, `StopStream`, `CancelStream`, `JoinReader`, `Return`, and, around
  it, `Calibrate`, `FinishStatus`, `Deactivate`.  `Verdict` is the chain of return statements.
* reader: a frame of a registered detector is written (or not), then counted; a frame of another
  address is dropped; then the flags are checked; the end of the stream leads to `Finish`.
* server (external): it streams, refuses, loses a reply after acting on it, closes or breaks the
  stream, or stops answering for good.

Frames have no content, files are counts of frames, messages are counted up to
`kMaxReadoutMessages`, and a time is a number of units in which `Duration` and `PollInterval` are
given.

### 2.2 Session

`pc` is where the command under way is, between two RPCs; the servers (external) hold a registry that
accepts what fits it, loses replies, is changed by `OtherClientChanges`, and may stop answering.
`excuse` is a history variable that says why the counts may be wrong, so that `CountsCurrent` claims
everything else.  The commands that only list, and the two that only forward their arguments, share
actions with no effect on the shell's state.

`lastVareg` is the path that an accepted `set_vareg` leaves behind, `loaded` (external) the image each
device was loaded with last.  A `pedcalib_readout` takes the former for the register its data is taken
with; the history variable `calibration` says whether that was so.  A Tab may ask the server for its
devices (`Completing`, `Completed`): an RPC like that of a command, on which the prompt waits.

### 2.3 Registers

`Begin` is `get`, `set` or a flag read of the worker with a list that may hold duplicates;
`Validated` is the device list check (all addresses first in `get`, one by one in `set`);
`Submitted`, `PollOk`, `PollWaiting`, `PollFailed` are the bodies of `rmapRead`/`rmapWrite`.  The
server (external) executes tasks in the order of submission: the client relies on it, since it has
no way to withdraw a task that it gave up.  A task that reports an error may still have written.
Both properties of the values also take it for granted that nothing else writes a register: other
clients of the server, and devices that change registers by themselves, are not modelled, and the
code has no defence against either.  The server may stop answering for good (`ServerHangs`).  The
device list, the submission and the poll have no deadline (`grpc_funcs.hh:47`, `79`, `115`, `148`), so
`CommandReturns` excepts a command that is in one of them then (`Stuck`).

### 2.4 Script

A script is a file of any length whose lines are chosen when they are read, so the call stack of the
program is just its depth; `TRUE` and `FALSE` travel up in `result`.  Commands are sorted by what
they do with the flags: *shared* ones run during an acquisition, *exclusive* ones do not, `sleep` and
`connect` consume a Ctrl-C, `readout` in a batch leaves it to the script, `readout` in an interactive
shell starts a job.  `main` makes the same call as the prompt, with a script.

### 2.5 Lines

A line is a sequence of characters of the classes that the code tells apart: backslash, quote, blank,
carriage return, `#`, and any other.  `Scan` is the loop body of `split_shell_like`, `Scanned` its state after each character; a continued line
is joined as `load_script` and `run_shell` do it, which differ in what ends a continuation: the end
of the file is reported, Ctrl-C at the terminal drops the line.  The properties do not run
the scanner again: `Tokens` says for each *position* of the joined text whether it is escaped,
quoted or a separator.

### 2.6 RawData and Pedestal

A file is a sequence of cells.  A cell stands for a header, a footer, the channel flags of an event, a
sample, or a part of what is only copied.  The program sees of it what its bytes look like to the
comparisons with headers and footers (`kind`), and what they are as flags and as a sample.  As what
the cell was written (`role`), where (`record`, `index`), and whether it was `altered` since is for the
properties and the environment; the actions look at it only for what a search of bytes can meet that
one of cells cannot.  `kind` and `role` differ where a body looks like a mark: an event counter of
30583, say, holds the bytes of an event's footer.  `skipped` is a history variable, of where an HK
header was seen.

The code searches byte by byte, the model cell by cell.  What lies across two cells, the end of one and
the beginning of the next, counts as the later one's.  A footer found there leaves the reader *inside*
that cell (`Inside`), where no header is seen and the frame ends (`FrameEnds`), or, if it fills the
cell, behind it (`EventSkipped`).

`NewFrame`, `OldFrame`, `HkSkipped`, `Resynchronised` and `ReadingEnds` are
the returns of `GetNextFrame`, `EventUnpacked`, `EventSkipped`, `FrameEnds` and `HeaderCutOff` those
of `UnpackNextEvent`.

* An event has one ASIC, where the code reads four by the same loop.  What decides about an event is
  unchanged: a size that depends on the flags, and a footer expected there.
* A body may look like any header or footer, and the properties say what then is lost.  Where a header
  or a footer is expected, the reader believes what it sees: a data header and footer at the distance of
  a record are a frame (`FramesGenuine` excepts look-alikes at just these places), and a record whose
  header lies in such a false frame is lost (`InFalseFrame`).  After a damaged footer, the search for
  the next may stop within the next event, at a look-alike: no header follows, the frame ends, and what
  was behind is lost (`StopsAstray`, which `LostTo` allows).  One thing is asked of the writer: the
  filling behind the last event does not begin like another event.
* `TestBit` takes any bits for flags, and reads beyond the end of the frame unchecked; where no flags
  are, what it finds is any set of channels (`HitsAt`).  The fixed part of a header is checked and throws (`HeaderCutOff`).
* A file whose first cell is no header of the old format is read as one of the new format, which has
  no footers and no resynchronisation.  If it was an old file that lost its first header (`Misread`),
  what is returned are no frames; `EventsGenuine` still claims the events in it whose own headers
  are as written.  The files of the new format that the instance starts from
  are whole frames, as the shell writes no others (`commands.cc:1603`).
* An HK record has no footer.  One that lost bytes, or what looks like the header of one, is skipped
  with the beginning of the next record, which `IntactFramesReturned` excepts (`BehindHk`).
* `RawFiles` says what the properties take for granted of the files: headers, footers and events are
  where the readers expect them (it is external: the detector and its readout software write them),
  and one damage has cut the file short, taken out less than a data record, or overwritten one cell.
  A loss of exactly a record's length could leave the beginning of one record and the end of the next
  with a footer where it belongs, which no reader of this format can tell from a frame.  Of what the
  bodies hold nothing is assumed.
* Nothing protects a payload: an altered sample is delivered as it is, altered flags make an event of
  other cells.  `EventsGenuine` claims an event only if its own flags are as written.

`calc_pedestal` prints medians channel by channel, so a channel without samples ends it after some of
its output (`MediansPrinted`); `set_delreg.py` then finds too few numbers (`RegisterRejected`).  It may
also reject its input for reasons outside the model.  Medians are doubled, to be integers, and rounded
half to even, as Python does.

## 3. What is checked

| run | instance | shows |
|---|---|---|
| `Readout` | 2 jobs, 2 detectors (symmetric), 1 frame, 2 time units, hanging server | type invariant, lifetime of the reader, genuine completion, counters against files, explained failures, no `std::terminate`, no race on the stub, calibration input, printed and final results, and `AcquisitionJob` implemented |
| `ReadoutLive` | 1 job, 1 frame, fairness, hanging server | a job ends and `exit` completes, except while stuck in a flag read |
| `Session` | 2 servers, 1 address, 1 file, fairness, hanging servers | state and counts; commands return; `connect` can be interrupted |
| `Registers` | 1 device, 1 stranger, 2 values, queue of 2, 3 tasks, 1 attempt, fairness, hanging server | what succeeded is so; commands return, except while stuck in an RPC to a server that stopped answering |
| `Script` | the depth of the code, 10, fairness | fail fast, Ctrl-C, exit code, recursion limit; a Ctrl-C ends endless scripts |
| `Lines` | all single lines of up to 5 characters, two lines of up to 2, three of up to 2 without blanks, two of up to 3 with carriage returns and without quotes | tokens, whole commands, no command left out |
| `Pedestal` | 2 channels, frames of 14 cells, two frames or frame, HK record, frame, with one damage, bodies that look like headers and footers, at most 3 events, registers up to 2, fairness | frames and events genuine, losses contained, medians, the new register; every program ends |

The bounds, each a CONSTANT named in its module:

* Two jobs are enough for what one job can leave to the next, since a job starts only after the
  thread of the one before has been joined.  Two detectors tell a frame counted for the wrong one;
  one frame can be written, lost or unregistered, and a second job brings another.
  `Duration` 2 with `PollInterval` 1 lets the loop go round, be interrupted and expire.  (The theorems
  hold for 0 as well, which `readout 0s` asks for.)
  `MaxMessages` 1 reaches the limit of the message list.
* Two servers let `connect` replace a connection by another.  One address is enough for a count, or
  a recorded file, to be wrong.
* A queue of two, and three tasks, let an abandoned write stand before another thread's read and a
  later command; one attempt makes every poll the last.
* The single lines of `Lines` hold an escaped quote, a quoted blank, or a quote that stays open; two
  and three lines hold a continuation after a continuation, after a comment, and before the end.
* Two channels are the least that can be aligned with each other.  A frame holds two full events,
  three of which two are empty, or two that leave a last cell free, in which a header is cut off; so
  there is an event behind what was damaged.  The damages are:
  the file cut short anywhere; 1, 2, 3 (the HK record's size) or 16 cells (all but one of a record)
  lost anywhere; each cell overwritten by any header, footer or other flags.  `MaxEvents` 3 ends the reading within a frame.
  Three pairs of frames hold look-alikes (`LookAlikePairs`): of a footer within the second of three
  events, so that damage to the first loses the third; of a data header and a data footer at the distance
  of a record, across two of them; of an event in the filling.
* `Script` needs no bound on files: 10 is the code's own.

Fairness is that of the threads alone: a thread that can take a step takes one (the kernel schedules
them, and no thread waits for a lock that is held across a wait).  `CommandStep` of `Readout` has
strong fairness since Ctrl-C disables it again and again without ending it.  Nothing is assumed of
the operator, of a frame's arrival, or of an RPC without a deadline to a server that has stopped
answering; an RPC with a deadline returns.  The programs of `Pedestal` run on their own: fairness is
that they take their next step.  In `Script` a command is assumed to return; that is what
`Session`, `Registers` and `Readout` examine.  `CHECK_DEADLOCK FALSE` appears where such an RPC may
block the program for good, and in `Pedestal`, whose programs end; in the other runs the only terminal
state is the exit, or the end of the input.

### 3.1 Where the code does not do what its documentation says

Five runs end in the violation of a property that states what the documentation says:

* `FindExitHang` – exit waits for the worker, which may be in a ForcetrigFlag read without a deadline
  (`commands.cc:1524`), although the comment at `commands.cc:1560` says an unresponsive server must
  not keep the shell from exiting.
* `FindStatusOutcome` – `readout status` copies the status before it loads the active flag
  (`commands.cc:1892`): a job that ends in between is shown without a result.  The recorded outcome
  likewise reads the stop flag after the job has returned (`commands.cc:1984`).
* `FindShortExposure` – a Ctrl-C while a job is being prepared is seen by its loop but not counted as
  a request to stop: it completes with less exposure than its files and `log.txt` say.
* `FindStaleVareg` – a calibration corrects `g_last_set_vareg_path` (`commands.cc:1819`), which is not
  the register the detector has after a `connect` to another server, or after another device was
  loaded since, although `docs/COMMANDS.md:476` speaks of the current one.
* `FindReconnectHang` – `reconnect_device` bounds one of its two RPCs.

Met on the way and left without a run: a failed `connect` keeps the previous connection
(`commands.cc:525-533`), where `docs/COMMANDS.md:116` says that it leaves the shell disconnected;
`set` is in `kReadoutSafeCommands` (`hero_shell.cc:42`), where `docs/COMMANDS.md:382` says that
configuration commands are rejected during a readout; a script that ends in a continued line reports
the error and then executes the truncated line (`hero_shell.cc:499-505`); a comment line that ends in
a backslash swallows the line after it; a line with a second backslash before the one that continues
it is continued once more if a blank line follows (`Unambiguous` excepts just this); `remove_all_devices`
that stops half-way leaves the old counts in the prompt (`commands.cc:899`).

## 4. What is proved

The theorems hold for every value of the constants (detectors, durations, numbers of jobs and frames,
servers, addresses, files, depth, lines), with the assumptions named in the modules: numbers are natural,
where it matters positive; `Addresses` is finite; the placeholder strings are no element of the sets
they complete.

**Readout** (`Readout_proofs`).  `Inv` of `ReadoutInvariant` is inductive.  The safety properties are
not: that `exit` finds no running thread needs to know who owns the thread object and that the
active flag is set exactly while the worker lives (`Ownership`); that a completed job is genuine needs
what each return statement had established before the status was written (`Verdicts`), which needs
what the reader had seen when it was joined (`ReaderLifetime`); that counters match files needs the
one frame in flight (`Accounting`); that results are final and printed as recorded needs which job the
status belongs to and at which worker steps it may have a result (`StatusCurrent`,
`SnapshotCurrent`).  That failures are explained
needs where a message must already have been left while the job is still on its way (`Explained`).
From `Invariance` follow the type invariant, the nine safety properties of the run, two
action properties (`StickyStop`, that a request to stop is not withdrawn, is proved only), and
`Implementation`: initial states of `Readout` are initial states of
`AcquisitionJob`, and each step is a step of it or leaves its variables alone.  Steps that cannot
change what the refinement sees are dealt with in one lemma (`UnseenStep`).

**Session** (`Session_proofs`).  The invariant adds to the type invariant what holds *during* a
command: between the two count RPCs the first is current unless excused, and the state may differ from
the counts only while they are being refreshed.  That the recorded file is one that some device was
loaded with (`ProvenanceAccepted`) is proved only.

**Registers** (`Registers_proofs`).  Neither property says anything of the queue, but both depend on it:
the answer of a task is seen a poll after its execution.  `Fifo` says that executed tasks come before
queued ones; `Undisturbed`, that behind the task the shell polls for there are only reads (the other
thread only reads), so that its answer still tells of the register; `Settled`, that once a command
without failure is past an address it is right about it and no write is queued but its own: what
earlier commands gave up has been executed, since it was submitted earlier.  This is where the order of
execution on the server is needed.

**Script** (`Script_proofs`).  The depth is bounded by one more than the limit, and by the limit
where a command is dispatched; a failure is in flight exactly on the way up; a Ctrl-C that has let
a command begin is either pending or has been turned into a failure.

**Pedestal** (`Pedestal_proofs`).  The theorems hold for every file and every damage: the type invariant
(the reader and the unpacker stay within the file, a written register within its bits), what medians
are, and that a register is written only from all of them and aligns the channels.  The invariant
follows the data: positions lie in the file (`WithinFile`), so do the samples of each valid event
(`SamplesRead`), what was printed are medians of them (`MediansOfEvents`), and the register was computed
from all of those (`RegisterOfMedians`).  That there is a greatest pedestal, and a sample that
`std::nth_element` can find, is proved of arbitrary finite sets (`Greatest` of `FiniteInduction`, `NthExists`) without
induction, from the well-foundedness of inclusion among finite sets.

`Progress` is the safety half of `Terminates`: `StepsLeft`, a number computed from the cells of the file
that are left, those of the frame at hand and the programs still to run, is lowered by every step.
A search that stayed where it is (`ResynchronisedHere`) would break it.

**RawFiles** (`RawFiles_proofs`).  The properties on which frames and events are returned are theorems
for files of any length, in both formats, with records in any order, any payload, what looks like
headers and footers included, and frames of any size, under `DamageAssumption` of `RawFiles` (the file
was whole and has one damage, and the filling behind the events of a frame does not begin like an event)
and `RawDataAssumption` (an HK record is no longer than a frame).  The argument has three parts.

* What a damage leaves: at most one cell is altered, and each other one is that of the whole file at
  the same place, or moved by what was lost (`OneDamage`, `CellLeft`).  So an unbroken stretch of
  cells was moved as a whole (`ShiftOfUnbroken`), and a stretch between a header and a footer at the
  distance of a record belongs to one record, unless one of the two is a look-alike
  (`MarksOfOneRecord`): one damage cannot alter a header and shift a footer too.  Of each frame that is returned it is then known where its events begin and
  end, from how frames are laid out (`AsWrittenLaid`).
* The reader: what it returned lies between a header and a footer (`BetweenMarks`) or, in the new
  format, is a frame (`FrameByFrame`); it has passed no intact record (`NonePassed`), which needs that
  the resynchronisation moves by one and that a genuine header is never inside a returned record or, but
  for the cases `IntactFramesReturned` excepts, inside a false one or an HK record that is skipped.
* The unpacker: in a frame as it was written it stands behind a footer (`InStep`), so that a header
  found there is one, or the altered cell, unless a damage before it has led it astray (`Astray`): altered
  flags, or a footer that the search missed.  What it has passed it has delivered, or there is a damage
  that can hide it (`Settled`, the most laborious part; `LostWhenAstray` for what is behind a search gone
  astray); no event is delivered before a position it has passed (`Place`).

`IntactFramesReturned`, `EventsGenuine` and `GivesUpOnlyOnDamage` are conjuncts of the invariant
(`RawInv`) as well; `FramesGenuine` and `EventsDelivered` follow from it.

**Lines** (`Lines_proofs`).  All three properties are theorems for any lines, however many and long,
without assumption but the type of `Inputs`.  `Unambiguous`, which the properties themselves require, is
what section 3.1 says of a second backslash: if the line behind it is not blank, the joined line is
continued as this one is, and the first backslash escapes the space between the two
(`JoinedToBackslash`).

* *The tokenizer*: `SplitIsTokens`, that the loop of `split_shell_like` returns the tokens that the
  positions of quotes, escapes and blanks define, for every text.  After n characters `escaped` and
  `in_quote` are what the definition says of position n + 1, `in_token` what it says of position n; the
  tokens so far are those whose first separator has been passed, and the current one is what is kept of
  the stretch since its start, which is behind all others (`Agrees`; `ScanAgrees` is its step).
* *Continuation*: `rstrip` and `consume_line_continuation` are described by where the final backslash
  of a text is (`StrippedAt`, `ConsumedAt`), so that what is put together is continued exactly if the
  last line read is (`Joining`), and by what they leave of two texts with a blank between
  (`StrippedSpaced`, `ConsumedSpaced`), so that what is put together, without its backslash, is
  the text of its lines, and is empty exactly as long as no line adds anything (`Assembled`).
  `NothingPartial` and `TokensProper` follow.
* *Which commands*: the first lines of the commands executed ascend (`Ordered`, `CommandsInOrder`), and
  are all lines before the next one at which a command begins that is not ignored (`Listed`);
  within the lines of a command none begins (`NextCommands`).  `EveryCommandExecuted` follows.

The library's induction theorems take an operator as a parameter, which these provers cannot instantiate.
`FiniteInduction` therefore states induction of a *set* of numbers (`Counting`) and recursion of a step
*function* (`Recursion`), both proved from the well-foundedness of inclusion.  `Recursion` gives a
function that satisfies the equation of `Scanned`, or `TextFrom`, and hence that the recursive
definition satisfies it too.

Only model-checked: liveness, which rests on fairness and `ENABLED` (`JobEndsUnlessStuck`,
`ExitCompletesUnlessStuck`, `CommandReturns`, `ConnectInterruptible`, `InterruptEndsScript`, `Terminates`).
All other properties of the passing runs are theorems.  Of `Terminates` the theorem
`Progress` leaves only that a step that can be taken is taken, and that one can until a program ends.

## 5. What is not modelled, and what comes next

Not modelled: what is printed (the texts of help, prompt, progress and tables, the candidates of a
completion), several files, the watch mode and the ROOT output of `raw2root`, how `vareg.py` packs
registers into an image, the number parsers, CRC and base64, build files.  Data is abstracted as
section 2 says, so the models say nothing of the bytes of a payload or the wording of a command.
The batch readout is one step of `Script`; its acquisition is that of `Readout` with shell and worker in
one thread.

In order of importance:

1. The batch readout as an instance of the acquisition without a worker thread, composed with
   `Script`.
2. The packing of `vareg.py`: a Del register read from an image and written to it leaves the other
   fields alone.
3. Damage of more than one cell (as an assumption of the theorems of `RawFiles`), and frames with more than two ASICs, in `Pedestal`.
4. The number parsers, at the ends of their ranges.
