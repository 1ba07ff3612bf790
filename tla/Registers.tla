----------------------------- MODULE Registers -----------------------------
(***************************************************************************)
(* Register access: `get` and `set` of the shell thread and the            *)
(* ForcetrigFlag reads of the readout worker, through rmapRead and         *)
(* rmapWrite, which submit a task to the server and poll for its result.   *)
(* Both threads use one server, whose task queue is bounded and executes   *)
(* tasks in the order of their submission.  A client that loses a reply or *)
(* runs out of attempts throws and leaves its task behind; one whose       *)
(* server stops answering waits for ever, for these RPCs have no deadline. *)
(* Nothing else writes the registers: no other client, no firmware.        *)
(***************************************************************************)
EXTENDS Naturals, Sequences

CONSTANTS
  Devices,      \* logical addresses of registered devices
  Strangers,    \* logical addresses of no registered device
  Values,       \* register values
  Initial,      \* the value of every register at first
  Unread,       \* no value
  MaxAttempts,  \* kRmapResultMaxAttempts
  QueueSize,    \* tasks the server's queue holds
  MaxTasks      \* bound: tasks submitted in one behaviour

ASSUME RegistersAssumption ==
  /\ Initial \in Values /\ Unread \notin Values
  /\ MaxAttempts \in Nat \ {0} /\ QueueSize \in Nat \ {0} /\ MaxTasks \in Nat

VARIABLES
  pc,        \* per thread: where its command is
  kind,      \* per thread: "get" or "set"
  list,      \* per thread: the logical addresses of the command, in order
  value,     \* per thread: the value to set
  rest,      \* per thread: addresses still to be done
  task,      \* per thread: the task it polls for
  attempts,  \* per thread: polls so far
  allOk,     \* per thread: no address has failed
  shown,     \* per thread: what it has read, by address
  queue,     \* server: tasks accepted and not executed, oldest first
  tasks,     \* server: every task accepted
  reply,     \* server: the result of each task
  register,  \* devices: the register
  responsive \* whether the server still answers

clientVars == <<pc, kind, list, value, rest, task, attempts, allOk, shown>>
taskVars   == <<queue, tasks, reply, register>>
serverVars == <<queue, tasks, reply, register, responsive>>
vars == <<pc, kind, list, value, rest, task, attempts, allOk, shown, queue, tasks, reply,
          register, responsive>>

-----------------------------------------------------------------------------
Threads   == {"shell", "worker"}
Addresses == Devices \union Strangers
Pcs       == {"idle", "validate", "submit", "poll"}

\* What parse_logical_address_spec returns: an address, or several, among which
\* there may be duplicates.
Lists == {<<a>> : a \in Addresses} \union {<<a, b>> : a, b \in Addresses}

Tasks   == [kind : {"get", "set"}, addr : Addresses, value : Values]
Replies == [status : {"waiting", "ok", "error"}, value : Values]
Waiting == [status |-> "waiting", value |-> Initial]

NothingShown == [a \in Addresses |-> Unread]

Init ==
  /\ pc = [t \in Threads |-> "idle"] /\ kind = [t \in Threads |-> "get"]
  /\ list = [t \in Threads |-> <<>>] /\ value = [t \in Threads |-> Initial]
  /\ rest = [t \in Threads |-> <<>>] /\ task = [t \in Threads |-> 0]
  /\ attempts = [t \in Threads |-> 0] /\ allOk = [t \in Threads |-> TRUE]
  /\ shown = [t \in Threads |-> NothingShown]
  /\ queue = <<>> /\ tasks = <<>> /\ reply = <<>>
  /\ register = [a \in Devices |-> Initial] /\ responsive = TRUE

-----------------------------------------------------------------------------
(* The commands.                                                             *)

\* `get`, `set`, or the flag reads of the worker, which reads the sorted
\* addresses of a job.
Begin(t, k, l, v) ==
  /\ pc[t] = "idle"
  /\ t = "worker" => k = "get" /\ Len(l) = 1 /\ l[1] \in Devices
  /\ k = "get" => v = Initial
  /\ pc' = [pc EXCEPT ![t] = IF t = "worker" THEN "submit" ELSE "validate"]
  /\ kind' = [kind EXCEPT ![t] = k] /\ value' = [value EXCEPT ![t] = v]
  /\ list' = [list EXCEPT ![t] = l] /\ rest' = [rest EXCEPT ![t] = l]
  /\ task' = [task EXCEPT ![t] = 0] /\ attempts' = [attempts EXCEPT ![t] = 0]
  /\ allOk' = [allOk EXCEPT ![t] = TRUE] /\ shown' = [shown EXCEPT ![t] = NothingShown]
  /\ UNCHANGED serverVars

\* Fault: the end of the list is noticed one address late.
AdvanceLate(t) ==
  /\ rest' = [rest EXCEPT ![t] = Tail(@)]
  /\ pc' = [pc EXCEPT ![t] = IF rest[t] = <<>> THEN "idle" ELSE "submit"]

\* On to the next address; `set` validates it first.
Advance(t) ==
  /\ rest' = [rest EXCEPT ![t] = Tail(@)]
  /\ pc' = [pc EXCEPT ![t] = CASE Tail(rest[t]) = <<>> -> "idle"
                               [] Tail(rest[t]) # <<>> /\ kind[t] = "get" -> "submit"
                               [] Tail(rest[t]) # <<>> /\ kind[t] = "set" -> "validate"]

\* An exception: a get returns, a set goes on with the next address.
Fail(t) ==
  /\ allOk' = [allOk EXCEPT ![t] = FALSE]
  /\ \/ /\ kind[t] = "get"
        /\ pc' = [pc EXCEPT ![t] = "idle"] /\ rest' = [rest EXCEPT ![t] = <<>>]
     \/ kind[t] = "set" /\ Advance(t)
  /\ UNCHANGED <<kind, list, value, task, attempts, shown>>

Valid(t) ==
  CASE kind[t] = "get" -> \A i \in DOMAIN list[t] : list[t][i] \in Devices
    [] kind[t] = "set" -> Head(rest[t]) \in Devices

\* validate_logical_address, by get for all addresses before it reads any.
Validated(t) ==
  /\ pc[t] = "validate" /\ responsive /\ Valid(t)
  /\ pc' = [pc EXCEPT ![t] = "submit"]
  /\ UNCHANGED <<kind, list, value, rest, task, attempts, allOk, shown, serverVars>>

\* An address is unknown, or the device list could not be read.
NotValidated(t) == pc[t] = "validate" /\ responsive /\ Fail(t) /\ UNCHANGED serverVars

-----------------------------------------------------------------------------
(* rmapRead and rmapWrite.                                                   *)

Queued(t) ==
  /\ Len(queue) < QueueSize /\ Len(tasks) < MaxTasks
  /\ tasks' = Append(tasks, [kind |-> kind[t], addr |-> Head(rest[t]), value |-> value[t]])
  /\ queue' = Append(queue, Len(tasks) + 1)
  /\ reply' = Append(reply, Waiting)
  /\ UNCHANGED <<register, responsive>>

\* Fault: an accepted write counts as done.
SubmittedIsDone(t) ==
  /\ pc[t] = "submit" /\ responsive /\ Queued(t) /\ Advance(t)
  /\ UNCHANGED <<kind, list, value, task, attempts, allOk, shown>>

Submitted(t) ==
  /\ pc[t] = "submit" /\ responsive /\ Queued(t)
  /\ pc' = [pc EXCEPT ![t] = "poll"]
  /\ task' = [task EXCEPT ![t] = Len(tasks) + 1] /\ attempts' = [attempts EXCEPT ![t] = 0]
  /\ UNCHANGED <<kind, list, value, rest, allOk, shown>>

\* The submission is refused, because the queue is full or otherwise, or the
\* RPC fails before or after the server queued the task.
NotSubmitted(t) ==
  /\ pc[t] = "submit" /\ responsive /\ Fail(t)
  /\ UNCHANGED serverVars \/ Queued(t)

Polling(t) == pc[t] = "poll" /\ attempts[t] < MaxAttempts

PollOk(t) ==
  /\ Polling(t) /\ responsive /\ reply[task[t]].status = "ok"
  /\ shown' = [shown EXCEPT ![t][Head(rest[t])] =
                 IF kind[t] = "get" THEN reply[task[t]].value ELSE @]
  /\ Advance(t)
  /\ UNCHANGED <<kind, list, value, task, attempts, allOk, serverVars>>

\* Fault: a task that is still waiting is taken for done.
WaitingIsDone(t) ==
  /\ Polling(t) /\ responsive /\ reply[task[t]].status = "waiting"
  /\ shown' = [shown EXCEPT ![t][Head(rest[t])] =
                 IF kind[t] = "get" THEN reply[task[t]].value ELSE @]
  /\ Advance(t)
  /\ UNCHANGED <<kind, list, value, task, attempts, allOk, serverVars>>

PollWaiting(t) ==
  /\ Polling(t) /\ responsive /\ reply[task[t]].status = "waiting"
  /\ attempts' = [attempts EXCEPT ![t] = @ + 1]
  /\ UNCHANGED <<pc, kind, list, value, rest, task, allOk, shown, serverVars>>

\* Fault: once its attempts are used up a task is polled for again.
PollAgain(t) ==
  /\ pc[t] = "poll"
  /\ \/ Polling(t) /\ responsive /\ Fail(t) /\ UNCHANGED serverVars
     \/ /\ ~Polling(t) /\ attempts' = [attempts EXCEPT ![t] = 0]
        /\ UNCHANGED <<pc, kind, list, value, rest, task, allOk, shown, serverVars>>

\* The task failed, the RPC failed, or the attempts are used up.
PollFailed(t) ==
  /\ pc[t] = "poll"
  /\ (Polling(t) /\ responsive) \/ attempts[t] = MaxAttempts
  /\ Fail(t) /\ UNCHANGED serverVars

-----------------------------------------------------------------------------
(* The server executes the oldest task; the link may fail before or after a  *)
(* write reached its device.  A server that no longer answers may go on with *)
(* what it has accepted.  (What it accepts later, nobody waits to see done.) *)

Answer(status, v) ==
  /\ reply' = [reply EXCEPT ![Head(queue)] = [status |-> status, value |-> v]]
  /\ queue' = Tail(queue)
  /\ UNCHANGED <<tasks, clientVars, responsive>>

ReadExecuted ==
  /\ queue # <<>> /\ tasks[Head(queue)].kind = "get"
  /\ \/ Answer("ok", register[tasks[Head(queue)].addr])
     \/ Answer("error", Initial)
  /\ UNCHANGED register

WriteExecuted ==
  /\ queue # <<>> /\ tasks[Head(queue)].kind = "set"
  /\ \/ /\ Answer("ok", Initial) \/ Answer("error", Initial)
        /\ register' = [register EXCEPT ![tasks[Head(queue)].addr] = tasks[Head(queue)].value]
     \/ Answer("error", Initial) /\ UNCHANGED register

\* Between commands this makes the difference it makes to the next command.
ServerHangs ==
  /\ responsive /\ \E t \in Threads : pc[t] # "idle"
  /\ responsive' = FALSE
  /\ UNCHANGED <<clientVars, taskVars>>

-----------------------------------------------------------------------------
ThreadStep(t) ==
  \/ Validated(t) \/ NotValidated(t) \/ Submitted(t) \/ NotSubmitted(t)
  \/ PollOk(t) \/ PollWaiting(t) \/ PollFailed(t)

Next ==
  \/ \E t \in Threads, k \in {"get", "set"}, l \in Lists, v \in Values : Begin(t, k, l, v)
  \/ \E t \in Threads : ThreadStep(t)
  \/ ReadExecuted \/ WriteExecuted \/ ServerHangs

Spec == Init /\ [][Next]_vars

\* The threads run. The server may never execute a task, and nothing is assumed
\* of one that has stopped answering.
FairSpec == Spec /\ \A t \in Threads : WF_vars(ThreadStep(t))

-----------------------------------------------------------------------------
(* Properties.                                                               *)

\* Every variable has its type; a command under way has an address to do, and
\* the server's queue holds unanswered tasks within its limit.
TypeOK ==
  /\ pc \in [Threads -> Pcs] /\ kind \in [Threads -> {"get", "set"}]
  /\ value \in [Threads -> Values] /\ attempts \in [Threads -> 0..MaxAttempts]
  /\ allOk \in [Threads -> BOOLEAN]
  /\ shown \in [Threads -> [Addresses -> Values \union {Unread}]]
  /\ register \in [Devices -> Values] /\ responsive \in BOOLEAN
  /\ \A t \in Threads :
       /\ list[t] \in Lists \union {<<>>}
       /\ rest[t] = <<>> <=> pc[t] = "idle"
       /\ pc[t] = "poll" => task[t] \in DOMAIN tasks
  /\ \A i \in DOMAIN tasks : tasks[i] \in Tasks /\ reply[i] \in Replies
  /\ Len(queue) <= QueueSize
  /\ \A i \in DOMAIN queue : reply[queue[i]] = Waiting

LastCommand(k) ==
  pc["shell"] = "idle" /\ kind["shell"] = k /\ allOk["shell"] /\ list["shell"] # <<>>

\* After a `set` that returned success every listed register holds its value,
\* and keeps it until the next command: no write of an earlier command that
\* was given up lands later.
SetTakesEffect ==
  LastCommand("set") =>
    \A i \in DOMAIN list["shell"] : register[list["shell"][i]] = value["shell"]

\* What a `get` that returned success shows of each register is still its value
\* at the next prompt, whatever earlier commands left in the server's queue.
GetShowsRegister ==
  LastCommand("get") =>
    \A i \in DOMAIN list["shell"] :
      shown["shell"][list["shell"][i]] = register[list["shell"][i]]

\* An RPC to a server that has stopped answering.
Stuck(t) == ~responsive /\ (pc[t] \in {"validate", "submit"} \/ Polling(t))

\* Each command returns, even if the server never executes its tasks, unless it
\* is stuck in such an RPC: none has a deadline. Otherwise only the number of
\* attempts ends the wait for a task.
CommandReturns == \A t \in Threads : pc[t] # "idle" ~> (pc[t] = "idle" \/ Stuck(t))

=============================================================================
