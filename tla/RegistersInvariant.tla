------------------------- MODULE RegistersInvariant -------------------------
(***************************************************************************)
(* The inductive invariant of Registers from which Registers_proofs        *)
(* derives its theorems, in parts named for what they say of the code.     *)
(***************************************************************************)
EXTENDS Registers

\* The types of the variables, those of the sequences included.
Types ==
  /\ pc \in [Threads -> Pcs] /\ kind \in [Threads -> {"get", "set"}]
  /\ list \in [Threads -> Seq(Addresses)] /\ rest \in [Threads -> Seq(Addresses)]
  /\ value \in [Threads -> Values] /\ task \in [Threads -> Nat]
  /\ attempts \in [Threads -> 0..MaxAttempts] /\ allOk \in [Threads -> BOOLEAN]
  /\ shown \in [Threads -> [Addresses -> Values \union {Unread}]]
  /\ queue \in Seq(Nat) /\ tasks \in Seq(Tasks) /\ reply \in Seq(Replies)
  /\ register \in [Devices -> Values] /\ responsive \in BOOLEAN

\* Addresses of the list of a thread that are behind it.
Behind(t) == Len(list[t]) - Len(rest[t])

\* A command works off its list from the front ...
InOrder(t) ==
  /\ list[t] \in Lists \union {<<>>}
  /\ rest[t] = <<>> <=> pc[t] = "idle"
  /\ Len(rest[t]) <= Len(list[t])
  /\ \A i \in 1..Len(rest[t]) : rest[t][i] = list[t][Behind(t) + i]

\* ... only on registered devices ...
OnDevices(t) ==
  pc[t] \in {"submit", "poll"} =>
    /\ rest[t][1] \in Devices
    /\ kind[t] = "get" => \A i \in 1..Len(rest[t]) : rest[t][i] \in Devices

\* ... and polls for the task it submitted for the first address left.
Asked(t) ==
  pc[t] = "poll" =>
    /\ task[t] \in 1..Len(tasks)
    /\ tasks[task[t]].kind = kind[t] /\ tasks[task[t]].addr = rest[t][1]
    /\ tasks[task[t]].value = value[t]

\* The worker only reads.
Commands ==
  /\ kind["worker"] = "get"
  /\ \A t \in Threads : InOrder(t) /\ OnDevices(t) /\ Asked(t)

\* The tasks the server has executed.
Executed == Len(tasks) - Len(queue)

\* The server's queue is what it has accepted and not executed, in the order of
\* submission, and a task is answered when it is executed.
Fifo ==
  /\ Len(reply) = Len(tasks) /\ Len(queue) <= Len(tasks) /\ Len(queue) <= QueueSize
  /\ \A j \in 1..Len(queue) : queue[j] = Executed + j
  /\ \A i \in 1..Len(tasks) :
       /\ tasks[i].addr \in Devices
       /\ i <= Executed <=> reply[i].status # "waiting"
       /\ i > Executed => reply[i] = Waiting

\* What the shell's command claims of a register it is past.
Claim(a) ==
  /\ a \in Devices
  /\ kind["shell"] = "get" => shown["shell"][a] = register[a]
  /\ kind["shell"] = "set" => register[a] = value["shell"]

\* What a task that was executed without an error tells of its register.
Told(i, a) ==
  reply[i].status = "ok" =>
    /\ kind["shell"] = "get" => reply[i].value = register[a]
    /\ kind["shell"] = "set" => register[a] = value["shell"]

\* Only reads follow the task the shell polls for, so that its answer still tells
\* of the register when the shell sees it.
Undisturbed ==
  pc["shell"] = "poll" =>
    /\ \A i \in 1..Len(tasks) : i > task["shell"] => tasks[i].kind = "get"
    /\ Told(task["shell"], rest["shell"][1])

\* Once a command without a failure is past an address, it is right about it, and
\* no write is in the queue but its own.
Settled ==
  allOk["shell"] /\ Behind("shell") > 0 =>
    /\ \A i \in 1..Behind("shell") : Claim(list["shell"][i])
    /\ \A i \in 1..Len(tasks) :
         i > Executed /\ tasks[i].kind = "set" => pc["shell"] = "poll" /\ i = task["shell"]

Inv == Types /\ Commands /\ Fifo /\ Undisturbed /\ Settled

=============================================================================
