-------------------------- MODULE Registers_proofs --------------------------
(***************************************************************************)
(* Proofs about Registers, for every set of devices and values, every      *)
(* queue size, every number of attempts and of tasks.                      *)
(***************************************************************************)
EXTENDS RegistersInvariant, SequenceTheorems, TLAPS

USE RegistersAssumption
USE DEF vars, clientVars, taskVars, serverVars

-----------------------------------------------------------------------------
(* Sequences.                                                                *)

\* What is left of a list when its first element is taken.
LEMMA TailLemma ==
  ASSUME NEW S, NEW s \in Seq(S), s # <<>>
  PROVE  /\ Head(s) = s[1] /\ s[1] \in S /\ Len(s) \in Nat /\ Len(s) > 0
         /\ Tail(s) \in Seq(S) /\ Len(Tail(s)) = Len(s) - 1
         /\ \A i \in 1..Len(Tail(s)) : Tail(s)[i] = s[i + 1]
         /\ Tail(s) = <<>> <=> Len(s) = 1
<1>1. /\ Tail(s) \in Seq(S) /\ Len(Tail(s)) = Len(s) - 1 /\ Head(s) = s[1] /\ s[1] \in S
      /\ \A i \in 1..Len(Tail(s)) : Tail(s)[i] = s[i + 1]
  BY HeadTailProperties
<1>2. Len(s) \in Nat /\ Len(s) > 0
  BY EmptySeq, LenProperties
<1>3. Tail(s) = <<>> <=> Len(Tail(s)) = 0
  BY <1>1, EmptySeq
<1> QED BY <1>1, <1>2, <1>3

\* What a queue is when an element is added.
LEMMA AppendLemma ==
  ASSUME NEW S, NEW s \in Seq(S), NEW e \in S
  PROVE  /\ Append(s, e) \in Seq(S) /\ Len(s) \in Nat /\ Len(Append(s, e)) = Len(s) + 1
         /\ \A i \in 1..Len(s) : Append(s, e)[i] = s[i]
         /\ Append(s, e)[Len(s) + 1] = e
BY AppendProperties, LenProperties

\* A position in what is left of a list is one of the whole list.
LEMMA WithinLemma ==
  ASSUME NEW m \in Nat, NEW n \in Nat, n <= m, NEW i \in Nat, 1 <= i, i <= n
  PROVE  (m - n) + i \in 1..m
OBVIOUS

\* A list of more than one address is not at its end after one.
LEMMA LessLemma ==
  ASSUME NEW n \in Nat \ {0}, n # 1
  PROVE  n - 1 \in Nat /\ 1 <= n - 1
OBVIOUS

-----------------------------------------------------------------------------
(* The building blocks of the actions.                                       *)

\* Going on to the next address, or to the end of the list.
LEMMA AdvanceLemma ==
  ASSUME Types, NEW t \in Threads, Advance(t)
  PROVE  /\ rest' = [rest EXCEPT ![t] = Tail(rest[t])]
         /\ \E p \in {"idle", "submit", "validate"} :
              /\ pc' = [pc EXCEPT ![t] = p]
              /\ p = "idle" <=> Tail(rest[t]) = <<>>
              /\ p = "submit" => kind[t] = "get"
<1>1. kind[t] \in {"get", "set"}
  BY DEF Types
<1>2. CASE Tail(rest[t]) = <<>>
  <2>1. pc' = [pc EXCEPT ![t] = "idle"]
    BY <1>2 DEF Advance
  <2> QED BY <1>2, <2>1 DEF Advance
<1>3. CASE Tail(rest[t]) # <<>> /\ kind[t] = "get"
  <2>1. pc' = [pc EXCEPT ![t] = "submit"]
    BY <1>3 DEF Advance
  <2> QED BY <1>3, <2>1 DEF Advance
<1>4. CASE Tail(rest[t]) # <<>> /\ kind[t] = "set"
  <2>1. pc' = [pc EXCEPT ![t] = "validate"]
    BY <1>4 DEF Advance
  <2> QED BY <1>4, <2>1 DEF Advance
<1> QED BY <1>1, <1>2, <1>3, <1>4

\* An exception ends a get and sends a set to its next address.
LEMMA FailLemma ==
  ASSUME Types, NEW t \in Threads, Fail(t)
  PROVE  /\ allOk' = [allOk EXCEPT ![t] = FALSE]
         /\ UNCHANGED <<kind, list, value, task, attempts, shown>>
         /\ \E p \in {"idle", "validate"}, r \in {<<>>, Tail(rest[t])} :
              /\ pc' = [pc EXCEPT ![t] = p] /\ rest' = [rest EXCEPT ![t] = r]
              /\ p = "idle" <=> r = <<>>
<1>1. allOk' = [allOk EXCEPT ![t] = FALSE]
      /\ UNCHANGED <<kind, list, value, task, attempts, shown>>
  BY DEF Fail
<1>2. CASE kind[t] = "get" /\ pc' = [pc EXCEPT ![t] = "idle"]
           /\ rest' = [rest EXCEPT ![t] = <<>>]
  BY <1>1, <1>2
<1>3. CASE kind[t] = "set" /\ Advance(t)
  <2>1. PICK p \in {"idle", "submit", "validate"} :
          /\ pc' = [pc EXCEPT ![t] = p]
          /\ p = "idle" <=> Tail(rest[t]) = <<>>
          /\ p = "submit" => kind[t] = "get"
    BY <1>3, AdvanceLemma
  <2>2. rest' = [rest EXCEPT ![t] = Tail(rest[t])] /\ p \in {"idle", "validate"}
    BY <1>3, <2>1, AdvanceLemma
  <2> QED BY <1>1, <2>1, <2>2
<1> QED BY <1>2, <1>3 DEF Fail

\* The server takes a task at the end of its queue.
LEMMA QueuedLemma ==
  ASSUME Types, Commands, Fifo, NEW t \in Threads, pc[t] = "submit", Queued(t)
  PROVE  /\ Len(tasks) \in Nat /\ Len(queue) \in Nat /\ Len(queue) < QueueSize
         /\ tasks' \in Seq(Tasks) /\ Len(tasks') = Len(tasks) + 1
         /\ \A i \in 1..Len(tasks) : tasks'[i] = tasks[i]
         /\ tasks'[Len(tasks) + 1] = [kind |-> kind[t], addr |-> rest[t][1], value |-> value[t]]
         /\ rest[t][1] \in Devices
         /\ queue' \in Seq(Nat) /\ Len(queue') = Len(queue) + 1
         /\ \A j \in 1..Len(queue) : queue'[j] = queue[j]
         /\ queue'[Len(queue) + 1] = Len(tasks) + 1
         /\ reply' \in Seq(Replies) /\ Len(reply') = Len(tasks) + 1
         /\ \A i \in 1..Len(tasks) : reply'[i] = reply[i]
         /\ reply'[Len(tasks) + 1] = Waiting
         /\ UNCHANGED register
<1>1. /\ tasks \in Seq(Tasks) /\ queue \in Seq(Nat) /\ reply \in Seq(Replies)
      /\ rest[t] \in Seq(Addresses) /\ kind[t] \in {"get", "set"} /\ value[t] \in Values
  BY DEF Types
<1>2. rest[t] # <<>> /\ rest[t][1] \in Devices
  BY DEF Commands, InOrder, OnDevices, Asked
<1>3. Head(rest[t]) = rest[t][1] /\ rest[t][1] \in Addresses
  BY <1>1, <1>2, TailLemma
<1>4. [kind |-> kind[t], addr |-> rest[t][1], value |-> value[t]] \in Tasks
  BY <1>1, <1>3 DEF Tasks
<1>5. Waiting \in Replies
  BY DEF Waiting, Replies
<1>6. Len(tasks) \in Nat /\ Len(queue) \in Nat /\ Len(queue) < QueueSize
      /\ Len(reply) = Len(tasks) /\ Len(tasks) + 1 \in Nat
  BY <1>1, LenProperties DEF Fifo, Queued
<1>7. /\ tasks' = Append(tasks, [kind |-> kind[t], addr |-> rest[t][1], value |-> value[t]])
      /\ queue' = Append(queue, Len(tasks) + 1) /\ reply' = Append(reply, Waiting)
      /\ UNCHANGED register
  BY <1>3 DEF Queued
<1>8. /\ tasks' \in Seq(Tasks) /\ Len(tasks') = Len(tasks) + 1
      /\ \A i \in 1..Len(tasks) : tasks'[i] = tasks[i]
      /\ tasks'[Len(tasks) + 1] = [kind |-> kind[t], addr |-> rest[t][1], value |-> value[t]]
  BY <1>1, <1>4, <1>7, AppendLemma
<1>9. /\ queue' \in Seq(Nat) /\ Len(queue') = Len(queue) + 1
      /\ \A j \in 1..Len(queue) : queue'[j] = queue[j]
      /\ queue'[Len(queue) + 1] = Len(tasks) + 1
  BY <1>1, <1>6, <1>7, AppendLemma
<1>10. /\ reply' \in Seq(Replies) /\ Len(reply') = Len(tasks) + 1
       /\ \A i \in 1..Len(tasks) : reply'[i] = reply[i]
       /\ reply'[Len(tasks) + 1] = Waiting
  BY <1>1, <1>5, <1>6, <1>7, AppendLemma
<1> QED BY <1>2, <1>6, <1>7, <1>8, <1>9, <1>10

\* The server answers its oldest task.
LEMMA AnswerLemma ==
  ASSUME Types, Fifo, queue # <<>>, NEW s \in {"ok", "error"}, NEW v \in Values, Answer(s, v)
  PROVE  /\ Len(tasks) \in Nat /\ Len(queue) \in Nat /\ Len(queue) > 0
         /\ Head(queue) = Executed + 1 /\ Executed + 1 \in 1..Len(tasks)
         /\ queue' \in Seq(Nat) /\ Len(queue') = Len(queue) - 1
         /\ \A j \in 1..Len(queue') : queue'[j] = queue[j + 1]
         /\ reply' \in Seq(Replies) /\ Len(reply') = Len(tasks)
         /\ reply'[Executed + 1] = [status |-> s, value |-> v]
         /\ \A i \in 1..Len(tasks) : i # Executed + 1 => reply'[i] = reply[i]
         /\ Executed' = Executed + 1
         /\ UNCHANGED <<tasks, clientVars>>
<1>1. tasks \in Seq(Tasks) /\ queue \in Seq(Nat) /\ reply \in Seq(Replies)
  BY DEF Types
<1>2. /\ Len(tasks) \in Nat /\ Len(queue) \in Nat /\ Len(queue) > 0 /\ Head(queue) = queue[1]
      /\ Tail(queue) \in Seq(Nat) /\ Len(Tail(queue)) = Len(queue) - 1
      /\ \A i \in 1..Len(Tail(queue)) : Tail(queue)[i] = queue[i + 1]
  BY <1>1, TailLemma, LenProperties
<1>3. Head(queue) = Executed + 1 /\ Executed + 1 \in 1..Len(tasks)
  BY <1>2 DEF Fifo, Executed
<1>4. [status |-> s, value |-> v] \in Replies
  BY DEF Replies
<1>5. /\ queue' = Tail(queue) /\ UNCHANGED <<tasks, clientVars>>
      /\ reply' = [reply EXCEPT ![Executed + 1] = [status |-> s, value |-> v]]
  BY <1>3 DEF Answer
<1>6. /\ reply' \in Seq(Replies) /\ Len(reply') = Len(tasks)
      /\ reply'[Executed + 1] = [status |-> s, value |-> v]
      /\ \A i \in 1..Len(tasks) : i # Executed + 1 => reply'[i] = reply[i]
  BY <1>1, <1>3, <1>4, <1>5, ExceptSeq DEF Fifo
<1>7. Executed' = Executed + 1
  BY <1>2, <1>5 DEF Executed
<1> QED BY <1>2, <1>3, <1>5, <1>6, <1>7

\* A step of a thread leaves the server alone or submits its task.
LEMMA ThreadLemma ==
  ASSUME NEW t \in Threads, ThreadStep(t)
  PROVE  UNCHANGED taskVars \/ (pc[t] = "submit" /\ Queued(t))
BY DEF ThreadStep, Validated, NotValidated, Submitted, NotSubmitted, PollOk, PollWaiting,
       PollFailed

-----------------------------------------------------------------------------
(* The parts of the invariant.                                               *)

\* What a step does to the server: nothing, one task more, or one task done.
LEMMA ServerLemma ==
  ASSUME [Next]_vars
  PROVE  \/ UNCHANGED taskVars
         \/ \E t \in Threads : ThreadStep(t) /\ pc[t] = "submit" /\ Queued(t)
         \/ ReadExecuted \/ WriteExecuted
<1>1. CASE UNCHANGED vars
  BY <1>1
<1>2. ASSUME NEW t \in Threads, NEW k \in {"get", "set"}, NEW l \in Lists, NEW v \in Values,
             Begin(t, k, l, v)
      PROVE  UNCHANGED taskVars
  BY <1>2 DEF Begin
<1>3. ASSUME NEW t \in Threads, ThreadStep(t)
      PROVE  UNCHANGED taskVars \/ (ThreadStep(t) /\ pc[t] = "submit" /\ Queued(t))
  BY <1>3, ThreadLemma
<1> QED BY <1>1, <1>2, <1>3 DEF Next, ServerHangs

\* An execution answers the oldest task, and writes what a write asks for.
LEMMA ExecutedLemma ==
  ASSUME Types, Fifo, ReadExecuted \/ WriteExecuted
  PROVE  /\ queue # <<>>
         /\ \E s \in {"ok", "error"}, v \in Values :
              /\ Answer(s, v)
              /\ \/ /\ tasks[Executed + 1].kind = "get" /\ UNCHANGED register
                    /\ s = "ok" => v = register[tasks[Executed + 1].addr]
                 \/ /\ tasks[Executed + 1].kind = "set"
                    /\ \/ register' = [register EXCEPT ![tasks[Executed + 1].addr] =
                                                          tasks[Executed + 1].value]
                       \/ s = "error" /\ UNCHANGED register
<1>1. queue # <<>> /\ Len(tasks) \in Nat /\ Len(queue) \in Nat /\ Len(queue) > 0
      /\ Head(queue) = queue[1]
  BY TailLemma, LenProperties DEF Types, ReadExecuted, WriteExecuted
<1>2. Head(queue) = Executed + 1 /\ Executed + 1 \in 1..Len(tasks)
  BY <1>1 DEF Fifo, Executed
<1>3. register[tasks[Executed + 1].addr] \in Values
  BY <1>2 DEF Fifo, Types
<1>4. CASE ReadExecuted
  BY <1>1, <1>2, <1>3, <1>4 DEF ReadExecuted
<1>5. CASE WriteExecuted
  BY <1>1, <1>2, <1>5 DEF WriteExecuted
<1> QED BY <1>4, <1>5

\* The server's queue stays in the order of submission.
LEMMA FifoStep ==
  ASSUME Types, Commands, Fifo, [Next]_vars
  PROVE  Fifo'
<1>1. CASE UNCHANGED taskVars
  BY <1>1 DEF Fifo, Executed, Waiting
<1>2. ASSUME NEW t \in Threads, pc[t] = "submit", Queued(t)
      PROVE  Fifo'
  <2>1. /\ Len(tasks) \in Nat /\ Len(queue) \in Nat /\ Len(queue) < QueueSize
        /\ Len(tasks') = Len(tasks) + 1 /\ Len(queue') = Len(queue) + 1
        /\ Len(reply') = Len(tasks) + 1
    BY <1>2, QueuedLemma
  <2>2. Executed' = Executed /\ Len(queue) <= Len(tasks) /\ Executed \in 0..Len(tasks)
    BY <2>1 DEF Executed, Fifo
  <2>3. \A j \in 1..Len(queue') : queue'[j] = Executed' + j
    <3>1. ASSUME NEW j \in 1..Len(queue) PROVE queue'[j] = Executed + j
      <4>1. queue'[j] = queue[j]
        BY <1>2, QueuedLemma
      <4> QED BY <4>1 DEF Fifo
    <3>2. queue'[Len(queue) + 1] = Executed + (Len(queue) + 1)
      <4>1. queue'[Len(queue) + 1] = Len(tasks) + 1
        BY <1>2, QueuedLemma
      <4> QED BY <2>1, <4>1 DEF Executed
    <3>3. ASSUME NEW j \in 1..Len(queue') PROVE queue'[j] = Executed + j
      <4>1. j \in 1..Len(queue) \/ j = Len(queue) + 1
        BY <2>1
      <4> QED BY <3>1, <3>2, <4>1
    <3> QED BY <2>2, <3>3
  <2>4. ASSUME NEW i \in 1..Len(tasks')
        PROVE  /\ tasks'[i].addr \in Devices
               /\ i <= Executed' <=> reply'[i].status # "waiting"
               /\ i > Executed' => reply'[i] = Waiting
    <3>1. CASE i \in 1..Len(tasks)
      <4>1. tasks'[i] = tasks[i] /\ reply'[i] = reply[i]
        BY <1>2, <3>1, QueuedLemma
      <4> QED BY <2>2, <3>1, <4>1 DEF Fifo
    <3>2. CASE i = Len(tasks) + 1
      <4>1. /\ tasks'[i] = [kind |-> kind[t], addr |-> rest[t][1], value |-> value[t]]
            /\ rest[t][1] \in Devices /\ reply'[i] = Waiting
        BY <1>2, <3>2, QueuedLemma
      <4> QED BY <2>1, <2>2, <3>2, <4>1 DEF Waiting
    <3> QED BY <2>1, <3>1, <3>2
  <2>5. Waiting' = Waiting
    BY DEF Waiting
  <2> QED BY <2>1, <2>2, <2>3, <2>4, <2>5 DEF Fifo
<1>3. CASE ReadExecuted \/ WriteExecuted
  <2>1. PICK s \in {"ok", "error"}, v \in Values : Answer(s, v)
    BY <1>3, ExecutedLemma
  <2>2. queue # <<>>
    BY <1>3, ExecutedLemma
  <2>3. /\ Len(tasks) \in Nat /\ Len(queue) \in Nat /\ Len(queue) > 0
        /\ Len(queue') = Len(queue) - 1 /\ Executed' = Executed + 1 /\ tasks' = tasks
        /\ Len(reply') = Len(tasks) /\ Executed + 1 \in 1..Len(tasks)
        /\ \A j \in 1..Len(queue') : queue'[j] = queue[j + 1]
        /\ reply'[Executed + 1] = [status |-> s, value |-> v]
        /\ \A i \in 1..Len(tasks) : i # Executed + 1 => reply'[i] = reply[i]
    BY <2>1, <2>2, AnswerLemma
  <2>4. Executed \in 0..Len(tasks)
    BY <2>3 DEF Executed, Fifo
  <2>5. \A j \in 1..Len(queue') : queue'[j] = Executed' + j
    BY <2>3, <2>4 DEF Fifo
  <2>6. ASSUME NEW i \in 1..Len(tasks)
        PROVE  /\ tasks'[i].addr \in Devices
               /\ i <= Executed' <=> reply'[i].status # "waiting"
               /\ i > Executed' => reply'[i] = Waiting
    <3>1. CASE i = Executed + 1
      BY <2>3, <2>4, <3>1 DEF Fifo
    <3>2. CASE i # Executed + 1
      BY <2>3, <2>4, <3>2 DEF Fifo
    <3> QED BY <3>1, <3>2
  <2>7. Waiting' = Waiting
    BY DEF Waiting
  <2> QED BY <2>3, <2>5, <2>6, <2>7 DEF Fifo
<1> QED BY <1>1, <1>2, <1>3, ServerLemma

-----------------------------------------------------------------------------
\* A list of the command line is a sequence of one or two addresses.
LEMMA ListLemma ==
  ASSUME NEW l \in Lists
  PROVE  l \in Seq(Addresses) /\ Len(l) \in {1, 2} /\ l # <<>>
<1>1. ASSUME NEW a \in Addresses, l = <<a>>
      PROVE  l \in Seq(Addresses) /\ Len(l) \in {1, 2} /\ l # <<>>
  BY <1>1
<1>2. ASSUME NEW a \in Addresses, NEW b \in Addresses, l = <<a, b>>
      PROVE  l \in Seq(Addresses) /\ Len(l) \in {1, 2} /\ l # <<>>
  BY <1>2
<1> QED BY <1>1, <1>2 DEF Lists

\* What one thread does leaves the other's command alone.
Untouched(u) ==
  /\ pc'[u] = pc[u] /\ kind'[u] = kind[u] /\ list'[u] = list[u] /\ value'[u] = value[u]
  /\ rest'[u] = rest[u] /\ task'[u] = task[u] /\ allOk'[u] = allOk[u]
  /\ shown'[u] = shown[u]

LEMMA OtherThread ==
  ASSUME Types, NEW t \in Threads, NEW u \in Threads, u # t,
         \/ ThreadStep(t)
         \/ \E k \in {"get", "set"}, l \in Lists, v \in Values : Begin(t, k, l, v)
  PROVE  Untouched(u)
<1>1. CASE \E k \in {"get", "set"}, l \in Lists, v \in Values : Begin(t, k, l, v)
  BY <1>1 DEF Begin, Types, Untouched
<1>2. CASE PollOk(t)
  <2>1. pc'[u] = pc[u] /\ rest'[u] = rest[u]
    <3>1. Advance(t)
      BY <1>2 DEF PollOk
    <3>2. PICK p \in {"idle", "submit", "validate"} :
            pc' = [pc EXCEPT ![t] = p] /\ rest' = [rest EXCEPT ![t] = Tail(rest[t])]
      BY <3>1, AdvanceLemma
    <3>3. pc \in [Threads -> Pcs] /\ rest \in [Threads -> Seq(Addresses)]
      BY DEF Types
    <3> QED BY <3>2, <3>3
  <2>2. shown'[u] = shown[u] /\ UNCHANGED <<kind, list, value, task, allOk>>
    BY <1>2 DEF PollOk, Types
  <2> QED BY <2>1, <2>2 DEF Untouched
<1>3. CASE Fail(t)
  <2>1. pc'[u] = pc[u] /\ rest'[u] = rest[u]
    <3>1. PICK p \in {"idle", "validate"}, r \in {<<>>, Tail(rest[t])} :
            pc' = [pc EXCEPT ![t] = p] /\ rest' = [rest EXCEPT ![t] = r]
      BY <1>3, FailLemma
    <3> QED BY <3>1 DEF Types
  <2>2. allOk'[u] = allOk[u] /\ UNCHANGED <<kind, list, value, task, shown>>
    BY <1>3 DEF Fail, Types
  <2> QED BY <2>1, <2>2 DEF Untouched
<1>4. CASE Validated(t) \/ Submitted(t) \/ PollWaiting(t)
  BY <1>4 DEF Validated, Submitted, PollWaiting, Types, Untouched
<1>5. CASE NotValidated(t) \/ NotSubmitted(t) \/ PollFailed(t)
  BY <1>3, <1>5 DEF NotValidated, NotSubmitted, PollFailed
<1> QED BY <1>1, <1>2, <1>4, <1>5 DEF ThreadStep

\* The types of a thread's variables after a step that ends or advances.
LEMMA FailTypes ==
  ASSUME Types, Commands, NEW t \in Threads, pc[t] # "idle", Fail(t)
  PROVE  /\ pc' \in [Threads -> Pcs] /\ rest' \in [Threads -> Seq(Addresses)]
         /\ allOk' \in [Threads -> BOOLEAN]
         /\ UNCHANGED <<kind, list, value, task, attempts, shown>>
<1>1. rest[t] \in Seq(Addresses) /\ rest[t] # <<>>
  BY DEF Types, Commands, InOrder
<1>2. Tail(rest[t]) \in Seq(Addresses) /\ <<>> \in Seq(Addresses)
  BY <1>1, TailLemma, EmptySeq
<1>3. PICK p \in {"idle", "validate"}, r \in {<<>>, Tail(rest[t])} :
        /\ pc' = [pc EXCEPT ![t] = p] /\ rest' = [rest EXCEPT ![t] = r]
  BY FailLemma
<1>4. r \in Seq(Addresses) /\ p \in Pcs
  BY <1>2, <1>3 DEF Pcs
<1>5. pc' \in [Threads -> Pcs] /\ rest' \in [Threads -> Seq(Addresses)]
  BY <1>3, <1>4 DEF Types
<1>6. allOk' \in [Threads -> BOOLEAN]
  BY DEF Fail, Types
<1> QED BY <1>5, <1>6 DEF Fail

\* The server's variables keep their types.
LEMMA ServerTypes ==
  ASSUME Types, Commands, Fifo, [Next]_vars
  PROVE  /\ queue' \in Seq(Nat) /\ tasks' \in Seq(Tasks) /\ reply' \in Seq(Replies)
         /\ register' \in [Devices -> Values]
<1>1. CASE UNCHANGED taskVars
  BY <1>1 DEF Types
<1>2. ASSUME NEW t \in Threads, pc[t] = "submit", Queued(t)
      PROVE  /\ queue' \in Seq(Nat) /\ tasks' \in Seq(Tasks) /\ reply' \in Seq(Replies)
             /\ register' \in [Devices -> Values]
  <2>1. /\ queue' \in Seq(Nat) /\ tasks' \in Seq(Tasks) /\ reply' \in Seq(Replies)
        /\ register' = register
    BY <1>2, QueuedLemma
  <2> QED BY <2>1 DEF Types
<1>3. CASE ReadExecuted \/ WriteExecuted
  <2>1. queue # <<>>
    BY <1>3, ExecutedLemma
  <2>2. PICK s \in {"ok", "error"}, v \in Values :
          /\ Answer(s, v)
          /\ \/ UNCHANGED register
             \/ register' = [register EXCEPT ![tasks[Executed + 1].addr] =
                                                   tasks[Executed + 1].value]
    BY <1>3, ExecutedLemma
  <2>3. /\ queue' \in Seq(Nat) /\ tasks' = tasks /\ reply' \in Seq(Replies)
        /\ Executed + 1 \in 1..Len(tasks)
    BY <2>1, <2>2, AnswerLemma
  <2>4. tasks[Executed + 1] \in Tasks
    BY <2>3, LenProperties DEF Types
  <2>5. register' \in [Devices -> Values]
    BY <2>2, <2>4 DEF Types, Tasks
  <2> QED BY <2>3, <2>5 DEF Types
<1> QED BY <1>1, <1>2, <1>3, ServerLemma

\* Every variable keeps its type.
LEMMA TypesStep ==
  ASSUME Types, Commands, Fifo, [Next]_vars
  PROVE  Types'
<1> DEFINE Client ==
             /\ pc \in [Threads -> Pcs] /\ kind \in [Threads -> {"get", "set"}]
             /\ list \in [Threads -> Seq(Addresses)] /\ rest \in [Threads -> Seq(Addresses)]
             /\ value \in [Threads -> Values] /\ task \in [Threads -> Nat]
             /\ attempts \in [Threads -> 0..MaxAttempts] /\ allOk \in [Threads -> BOOLEAN]
             /\ shown \in [Threads -> [Addresses -> Values \union {Unread}]]
<1>1. Client
  BY DEF Types
<1>2. ASSUME UNCHANGED clientVars
      PROVE  Client'
  <2>1. UNCHANGED <<pc, kind, list, rest, value, task, attempts, allOk, shown>>
    BY <1>2
  <2> QED BY <1>1, <2>1
<1>3. ASSUME NEW t \in Threads, NEW k \in {"get", "set"}, NEW l \in Lists, NEW v \in Values,
             Begin(t, k, l, v)
      PROVE  Client'
  <2>1. l \in Seq(Addresses)
    BY ListLemma
  <2>2. NothingShown \in [Addresses -> Values \union {Unread}]
    BY DEF NothingShown
  <2>3. /\ pc' \in [Threads -> Pcs] /\ kind' \in [Threads -> {"get", "set"}]
        /\ value' \in [Threads -> Values] /\ task' \in [Threads -> Nat]
        /\ attempts' \in [Threads -> 0..MaxAttempts] /\ allOk' \in [Threads -> BOOLEAN]
    BY <1>1, <1>3 DEF Begin, Pcs
  <2>4. /\ list' \in [Threads -> Seq(Addresses)] /\ rest' \in [Threads -> Seq(Addresses)]
    BY <1>1, <1>3, <2>1 DEF Begin
  <2>5. shown' \in [Threads -> [Addresses -> Values \union {Unread}]]
    BY <1>1, <1>3, <2>2 DEF Begin
  <2> QED BY <2>3, <2>4, <2>5
<1>4. ASSUME NEW t \in Threads, ThreadStep(t)
      PROVE  Client'
  <2>1. CASE NotValidated(t) \/ NotSubmitted(t) \/ PollFailed(t)
    <3>1. pc[t] # "idle" /\ Fail(t)
      BY <2>1 DEF NotValidated, NotSubmitted, PollFailed
    <3> QED BY <1>1, <3>1, FailTypes
  <2>2. CASE Validated(t)
    BY <1>1, <2>2 DEF Validated, Pcs
  <2>3. CASE Submitted(t)
    <3>1. Len(tasks) \in Nat
      BY LenProperties DEF Types
    <3> QED BY <1>1, <2>3, <3>1 DEF Submitted, Pcs
  <2>4. CASE PollWaiting(t)
    <3>1. attempts[t] + 1 \in 0..MaxAttempts
      BY <1>1, <2>4 DEF PollWaiting, Polling
    <3> QED BY <1>1, <2>4, <3>1 DEF PollWaiting
  <2>5. CASE PollOk(t)
    <3>1. rest[t] \in Seq(Addresses) /\ rest[t] # <<>>
      BY <1>1, <2>5 DEF PollOk, Polling, Commands, InOrder
    <3>2. Tail(rest[t]) \in Seq(Addresses)
      BY <3>1, TailLemma
    <3>3. rest' = [rest EXCEPT ![t] = Tail(rest[t])]
      BY <2>5, AdvanceLemma DEF PollOk
    <3>4. PICK p \in {"idle", "submit", "validate"} : pc' = [pc EXCEPT ![t] = p]
      BY <2>5, AdvanceLemma DEF PollOk
    <3>5. task[t] \in 1..Len(reply)
      BY <2>5 DEF PollOk, Polling, Commands, Asked, Fifo
    <3>6. reply[task[t]] \in Replies
      BY <3>5, LenProperties DEF Types
    <3>7. shown' \in [Threads -> [Addresses -> Values \union {Unread}]]
      <4>1. (IF kind[t] = "get" THEN reply[task[t]].value ELSE shown[t][Head(rest[t])])
              \in Values \union {Unread}
        <5>1. Head(rest[t]) \in Addresses
          BY <3>1, TailLemma
        <5> QED BY <1>1, <3>6, <5>1 DEF Replies
      <4>2. shown' = [shown EXCEPT ![t] = [shown[t] EXCEPT ![Head(rest[t])] =
               IF kind[t] = "get" THEN reply[task[t]].value ELSE shown[t][Head(rest[t])]]]
        BY <2>5 DEF PollOk
      <4> QED BY <1>1, <4>1, <4>2
    <3>8. UNCHANGED <<kind, list, value, task, attempts, allOk>>
      BY <2>5 DEF PollOk
    <3> QED BY <1>1, <3>2, <3>3, <3>4, <3>7, <3>8 DEF Pcs
  <2> QED BY <1>4, <2>1, <2>2, <2>3, <2>4, <2>5 DEF ThreadStep
<1>5. \/ UNCHANGED clientVars
      \/ \E t \in Threads, k \in {"get", "set"}, l \in Lists, v \in Values : Begin(t, k, l, v)
      \/ \E t \in Threads : ThreadStep(t)
  BY DEF Next, ReadExecuted, WriteExecuted, Answer, ServerHangs
<1>6. Client'
  BY <1>2, <1>3, <1>4, <1>5
<1>7. responsive' \in BOOLEAN
  <2>1. responsive' = responsive \/ ServerHangs
    BY DEF Next, Begin, ThreadStep, Validated, NotValidated, Submitted, NotSubmitted, PollOk,
           PollWaiting, PollFailed, Queued, ReadExecuted, WriteExecuted, Answer
  <2> QED BY <2>1 DEF Types, ServerHangs
<1> QED BY <1>6, <1>7, ServerTypes DEF Types

\* What is left of a list stays an end of it when its first address is done.
LEMMA SuffixLemma ==
  ASSUME Types, Commands, NEW t \in Threads, pc[t] # "idle",
         rest'[t] = Tail(rest[t]), list'[t] = list[t]
  PROVE  /\ Len(rest[t]) \in Nat \ {0} /\ Len(list[t]) \in Nat
         /\ Len(rest'[t]) = Len(rest[t]) - 1 /\ Behind(t)' = Behind(t) + 1
         /\ Behind(t) \in Nat /\ Len(rest'[t]) <= Len(list'[t])
         /\ list[t][Behind(t) + 1] = rest[t][1] /\ Head(rest[t]) = rest[t][1]
         /\ \A i \in 1..Len(rest'[t]) : rest'[t][i] = rest[t][i + 1]
         /\ \A i \in 1..Len(rest'[t]) : rest'[t][i] = list'[t][Behind(t)' + i]
<1>1. rest[t] \in Seq(Addresses) /\ list[t] \in Seq(Addresses) /\ rest[t] # <<>>
  BY DEF Types, Commands, InOrder
<1>2. /\ Head(rest[t]) = rest[t][1] /\ Len(rest[t]) \in Nat /\ Len(rest[t]) > 0
      /\ Len(rest'[t]) = Len(rest[t]) - 1
      /\ \A i \in 1..Len(rest'[t]) : rest'[t][i] = rest[t][i + 1]
  BY <1>1, TailLemma
<1>3. Len(list[t]) \in Nat
  BY <1>1, LenProperties
<1>4. Len(rest[t]) <= Len(list[t])
  BY DEF Commands, InOrder
<1>5. \A i \in 1..Len(rest[t]) : rest[t][i] = list[t][Behind(t) + i]
  BY DEF Commands, InOrder
<1>6. Behind(t) \in Nat
  BY <1>2, <1>3, <1>4 DEF Behind
<1>7. Behind(t)' = Len(list[t]) - (Len(rest[t]) - 1)
  BY <1>2 DEF Behind
<1>8. Behind(t)' = Behind(t) + 1
  <2>1. Behind(t) = Len(list[t]) - Len(rest[t])
    BY DEF Behind
  <2>2. Len(rest[t]) \in Nat
    BY <1>2
  <2> QED BY <1>3, <1>7, <2>1, <2>2
<1>9. list[t][Behind(t) + 1] = rest[t][1]
  BY <1>2, <1>5
<1>10. ASSUME NEW i \in 1..Len(rest'[t])
       PROVE  rest'[t][i] = list'[t][Behind(t)' + i]
  <2>1. i + 1 \in 1..Len(rest[t]) /\ Behind(t)' + i = Behind(t) + (i + 1)
    <3> DEFINE n == Len(rest[t])
               m == Len(rest'[t])
               b == Behind(t)
               c == Behind(t)'
    <3>1. n \in Nat /\ m = n - 1 /\ i \in 1..m
      BY <1>2
    <3>2. b \in Nat /\ c = b + 1
      BY <1>6, <1>8
    <3> HIDE DEF n, m, b, c
    <3>3. i + 1 \in 1..n /\ c + i = b + (i + 1)
      BY <3>1, <3>2
    <3> QED BY <3>3 DEF n, b, c
  <2>2. rest'[t][i] = rest[t][i + 1] /\ rest[t][i + 1] = list[t][Behind(t) + (i + 1)]
    BY <1>2, <1>5, <2>1
  <2>3. list'[t] = list[t]
    OBVIOUS
  <2> QED BY <2>1, <2>2, <2>3
<1>11. Len(rest'[t]) <= Len(list'[t])
  BY <1>2, <1>3, <1>4
<1>12. \A i \in 1..Len(rest'[t]) : rest'[t][i] = list'[t][Behind(t)' + i]
  BY <1>10
<1>13. Len(rest[t]) \in Nat \ {0}
  BY <1>2
<1> QED BY <1>2, <1>3, <1>6, <1>8, <1>9, <1>11, <1>12, <1>13, Zenon

\* Accepted tasks are never withdrawn or changed.
LEMMA TasksGrow ==
  ASSUME Types, Commands, Fifo, [Next]_vars
  PROVE  /\ Len(tasks) \in Nat /\ Len(tasks') \in Nat /\ Len(tasks) <= Len(tasks')
         /\ \A i \in 1..Len(tasks) : tasks'[i] = tasks[i]
<1>1. Len(tasks) \in Nat
  BY LenProperties DEF Types
<1>2. CASE tasks' = tasks
  BY <1>1, <1>2
<1>3. ASSUME NEW t \in Threads, pc[t] = "submit", Queued(t)
      PROVE  /\ Len(tasks') = Len(tasks) + 1
             /\ \A i \in 1..Len(tasks) : tasks'[i] = tasks[i]
  BY <1>3, QueuedLemma
<1>4. \/ tasks' = tasks \/ \E t \in Threads : pc[t] = "submit" /\ Queued(t)
  BY ServerLemma DEF ReadExecuted, WriteExecuted, Answer
<1> QED BY <1>1, <1>2, <1>3, <1>4

\* A thread that does nothing keeps its command.
LEMMA IdleLemma ==
  ASSUME Types, Commands, Fifo, [Next]_vars, NEW u \in Threads, Untouched(u)
  PROVE  /\ InOrder(u)' /\ OnDevices(u)' /\ Asked(u)' /\ Behind(u)' = Behind(u)
<1>1. Behind(u)' = Behind(u)
  BY DEF Untouched, Behind
<1>2. InOrder(u)'
  BY <1>1 DEF Untouched, Commands, InOrder, Lists, Addresses
<1>3. OnDevices(u)'
  BY DEF Untouched, Commands, OnDevices
<1>4. Asked(u)'
  <2>1. Asked(u)
    BY DEF Commands
  <2>2. /\ Len(tasks) \in Nat /\ Len(tasks') \in Nat /\ Len(tasks) <= Len(tasks')
        /\ \A i \in 1..Len(tasks) : tasks'[i] = tasks[i]
    BY TasksGrow
  <2>3. SUFFICES ASSUME pc[u] = "poll"
                 PROVE  task[u] \in 1..Len(tasks') /\ tasks'[task[u]] = tasks[task[u]]
    BY <2>1 DEF Untouched, Asked
  <2>4. task[u] \in 1..Len(tasks)
    BY <2>1, <2>3 DEF Asked
  <2> QED BY <2>2, <2>4
<1> QED BY <1>1, <1>2, <1>3, <1>4

\* A new command starts at the front of its list.
LEMMA BeginLemma ==
  ASSUME Types, NEW t \in Threads, NEW k \in {"get", "set"}, NEW l \in Lists,
         NEW v \in Values, Begin(t, k, l, v)
  PROVE  InOrder(t)' /\ OnDevices(t)' /\ Asked(t)' /\ Behind(t)' = 0
<1>1. list'[t] = l /\ rest'[t] = l /\ kind'[t] = k /\ pc'[t] \in {"submit", "validate"}
  BY DEF Begin, Types
<1>2. pc'[t] = "submit" => Len(l) = 1 /\ l[1] \in Devices
  BY DEF Begin, Types
<1>3. l # <<>> /\ Len(l) \in Nat
  BY ListLemma
<1>4. Behind(t)' = 0
  BY <1>1, <1>3 DEF Behind
<1>5. \A i \in 1..Len(l) : rest'[t][i] = list'[t][Behind(t)' + i]
  BY <1>1, <1>3, <1>4
<1>6. InOrder(t)'
  BY <1>1, <1>3, <1>5 DEF InOrder, Lists, Addresses
<1>7. OnDevices(t)'
  BY <1>1, <1>2 DEF OnDevices
<1>8. Asked(t)'
  BY <1>1 DEF Asked
<1> QED BY <1>4, <1>6, <1>7, <1>8

\* A failure leaves the end of the list, or less of it.
LEMMA FailCommand ==
  ASSUME Types, Commands, NEW t \in Threads, pc[t] # "idle", Fail(t)
  PROVE  InOrder(t)' /\ OnDevices(t)' /\ Asked(t)'
<1>1. list'[t] = list[t] /\ InOrder(t)
  BY FailLemma DEF Commands
<1>2. PICK p \in {"idle", "validate"}, r \in {<<>>, Tail(rest[t])} :
        /\ pc' = [pc EXCEPT ![t] = p] /\ rest' = [rest EXCEPT ![t] = r]
        /\ p = "idle" <=> r = <<>>
  BY FailLemma
<1>3. pc'[t] = p /\ rest'[t] = r
  BY <1>2 DEF Types
<1>4. OnDevices(t)' /\ Asked(t)'
  BY <1>2, <1>3 DEF OnDevices, Asked
<1>5. Len(rest'[t]) <= Len(list'[t])
      /\ \A i \in 1..Len(rest'[t]) : rest'[t][i] = list'[t][Behind(t)' + i]
  <2>1. CASE r = <<>>
    <3>1. Len(list'[t]) \in Nat /\ Len(rest'[t]) = 0
      BY <1>1, <1>3, <2>1, LenProperties DEF Types
    <3> QED BY <3>1
  <2>2. CASE r = Tail(rest[t])
    <3>1. rest'[t] = Tail(rest[t])
      BY <1>3, <2>2
    <3> QED BY <1>1, <3>1, SuffixLemma
  <2> QED BY <1>2, <2>1, <2>2
<1>6. InOrder(t)'
  BY <1>1, <1>2, <1>3, <1>5 DEF InOrder, Lists, Addresses
<1> QED BY <1>4, <1>6

\* A validated command is about registered devices.
LEMMA ValidCommand ==
  ASSUME Types, Commands, NEW t \in Threads, Validated(t)
  PROVE  InOrder(t)' /\ OnDevices(t)' /\ Asked(t)'
<1>1. /\ pc[t] = "validate" /\ pc'[t] = "submit" /\ Valid(t)
      /\ kind' = kind /\ list' = list /\ rest' = rest
  BY DEF Validated, Types
<1>2. InOrder(t) /\ rest[t] \in Seq(Addresses) /\ kind[t] \in {"get", "set"}
  BY DEF Commands, Types
<1>3. rest[t] # <<>>
  BY <1>1, <1>2 DEF InOrder
<1>4. Head(rest[t]) = rest[t][1] /\ Len(rest[t]) \in Nat /\ Len(rest[t]) > 0
  BY <1>2, <1>3, TailLemma
<1>5. Len(list[t]) \in Nat /\ DOMAIN list[t] = 1..Len(list[t])
  BY LenProperties DEF Types
<1>6. ASSUME kind[t] = "get"
      PROVE  \A i \in 1..Len(rest[t]) : rest[t][i] \in Devices
  <2>1. \A i \in DOMAIN list[t] : list[t][i] \in Devices
    BY <1>1, <1>6 DEF Valid
  <2>2. Len(rest[t]) <= Len(list[t])
    BY <1>2 DEF InOrder
  <2>3. ASSUME NEW i \in 1..Len(rest[t]) PROVE rest[t][i] \in Devices
    <3>1. Behind(t) + i \in 1..Len(list[t])
      <4>1. Behind(t) = Len(list[t]) - Len(rest[t])
        BY DEF Behind
      <4>2. Len(list[t]) \in Nat /\ Len(rest[t]) \in Nat /\ i \in Nat /\ 1 <= i /\ i <= Len(rest[t])
        BY <1>4, <1>5
      <4> QED BY <2>2, <4>1, <4>2, WithinLemma
    <3>2. rest[t][i] = list[t][Behind(t) + i]
      BY <1>2 DEF InOrder
    <3> QED BY <1>5, <2>1, <3>1, <3>2
  <2> QED BY <2>3
<1>7. ASSUME kind[t] = "set"
      PROVE  rest[t][1] \in Devices
  <2>1. Head(rest[t]) \in Devices
    BY <1>1, <1>7 DEF Valid
  <2> QED BY <1>4, <2>1
<1>8. rest[t][1] \in Devices
  <2>1. CASE kind[t] = "get"
    BY <1>4, <1>6, <2>1
  <2> QED BY <1>2, <1>7, <2>1
<1>9. OnDevices(t)'
  BY <1>1, <1>6, <1>8 DEF OnDevices
<1>10. Behind(t)' = Behind(t)
  BY <1>1 DEF Behind
<1>11. InOrder(t)'
  BY <1>1, <1>2, <1>10 DEF InOrder, Lists, Addresses
<1> QED BY <1>1, <1>9, <1>11 DEF Asked

\* A submitted command polls for its own task.
LEMMA SubmittedCommand ==
  ASSUME Types, Commands, Fifo, NEW t \in Threads, Submitted(t)
  PROVE  InOrder(t)' /\ OnDevices(t)' /\ Asked(t)'
<1>1. /\ pc[t] = "submit" /\ pc'[t] = "poll" /\ Queued(t) /\ task'[t] = Len(tasks) + 1
      /\ kind' = kind /\ list' = list /\ rest' = rest /\ value' = value
  BY DEF Submitted, Types
<1>2. /\ Len(tasks) \in Nat /\ Len(tasks') = Len(tasks) + 1
      /\ tasks'[Len(tasks) + 1] = [kind |-> kind[t], addr |-> rest[t][1], value |-> value[t]]
  BY <1>1, QueuedLemma
<1>3. InOrder(t) /\ OnDevices(t) /\ Behind(t)' = Behind(t)
  BY <1>1 DEF Commands, Behind
<1>4. InOrder(t)'
  BY <1>1, <1>3 DEF InOrder, Lists, Addresses
<1>5. OnDevices(t)'
  BY <1>1, <1>3 DEF OnDevices
<1>6. Asked(t)'
  BY <1>1, <1>2 DEF Asked
<1> QED BY <1>4, <1>5, <1>6

\* A command that got its answer goes on with what is left of its list.
LEMMA AnsweredCommand ==
  ASSUME Types, Commands, NEW t \in Threads, PollOk(t)
  PROVE  InOrder(t)' /\ OnDevices(t)' /\ Asked(t)'
<1>1. pc[t] = "poll" /\ kind' = kind /\ list' = list /\ Advance(t)
  BY DEF PollOk, Polling
<1>2. PICK p \in {"idle", "submit", "validate"} :
        /\ pc' = [pc EXCEPT ![t] = p]
        /\ p = "idle" <=> Tail(rest[t]) = <<>>
        /\ p = "submit" => kind[t] = "get"
  BY <1>1, AdvanceLemma
<1>3. pc'[t] = p /\ rest'[t] = Tail(rest[t]) /\ list'[t] = list[t]
  BY <1>1, <1>2, AdvanceLemma DEF Types
<1>4. /\ Len(rest[t]) \in Nat \ {0} /\ Len(rest'[t]) = Len(rest[t]) - 1
      /\ Len(rest'[t]) <= Len(list'[t])
      /\ \A i \in 1..Len(rest'[t]) : rest'[t][i] = rest[t][i + 1]
      /\ \A i \in 1..Len(rest'[t]) : rest'[t][i] = list'[t][Behind(t)' + i]
  BY <1>1, <1>3, SuffixLemma
<1>5. InOrder(t)'
  <2>1. list[t] \in Lists \union {<<>>}
    BY DEF Commands, InOrder
  <2> QED BY <1>1, <1>2, <1>3, <1>4, <2>1, SMTT(30) DEF InOrder, Lists, Addresses
<1>6. OnDevices(t)'
  <2>1. SUFFICES ASSUME pc'[t] = "submit"
                 PROVE  /\ rest'[t][1] \in Devices
                        /\ \A i \in 1..Len(rest'[t]) : rest'[t][i] \in Devices
    BY <1>2, <1>3 DEF OnDevices
  <2>2. kind[t] = "get" /\ OnDevices(t)
    BY <1>2, <1>3, <2>1 DEF Commands
  <2>3. \A i \in 1..Len(rest[t]) : rest[t][i] \in Devices
    BY <1>1, <2>2 DEF OnDevices
  <2>4. rest[t] \in Seq(Addresses) /\ rest[t] # <<>> /\ Tail(rest[t]) # <<>>
    BY <1>1, <1>2, <1>3, <2>1 DEF Types, Commands, InOrder
  <2>5. Len(rest[t]) # 1
    BY <2>4, TailLemma
  <2>6. \A i \in 1..Len(rest'[t]) : rest'[t][i] \in Devices
    BY <1>4, <2>3
  <2>7. 1 \in 1..Len(rest'[t])
    <3>1. Len(rest[t]) \in Nat \ {0} /\ Len(rest'[t]) = Len(rest[t]) - 1
      BY <1>4
    <3>2. Len(rest'[t]) \in Nat /\ 1 <= Len(rest'[t])
      BY <2>5, <3>1, LessLemma
    <3> QED BY <3>2
  <2> QED BY <2>6, <2>7
<1>7. Asked(t)'
  BY <1>2, <1>3 DEF Asked
<1> QED BY <1>5, <1>6, <1>7

\* A command goes through its list in order.
LEMMA CommandsStep ==
  ASSUME Types, Commands, Fifo, [Next]_vars
  PROVE  Commands'
<1>1. ASSUME NEW t \in Threads, NEW k \in {"get", "set"}, NEW l \in Lists, NEW v \in Values,
             Begin(t, k, l, v)
      PROVE  Commands'
  <2>1. InOrder(t)' /\ OnDevices(t)' /\ Asked(t)'
    BY <1>1, BeginLemma
  <2>2. ASSUME NEW u \in Threads, u # t PROVE InOrder(u)' /\ OnDevices(u)' /\ Asked(u)'
    BY <1>1, <2>2, OtherThread, IdleLemma
  <2>3. kind'["worker"] = "get"
    BY <1>1 DEF Begin, Types, Commands
  <2> QED BY <2>1, <2>2, <2>3 DEF Commands
<1>2. ASSUME NEW t \in Threads, ThreadStep(t)
      PROVE  Commands'
  <2>3. InOrder(t)' /\ OnDevices(t)' /\ Asked(t)'
    <3>1. CASE NotValidated(t) \/ NotSubmitted(t) \/ PollFailed(t)
      <4>1. pc[t] # "idle" /\ Fail(t)
        BY <3>1 DEF NotValidated, NotSubmitted, PollFailed
      <4> QED BY <4>1, FailCommand
    <3>2. CASE PollWaiting(t)
      <4>1. Untouched(t)
        BY <3>2 DEF PollWaiting, Untouched
      <4> QED BY <4>1, IdleLemma
    <3>3. CASE Validated(t)
      BY <3>3, ValidCommand
    <3>4. CASE Submitted(t)
      BY <3>4, SubmittedCommand
    <3>5. CASE PollOk(t)
      BY <3>5, AnsweredCommand
    <3> QED BY <1>2, <3>1, <3>2, <3>3, <3>4, <3>5 DEF ThreadStep
  <2>4. ASSUME NEW u \in Threads, u # t PROVE InOrder(u)' /\ OnDevices(u)' /\ Asked(u)'
    BY <1>2, <2>4, OtherThread, IdleLemma
  <2>5. kind' = kind
    BY <1>2, FailLemma DEF ThreadStep, Validated, NotValidated, Submitted, NotSubmitted, PollOk,
       PollWaiting, PollFailed
  <2> QED BY <2>3, <2>4, <2>5 DEF Commands
<1>3. ASSUME UNCHANGED clientVars
      PROVE  Commands'
  <2>1. \A u \in Threads : Untouched(u)
    BY <1>3 DEF Untouched
  <2>2. \A u \in Threads : InOrder(u)' /\ OnDevices(u)' /\ Asked(u)'
    BY <2>1, IdleLemma
  <2> QED BY <1>3, <2>2 DEF Commands
<1>4. \/ UNCHANGED clientVars
      \/ \E t \in Threads, k \in {"get", "set"}, l \in Lists, v \in Values : Begin(t, k, l, v)
      \/ \E t \in Threads : ThreadStep(t)
  BY DEF Next, ReadExecuted, WriteExecuted, Answer, ServerHangs
<1> QED BY <1>1, <1>2, <1>3, <1>4

-----------------------------------------------------------------------------
\* Requests of the worker are reads and do not disturb the shell's command.
LEMMA WorkerEffects ==
  ASSUME Types, Commands, Fifo, Undisturbed, Settled, Untouched("shell"),
         UNCHANGED taskVars \/ (pc["worker"] = "submit" /\ Queued("worker"))
  PROVE  Undisturbed' /\ Settled'
<1>1. Behind("shell")' = Behind("shell")
  BY DEF Untouched, Behind
<1>2. CASE UNCHANGED taskVars
  <2>1. Executed' = Executed
    BY <1>2 DEF Executed
  <2>2. \A a : Claim(a)' <=> Claim(a)
    BY <1>2 DEF Untouched, Claim
  <2>3. \A i, a : Told(i, a)' <=> Told(i, a)
    BY <1>2 DEF Untouched, Told
  <2>4. Undisturbed'
    BY <1>2, <2>3 DEF Untouched, Undisturbed
  <2>5. Settled'
    BY <1>1, <1>2, <2>1, <2>2 DEF Untouched, Settled
  <2> QED BY <2>4, <2>5
<1>3. CASE pc["worker"] = "submit" /\ Queued("worker")
  <2>1. /\ Len(tasks) \in Nat /\ Len(queue) \in Nat /\ Len(tasks') = Len(tasks) + 1
        /\ Len(queue') = Len(queue) + 1 /\ register' = register
        /\ \A i \in 1..Len(tasks) : tasks'[i] = tasks[i]
        /\ \A i \in 1..Len(tasks) : reply'[i] = reply[i]
    BY <1>3, QueuedLemma DEF Threads
  <2>2. tasks'[Len(tasks) + 1].kind = "get"
    <3>1. tasks'[Len(tasks) + 1] = [kind |-> kind["worker"], addr |-> rest["worker"][1],
                                    value |-> value["worker"]]
      BY <1>3, QueuedLemma DEF Threads
    <3> QED BY <3>1 DEF Commands
  <2>3. Executed' = Executed
    BY <2>1 DEF Executed
  <2>4. \A a : Claim(a)' <=> Claim(a)
    BY <2>1 DEF Untouched, Claim
  <2>5. Undisturbed'
    <3>1. SUFFICES ASSUME pc["shell"] = "poll"
                   PROVE  /\ \A i \in 1..Len(tasks') : i > task["shell"] => tasks'[i].kind = "get"
                          /\ Told(task["shell"], rest["shell"][1])'
      BY DEF Untouched, Undisturbed
    <3>2. task["shell"] \in 1..Len(tasks)
      BY <3>1 DEF Commands, Asked, Threads
    <3>3. \A i \in 1..Len(tasks) : i > task["shell"] => tasks[i].kind = "get"
      BY <3>1 DEF Undisturbed
    <3>4. \A i \in 1..Len(tasks') : i > task["shell"] => tasks'[i].kind = "get"
      BY <2>1, <2>2, <3>3
    <3>5. Told(task["shell"], rest["shell"][1])'
      BY <2>1, <3>1, <3>2 DEF Untouched, Undisturbed, Told
    <3> QED BY <3>4, <3>5
  <2>6. Settled'
    <3>1. SUFFICES ASSUME allOk["shell"], Behind("shell") > 0
                   PROVE  /\ \A i \in 1..Behind("shell") : Claim(list["shell"][i])
                          /\ \A i \in 1..Len(tasks') :
                               i > Executed /\ tasks'[i].kind = "set" =>
                                 pc["shell"] = "poll" /\ i = task["shell"]
      BY <1>1, <2>3, <2>4 DEF Untouched, Settled
    <3>2. /\ \A i \in 1..Behind("shell") : Claim(list["shell"][i])
          /\ \A i \in 1..Len(tasks) : i > Executed /\ tasks[i].kind = "set" =>
                                       pc["shell"] = "poll" /\ i = task["shell"]
      BY <3>1 DEF Settled
    <3> QED BY <2>1, <2>2, <3>2
  <2> QED BY <2>5, <2>6
<1> QED BY <1>2, <1>3

\* An execution makes true what it answers, and writes only what the shell asked
\* for last.
LEMMA ExecutedEffects ==
  ASSUME Types, Commands, Fifo, Undisturbed, Settled, ReadExecuted \/ WriteExecuted
  PROVE  Undisturbed' /\ Settled'
<1> DEFINE e == Executed + 1
           k == task["shell"]
<1>1. queue # <<>>
  BY ExecutedLemma
<1>2. PICK s \in {"ok", "error"}, v \in Values :
        /\ Answer(s, v)
        /\ \/ /\ tasks[e].kind = "get" /\ UNCHANGED register
              /\ s = "ok" => v = register[tasks[e].addr]
           \/ /\ tasks[e].kind = "set"
              /\ \/ register' = [register EXCEPT ![tasks[e].addr] = tasks[e].value]
                 \/ s = "error" /\ UNCHANGED register
  BY ExecutedLemma
<1>3. /\ Len(tasks) \in Nat /\ e \in 1..Len(tasks) /\ tasks' = tasks
      /\ reply'[e] = [status |-> s, value |-> v]
      /\ \A i \in 1..Len(tasks) : i # e => reply'[i] = reply[i]
      /\ Executed' = e /\ UNCHANGED clientVars
  BY <1>1, <1>2, AnswerLemma
<1>4. Executed \in Nat
  BY <1>3, LenProperties DEF Executed, Types, Fifo
<1>5. Untouched("shell") /\ Behind("shell")' = Behind("shell")
  BY <1>3 DEF Untouched, Behind
<1>6. register \in [Devices -> Values]
  BY DEF Types
<1>7. Undisturbed'
  <2>1. SUFFICES ASSUME pc["shell"] = "poll"
                 PROVE  /\ \A i \in 1..Len(tasks) : i > k => tasks[i].kind = "get"
                        /\ Told(k, rest["shell"][1])'
    BY <1>3 DEF Undisturbed
  <2>2. /\ \A i \in 1..Len(tasks) : i > k => tasks[i].kind = "get"
        /\ Told(k, rest["shell"][1])
    BY <2>1 DEF Undisturbed
  <2>3. /\ k \in 1..Len(tasks) /\ tasks[k].kind = kind["shell"]
        /\ tasks[k].addr = rest["shell"][1] /\ tasks[k].value = value["shell"]
        /\ rest["shell"][1] \in Devices
    BY <2>1 DEF Commands, Asked, OnDevices, Threads
  <2>4. CASE k = e
    <3>1. reply'[k].status = s /\ reply'[k].value = v
      BY <1>3, <2>4
    <3>2. s = "ok" /\ kind["shell"] = "get" => v = register'[rest["shell"][1]]
      BY <1>2, <2>3, <2>4
    <3>3. s = "ok" /\ kind["shell"] = "set" => register'[rest["shell"][1]] = value["shell"]
      BY <1>2, <1>6, <2>3, <2>4
    <3> QED BY <1>3, <2>2, <3>1, <3>2, <3>3 DEF Told
  <2>5. CASE k # e
    <3>1. reply'[k] = reply[k]
      BY <1>3, <2>3, <2>5
    <3>2. CASE reply[k].status = "ok"
      <4>1. k <= Executed
        BY <2>3, <3>2 DEF Fifo
      <4>2. tasks[e].kind = "get"
        BY <1>3, <1>4, <2>2, <2>3, <4>1
      <4>3. register' = register
        BY <1>2, <4>2
      <4> QED BY <1>3, <2>2, <3>1, <4>3 DEF Told
    <3>3. CASE reply[k].status # "ok"
      BY <1>3, <2>2, <3>1, <3>3 DEF Told
    <3> QED BY <3>2, <3>3
  <2> QED BY <2>4, <2>5
<1>8. Settled'
  <2>1. SUFFICES ASSUME allOk["shell"], Behind("shell") > 0
                 PROVE  /\ \A i \in 1..Behind("shell") : Claim(list["shell"][i])'
                        /\ \A i \in 1..Len(tasks) : i > e /\ tasks[i].kind = "set" =>
                             pc["shell"] = "poll" /\ i = k
    BY <1>3, <1>5 DEF Settled
  <2>2. /\ \A i \in 1..Behind("shell") : Claim(list["shell"][i])
        /\ \A i \in 1..Len(tasks) : i > Executed /\ tasks[i].kind = "set" =>
                                     pc["shell"] = "poll" /\ i = k
    BY <2>1 DEF Settled
  <2>3. \A i \in 1..Len(tasks) : i > e /\ tasks[i].kind = "set" =>
          pc["shell"] = "poll" /\ i = k
    BY <1>3, <1>4, <2>2
  <2>4. ASSUME NEW a, Claim(a) PROVE Claim(a)'
    <3>1. CASE register' = register
      BY <1>3, <2>4, <3>1 DEF Claim
    <3>2. CASE register' # register
      <4>1. tasks[e].kind = "set"
            /\ register' = [register EXCEPT ![tasks[e].addr] = tasks[e].value]
        BY <1>2, <3>2
      <4>2. pc["shell"] = "poll" /\ e = k
        BY <1>3, <1>4, <2>2, <4>1
      <4>3. kind["shell"] = "set" /\ tasks[e].value = value["shell"]
        BY <4>1, <4>2 DEF Commands, Asked, Threads
      <4> QED BY <1>3, <1>6, <2>4, <4>1, <4>3 DEF Claim
    <3> QED BY <3>1, <3>2
  <2>5. ASSUME NEW i \in 1..Behind("shell") PROVE Claim(list["shell"][i])'
    <3>1. Claim(list["shell"][i])
      BY <2>2
    <3>2. list' = list
      BY <1>3
    <3> QED BY <2>4, <3>1, <3>2 DEF Claim
  <2> QED BY <2>3, <2>5
<1> QED BY <1>7, <1>8

\* The shell's own steps: a failure withdraws the claim, an answer extends it.
LEMMA ShellEffects ==
  ASSUME Types, Commands, Fifo, Undisturbed, Settled, ThreadStep("shell")
  PROVE  Undisturbed' /\ Settled'
<1>1. "shell" \in Threads
  BY DEF Threads
<1>2. CASE NotValidated("shell") \/ NotSubmitted("shell") \/ PollFailed("shell")
  <2>1. Fail("shell")
    BY <1>2 DEF NotValidated, NotSubmitted, PollFailed
  <2>2. /\ allOk' = [allOk EXCEPT !["shell"] = FALSE]
        /\ \E p \in {"idle", "validate"} : pc' = [pc EXCEPT !["shell"] = p]
    BY <1>1, <2>1, FailLemma
  <2>3. allOk'["shell"] = FALSE /\ pc'["shell"] # "poll"
    BY <1>1, <2>2 DEF Types
  <2> QED BY <2>3 DEF Undisturbed, Settled
<1>3. CASE PollWaiting("shell")
  <2>1. Untouched("shell") /\ UNCHANGED taskVars
    BY <1>3 DEF PollWaiting, Untouched
  <2> QED BY <2>1, WorkerEffects
<1>4. CASE Validated("shell")
  <2>1. /\ pc["shell"] = "validate" /\ pc'["shell"] = "submit" /\ UNCHANGED taskVars
        /\ UNCHANGED <<kind, list, value, rest, task, allOk, shown>>
    BY <1>1, <1>4 DEF Validated, Types
  <2>2. Behind("shell")' = Behind("shell") /\ Executed' = Executed
    BY <2>1 DEF Behind, Executed
  <2>3. \A a : Claim(a)' <=> Claim(a)
    BY <2>1 DEF Claim
  <2> QED BY <2>1, <2>2, <2>3 DEF Undisturbed, Settled
<1>5. CASE Submitted("shell")
  <2>1. /\ pc["shell"] = "submit" /\ pc'["shell"] = "poll" /\ Queued("shell")
        /\ task'["shell"] = Len(tasks) + 1
        /\ UNCHANGED <<kind, list, value, rest, allOk, shown>>
    BY <1>1, <1>5 DEF Submitted, Types
  <2>2. /\ Len(tasks) \in Nat /\ Len(queue) \in Nat /\ Len(tasks') = Len(tasks) + 1
        /\ Len(queue') = Len(queue) + 1 /\ register' = register
        /\ \A i \in 1..Len(tasks) : tasks'[i] = tasks[i]
        /\ reply'[Len(tasks) + 1] = Waiting
    BY <1>1, <2>1, QueuedLemma
  <2>3. Behind("shell")' = Behind("shell") /\ Executed' = Executed
    BY <2>1, <2>2 DEF Behind, Executed
  <2>4. Undisturbed'
    <3>1. Told(task["shell"], rest["shell"][1])'
      BY <2>1, <2>2 DEF Told, Waiting
    <3> QED BY <2>1, <2>2, <3>1 DEF Undisturbed
  <2>5. \A a : Claim(a)' <=> Claim(a)
    BY <2>1, <2>2 DEF Claim
  <2>6. Settled'
    <3>1. SUFFICES ASSUME allOk["shell"], Behind("shell") > 0
                   PROVE  /\ \A i \in 1..Behind("shell") : Claim(list["shell"][i])
                          /\ \A i \in 1..Len(tasks') :
                               i > Executed /\ tasks'[i].kind = "set" => i = Len(tasks) + 1
      BY <2>1, <2>3, <2>5 DEF Settled
    <3>2. /\ \A i \in 1..Behind("shell") : Claim(list["shell"][i])
          /\ \A i \in 1..Len(tasks) : i > Executed /\ tasks[i].kind = "set" =>
                                       pc["shell"] = "poll"
      BY <3>1 DEF Settled
    <3> QED BY <2>1, <2>2, <3>2
  <2> QED BY <2>4, <2>6
<1>6. CASE PollOk("shell")
  <2>1. /\ pc["shell"] = "poll" /\ Advance("shell") /\ reply[task["shell"]].status = "ok"
        /\ UNCHANGED <<kind, list, value, task, allOk, taskVars>>
    BY <1>6 DEF PollOk, Polling
  <2>2. PICK p \in {"idle", "submit", "validate"} : pc' = [pc EXCEPT !["shell"] = p]
    BY <1>1, <2>1, AdvanceLemma
  <2>3. rest' = [rest EXCEPT !["shell"] = Tail(rest["shell"])]
    BY <1>1, <2>1, AdvanceLemma
  <2>4. pc'["shell"] # "poll" /\ rest'["shell"] = Tail(rest["shell"])
        /\ list'["shell"] = list["shell"]
    BY <1>1, <2>1, <2>2, <2>3 DEF Types
  <2>5. PICK k \in 1..Len(tasks), a0 \in Devices : k = task["shell"] /\ a0 = rest["shell"][1]
    BY <1>1, <2>1 DEF Commands, Asked, OnDevices
  <2>6. /\ Behind("shell") \in Nat /\ Behind("shell")' = Behind("shell") + 1
        /\ list["shell"][Behind("shell") + 1] = a0 /\ Head(rest["shell"]) = a0
    BY <1>1, <2>1, <2>4, <2>5, SuffixLemma
  <2>7. /\ \A i \in 1..Len(tasks) : i > k => tasks[i].kind = "get"
        /\ Told(k, a0)
    BY <2>1, <2>5 DEF Undisturbed
  <2>8. kind["shell"] = "get" =>
          shown'["shell"] = [shown["shell"] EXCEPT ![a0] = reply[k].value]
    BY <1>1, <1>6, <2>5, <2>6 DEF PollOk, Types
  <2>9. shown["shell"] \in [Addresses -> Values \union {Unread}]
        /\ kind["shell"] \in {"get", "set"} /\ a0 \in Addresses
    BY <1>1 DEF Types, Addresses
  <2>10. Claim(a0)'
    <3>1. kind["shell"] = "get" => shown'["shell"][a0] = register[a0]
      BY <2>1, <2>5, <2>7, <2>8, <2>9 DEF Told
    <3>2. kind["shell"] = "set" => register[a0] = value["shell"]
      BY <2>1, <2>5, <2>7 DEF Told
    <3> QED BY <2>1, <3>1, <3>2 DEF Claim
  <2>11. ASSUME NEW a \in Devices, Claim(a) PROVE Claim(a)'
    <3>1. kind["shell"] = "get" => a = a0 \/ shown'["shell"][a] = shown["shell"][a]
      BY <2>8, <2>9 DEF Addresses
    <3> QED BY <2>1, <2>10, <2>11, <3>1 DEF Claim
  <2>12. ASSUME allOk["shell"], NEW i \in 1..(Behind("shell") + 1)
         PROVE  Claim(list["shell"][i])'
    <3>1. PICK a : a = list["shell"][i]
      OBVIOUS
    <3>2. CASE i = Behind("shell") + 1
      BY <2>4, <2>6, <2>10, <3>2 DEF Claim
    <3>3. CASE i # Behind("shell") + 1
      <4>1. i \in 1..Behind("shell") /\ Behind("shell") > 0
        BY <2>6, <3>3
      <4>2. Claim(a)
        BY <2>12, <3>1, <4>1 DEF Settled
      <4>3. Claim(a)'
        BY <2>11, <4>2 DEF Claim
      <4> QED BY <2>4, <3>1, <4>3 DEF Claim
    <3> QED BY <3>2, <3>3
  <2>13. ASSUME NEW i \in 1..Len(tasks), i > Executed
         PROVE  tasks[i].kind = "get"
    <3>1. k <= Executed
      BY <2>1, <2>5 DEF Fifo
    <3>2. Executed \in Int /\ i > k
      BY <2>13, <3>1, LenProperties DEF Executed, Types
    <3> QED BY <2>7, <3>2
  <2>14. Settled'
    <3>1. Executed' = Executed /\ tasks' = tasks /\ allOk' = allOk
      BY <2>1 DEF Executed
    <3> QED BY <2>6, <2>12, <2>13, <3>1 DEF Settled
  <2> QED BY <2>4, <2>14 DEF Undisturbed
<1> QED BY <1>2, <1>3, <1>4, <1>5, <1>6 DEF ThreadStep

\* Every step keeps the shell's command right about the registers.
LEMMA EffectsStep ==
  ASSUME Types, Commands, Fifo, Undisturbed, Settled, [Next]_vars
  PROVE  Undisturbed' /\ Settled'
<1>1. ASSUME NEW k \in {"get", "set"}, NEW l \in Lists, NEW v \in Values,
             Begin("shell", k, l, v)
      PROVE  Undisturbed' /\ Settled'
  <2>1. Behind("shell")' = 0
    BY <1>1, BeginLemma DEF Threads
  <2>2. pc'["shell"] = "validate"
    BY <1>1 DEF Begin, Types, Threads
  <2> QED BY <2>1, <2>2 DEF Undisturbed, Settled
<1>2. ASSUME \/ ThreadStep("worker")
             \/ \E k \in {"get", "set"}, l \in Lists, v \in Values : Begin("worker", k, l, v)
      PROVE  Undisturbed' /\ Settled'
  <2>1. Untouched("shell")
    BY <1>2, OtherThread DEF Threads
  <2>2. UNCHANGED taskVars \/ (pc["worker"] = "submit" /\ Queued("worker"))
    BY <1>2, ThreadLemma DEF Begin, Threads
  <2> QED BY <2>1, <2>2, WorkerEffects
<1>3. CASE UNCHANGED vars \/ ServerHangs
  <2>1. Untouched("shell") /\ UNCHANGED taskVars
    BY <1>3 DEF Untouched, ServerHangs
  <2> QED BY <2>1, WorkerEffects
<1>4. CASE ThreadStep("shell")
  BY <1>4, ShellEffects
<1>5. CASE ReadExecuted \/ WriteExecuted
  BY <1>5, ExecutedEffects
<1> QED BY <1>1, <1>2, <1>3, <1>4, <1>5 DEF Next, Threads

-----------------------------------------------------------------------------
(* The invariant and the theorems.                                           *)

\* The invariant holds initially.
LEMMA InvInit == Init => Inv
<1> SUFFICES ASSUME Init PROVE Inv
  OBVIOUS
<1>1. <<>> \in Seq(Addresses) /\ <<>> \in Seq(Nat) /\ <<>> \in Seq(Tasks)
      /\ <<>> \in Seq(Replies) /\ Len(<<>>) = 0
  BY EmptySeq
<1>2. Types
  <2>1. /\ list \in [Threads -> Seq(Addresses)] /\ rest \in [Threads -> Seq(Addresses)]
        /\ queue \in Seq(Nat) /\ tasks \in Seq(Tasks) /\ reply \in Seq(Replies)
    BY <1>1 DEF Init
  <2>2. shown \in [Threads -> [Addresses -> Values \union {Unread}]]
    BY DEF Init, NothingShown
  <2>3. /\ pc \in [Threads -> Pcs] /\ kind \in [Threads -> {"get", "set"}]
        /\ value \in [Threads -> Values] /\ task \in [Threads -> Nat]
        /\ attempts \in [Threads -> 0..MaxAttempts] /\ allOk \in [Threads -> BOOLEAN]
        /\ register \in [Devices -> Values] /\ responsive \in BOOLEAN
    BY DEF Init, Pcs
  <2> QED BY <2>1, <2>2, <2>3 DEF Types
<1>3. Commands
  <2>1. ASSUME NEW t \in Threads
        PROVE  list[t] = <<>> /\ rest[t] = <<>> /\ pc[t] = "idle"
    BY DEF Init
  <2>2. \A t \in Threads : InOrder(t) /\ OnDevices(t) /\ Asked(t)
    BY <1>1, <2>1 DEF InOrder, OnDevices, Asked
  <2> QED BY <2>2 DEF Init, Commands, Threads
<1>4. Fifo
  BY <1>1 DEF Init, Fifo, Executed
<1>5. Undisturbed /\ Settled
  BY <1>1 DEF Init, Undisturbed, Settled, Behind, Threads
<1> QED BY <1>2, <1>3, <1>4, <1>5 DEF Inv

\* Every step preserves it.
LEMMA InvStep == Inv /\ [Next]_vars => Inv'
BY TypesStep, CommandsStep, FifoStep, EffectsStep DEF Inv

\* In every state the two threads and the server can be in, the invariant holds.
THEOREM Invariance == Spec => []Inv
BY InvInit, InvStep, PTL DEF Spec

\* Every variable has its type, a command under way has an address to do, and
\* the server's queue holds unanswered tasks.
THEOREM TypeCorrect == Spec => []TypeOK
<1>1. ASSUME Inv PROVE TypeOK
  <2>1. /\ Types /\ Commands /\ Fifo
    BY <1>1 DEF Inv
  <2>2. /\ DOMAIN tasks = 1..Len(tasks) /\ DOMAIN queue = 1..Len(queue)
        /\ Len(tasks) \in Nat /\ Len(queue) \in Nat /\ Len(reply) = Len(tasks)
    BY <2>1, LenProperties DEF Types, Fifo
  <2>3. ASSUME NEW i \in DOMAIN tasks PROVE tasks[i] \in Tasks /\ reply[i] \in Replies
    BY <2>1, <2>2, LenProperties DEF Types
  <2>4. ASSUME NEW j \in DOMAIN queue PROVE reply[queue[j]] = Waiting
    <3>1. queue[j] = Executed + j /\ Executed + j \in 1..Len(tasks) /\ Executed + j > Executed
      BY <2>1, <2>2 DEF Fifo, Executed
    <3> QED BY <2>1, <3>1 DEF Fifo
  <2>5. ASSUME NEW t \in Threads
        PROVE  /\ list[t] \in Lists \union {<<>>}
               /\ rest[t] = <<>> <=> pc[t] = "idle"
               /\ pc[t] = "poll" => task[t] \in DOMAIN tasks
    BY <2>1, <2>2 DEF Commands, InOrder, Asked
  <2>6. Len(queue) <= QueueSize
    BY <2>1 DEF Fifo
  <2> QED BY <2>1, <2>3, <2>4, <2>5, <2>6 DEF TypeOK, Types
<1> QED BY <1>1, Invariance, PTL

\* A command without a failure is right about every address of its list.
LEMMA DoneLemma ==
  ASSUME Inv, NEW c \in {"get", "set"}, LastCommand(c), NEW i \in DOMAIN list["shell"]
  PROVE  Claim(list["shell"][i])
<1>1. "shell" \in Threads /\ Types /\ Commands /\ Settled
  BY DEF Inv, Threads
<1>2. rest["shell"] = <<>> /\ list["shell"] # <<>> /\ list["shell"] \in Seq(Addresses)
      /\ allOk["shell"]
  BY <1>1 DEF LastCommand, Commands, InOrder, Types
<1>3. Len(rest["shell"]) = 0 /\ Len(list["shell"]) \in Nat \ {0}
      /\ DOMAIN list["shell"] = 1..Len(list["shell"])
  BY <1>2, EmptySeq, LenProperties
<1>4. Behind("shell") = Len(list["shell"])
  BY <1>3 DEF Behind
<1> QED BY <1>1, <1>2, <1>3, <1>4 DEF Settled

\* After a set that succeeded its registers hold the value, whatever was left in
\* the server's queue before it.
THEOREM SetIsInEffect == Spec => []SetTakesEffect
<1>1. Inv => SetTakesEffect
  BY DoneLemma DEF SetTakesEffect, LastCommand, Claim
<1> QED BY <1>1, Invariance, PTL

\* What a get that succeeded has shown is still so at the next prompt.
THEOREM GetIsCurrent == Spec => []GetShowsRegister
<1>1. Inv => GetShowsRegister
  BY DoneLemma DEF GetShowsRegister, LastCommand, Claim
<1> QED BY <1>1, Invariance, PTL

=============================================================================
