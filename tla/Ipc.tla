-------------------------------- MODULE Ipc --------------------------------
(***************************************************************************)
(* The message-passing core of the 25-osfs11 kernel: sendrec() (proc.c),   *)
(* interrupt notification (inform_int), the clock interrupt (clock.c) and  *)
(* schedule().                                                             *)
(*                                                                         *)
(* sys_sendrec runs with interrupts masked and only selects the next       *)
(* process, so one system call is one step.  An interrupt handler is one   *)
(* step too; it may be taken at ring 1-3 (k_reenter = 0) or on top of a    *)
(* system call (k_reenter > 0), in which case it does not reschedule.      *)
(*                                                                         *)
(* p_msg is the buffer a blocked process published: here a Boolean (null   *)
(* or not), the buffer's contents being buf[p].  next_sending and          *)
(* q_sending together are the sequence q_sending[p].                       *)
(***************************************************************************)
EXTENDS Integers, Sequences, FiniteSets

CONSTANTS
  NR_TASKS,         \* ring-1 tasks: processes 0 .. NR_TASKS-1 of proc_table
  NR_NATIVE_PROCS,  \* user processes that exist at boot
  NR_PROCS,         \* user slots of proc_table
  TASK_PRIO,        \* the tasks' ticks per round (15 in kernel_main)
  USER_PRIO,        \* the user processes' ticks per round (5)
  TASK_TTY,         \* the task the clock interrupt informs of a key press
  TASK_HD,          \* the task the disk interrupt informs
  SendTo,           \* SendTo[p]: the destinations p's code sends to
  RecvFrom,         \* RecvFrom[p]: the sources p's code receives from
  Type,             \* message types that processes send
  OobSending        \* what the test of proc_table[INTERRUPT] may yield

ANY       == NR_TASKS + NR_PROCS + 10
NO_TASK   == NR_TASKS + NR_PROCS + 20
INTERRUPT == -10

Proc   == 0 .. NR_TASKS + NR_PROCS - 1
Native == 0 .. NR_TASKS + NR_NATIVE_PROCS - 1

SENDING   == "SENDING"
RECEIVING == "RECEIVING"
WAITING   == "WAITING"
HANGING   == "HANGING"
FREE_SLOT == "FREE_SLOT"
Flag      == {SENDING, RECEIVING, WAITING, HANGING, FREE_SLOT}

HARD_INT == "HARD_INT"
Message  == [source : Proc \cup {INTERRUPT}, type : Type \cup {HARD_INT}]
HardInt  == [source |-> INTERRUPT, type |-> HARD_INT]

ASSUME SizesAssumption ==
  /\ NR_TASKS \in Nat /\ NR_PROCS \in Nat /\ NR_NATIVE_PROCS \in Nat
  /\ NR_NATIVE_PROCS <= NR_PROCS
  /\ TASK_PRIO \in Nat \ {0} /\ USER_PRIO \in Nat \ {0}
  /\ TASK_TTY \in 0 .. NR_TASKS - 1 /\ TASK_HD \in 0 .. NR_TASKS - 1

\* No process sends to itself or receives from itself (proc.c:87); a task
\* that interrupts are reported to receives from ANY or from INTERRUPT.
ASSUME CallsAssumption ==
  /\ SendTo \in [Proc -> SUBSET Proc]
  /\ RecvFrom \in [Proc -> SUBSET (Proc \cup {ANY, INTERRUPT})]
  /\ \A p \in Proc : p \notin SendTo[p] /\ p \notin RecvFrom[p]
  /\ \A t \in {TASK_TTY, TASK_HD} : RecvFrom[t] \subseteq {ANY, INTERRUPT}
  /\ HARD_INT \notin Type /\ Type # {}
  /\ OobSending \subseteq BOOLEAN

\* TestA, TestB and TestC loop forever without a system call (main.c:382-401):
\* schedule() always finds one of them.
Spinner == {p \in Native : SendTo[p] = {} /\ RecvFrom[p] = {}}
ASSUME SpinnerAssumption == Spinner # {}

Priority(p) == IF p < NR_TASKS THEN TASK_PRIO ELSE USER_PRIO

VARIABLES
  p_flags, p_msg, p_recvfrom, p_sendto, has_int_msg, q_sending, ticks,
  buf,            \* buf[p]: the MESSAGE p passed to its last system call
  p_proc_ready,   \* the process restart() runs
  halted          \* "no", "panic", "assert", or "idle" (schedule() loops)

ipcVars == <<p_flags, p_msg, p_recvfrom, p_sendto, has_int_msg, q_sending, buf>>
vars    == <<ipcVars, ticks, p_proc_ready, halted>>

-----------------------------------------------------------------------------
\* schedule(): the first process of the table with the most ticks among those
\* with p_flags == 0; when none has ticks left all of them are refilled.

Runnable(flags) == {p \in Proc : flags[p] = {}}

\* Mutation: the ticks of blocked processes hold the refill back.
RefilledLate(flags, tk) ==
  IF \E p \in Proc : tk[p] > 0
  THEN tk
  ELSE [p \in Proc |-> IF p \in Runnable(flags) THEN Priority(p) ELSE tk[p]]

Refilled(flags, tk) ==
  IF \E p \in Runnable(flags) : tk[p] > 0
  THEN tk
  ELSE [p \in Proc |-> IF p \in Runnable(flags) THEN Priority(p) ELSE tk[p]]

\* Mutation: the test of p_flags is left out of the scan.
FirstWithMostBlocked(flags, tk) ==
  {p \in Native : \A q \in Native : tk[q] < tk[p] \/ (tk[q] = tk[p] /\ p <= q)}

FirstWithMost(flags, tk) ==
  {p \in Runnable(flags) :
     \A q \in Runnable(flags) : tk[q] < tk[p] \/ (tk[q] = tk[p] /\ p <= q)}

Schedule(flags, tk) ==
  /\ ticks' = Refilled(flags, tk)
  /\ IF Runnable(flags) = {} THEN UNCHANGED p_proc_ready
     ELSE p_proc_ready' \in FirstWithMost(flags, Refilled(flags, tk))

\* How the machine goes on after a step with these kernel assertions.
Continue(assertions, flags) ==
  halted' = IF ~assertions THEN "assert"
            ELSE IF Runnable(flags) = {} THEN "idle" ELSE "no"

-----------------------------------------------------------------------------
Sending(p)   == SENDING \in p_flags[p]
Receiving(p) == RECEIVING \in p_flags[p]

\* Mutation: only a direct circle of two is seen.
DeadlockOfTwo(src, dest) == Sending(dest) /\ p_sendto[dest] = src

\* deadlock(src, dest): following p_sendto from dest through SENDING processes
\* leads to src.  (Every set that holds dest and is closed under the walk
\* holds src.)
Deadlock(src, dest) ==
  \A S \in SUBSET Proc :
    (dest \in S /\ \A x \in S : Sending(x) => p_sendto[x] \in S) => src \in S

\* What msg_send and msg_receive assert of a process that may run.
Unencumbered(p) ==
  p_flags[p] = {} /\ ~p_msg[p] /\ p_recvfrom[p] = NO_TASK /\ p_sendto[p] = NO_TASK

\* Mutation: p_recvfrom is not reset.
StopReceivingStale(d) ==
  /\ p_msg' = [p_msg EXCEPT ![d] = FALSE]
  /\ p_flags' = [p_flags EXCEPT ![d] = @ \ {RECEIVING}]
  /\ UNCHANGED p_recvfrom

\* The receiver d has its message.
StopReceiving(d) ==
  /\ p_msg' = [p_msg EXCEPT ![d] = FALSE]
  /\ p_flags' = [p_flags EXCEPT ![d] = @ \ {RECEIVING}]
  /\ p_recvfrom' = [p_recvfrom EXCEPT ![d] = NO_TASK]

\* The message of sender s was taken.
StopSending(s) ==
  /\ p_msg' = [p_msg EXCEPT ![s] = FALSE]
  /\ p_flags' = [p_flags EXCEPT ![s] = @ \ {SENDING}]
  /\ p_sendto' = [p_sendto EXCEPT ![s] = NO_TASK]

Stop(why) == halted' = why /\ UNCHANGED <<ipcVars, ticks, p_proc_ready>>

\* mla->source = caller, then the message the caller filled in.
Called(p, dest) == /\ halted = "no"
                   /\ p = p_proc_ready
                   /\ dest \in SendTo[p]

SendPanics(p, dest) ==
  /\ Called(p, dest)
  /\ Deadlock(p, dest)
  /\ Stop("panic")

WaitsFor(dest, p) == Receiving(dest) /\ p_recvfrom[dest] \in {p, ANY}

SendDelivers(p, dest, type) ==
  /\ Called(p, dest)
  /\ ~Deadlock(p, dest)
  /\ WaitsFor(dest, p)
  /\ LET m == [source |-> p, type |-> type]
     IN  buf' = [buf EXCEPT ![p] = m, ![dest] = m]
  /\ StopReceiving(dest)
  /\ Continue(/\ p_msg[dest] /\ p_flags[dest] = {RECEIVING}
              /\ p_sendto[dest] = NO_TASK
              /\ Unencumbered(p), p_flags')
  /\ UNCHANGED <<p_sendto, has_int_msg, q_sending, ticks, p_proc_ready>>

\* Mutation: the sender is put in front of the queue.
EnqueuedInFront(q, p) == <<p>> \o q

\* The walk to the end of the queue of proc.c:297-306.
Enqueued(q, p) == Append(q, p)

SendBlocks(p, dest, type) ==
  /\ Called(p, dest)
  /\ ~Deadlock(p, dest)
  /\ ~WaitsFor(dest, p)
  /\ buf' = [buf EXCEPT ![p] = [source |-> p, type |-> type]]
  /\ p_msg' = [p_msg EXCEPT ![p] = TRUE]
  /\ p_flags' = [p_flags EXCEPT ![p] = @ \cup {SENDING}]
  /\ p_sendto' = [p_sendto EXCEPT ![p] = dest]
  /\ q_sending' = [q_sending EXCEPT ![dest] = Enqueued(@, p)]
  /\ Schedule(p_flags', ticks)
  /\ Continue(p_flags[p] = {} /\ p_recvfrom[p] = NO_TASK, p_flags')
  /\ UNCHANGED <<p_recvfrom, has_int_msg>>

-----------------------------------------------------------------------------
Receives(p, src) == /\ halted = "no"
                    /\ p = p_proc_ready
                    /\ src \in RecvFrom[p]

\* Mutation: a RECEIVE from ANY overlooks the pending interrupt.
IntPendingForInt(p, src) == has_int_msg[p] /\ src = INTERRUPT

IntPendingFor(p, src) == has_int_msg[p] /\ src \in {ANY, INTERRUPT}

\* An interrupt came before p asked: it is delivered at once.
ReceiveInt(p, src) ==
  /\ Receives(p, src)
  /\ IntPendingFor(p, src)
  /\ buf' = [buf EXCEPT ![p] = HardInt]
  /\ has_int_msg' = [has_int_msg EXCEPT ![p] = FALSE]
  /\ Continue(p_flags[p] = {} /\ ~p_msg[p] /\ p_sendto[p] = NO_TASK, p_flags)
  /\ UNCHANGED <<p_flags, p_msg, p_recvfrom, p_sendto, q_sending, ticks, p_proc_ready>>

\* The senders whose message a RECEIVE from src takes: the head of the queue
\* for ANY, else src itself, wherever it stands in the queue.
Source(p, src) ==
  IF src = ANY
  THEN IF q_sending[p] = << >> THEN {} ELSE {Head(q_sending[p])}
  ELSE {s \in {src} \cap Proc : Sending(s) /\ p_sendto[s] = p}

\* Mutation: the head is unlinked, whoever was received from.
UnlinkedHead(q, i) == Tail(q)

\* q without its i-th element: the unlinking of proc.c:440-449.
Unlinked(q, i) == [j \in 1 .. Len(q) - 1 |-> q[IF j < i THEN j ELSE j + 1]]

ReceiveTakes(p, src) ==
  /\ Receives(p, src)
  /\ ~IntPendingFor(p, src)
  /\ \E s \in Source(p, src), i \in DOMAIN q_sending[p] :
       /\ q_sending[p][i] = s
       /\ q_sending' = [q_sending EXCEPT ![p] = Unlinked(@, i)]
       /\ buf' = [buf EXCEPT ![p] = buf[s]]
       /\ StopSending(s)
       /\ Continue(/\ Unencumbered(p) /\ q_sending[p] # << >>
                   /\ p_flags[s] = {SENDING} /\ p_msg[s]
                   /\ p_recvfrom[s] = NO_TASK /\ p_sendto[s] = p, p_flags')
  /\ UNCHANGED <<p_recvfrom, has_int_msg, ticks, p_proc_ready>>

\* With src = INTERRUPT and no interrupt pending, proc.c:399-402 test the
\* flags of proc_table[INTERRUPT], 4080 bytes below the table: in the kernel
\* the repository's krnl.map describes, those are fields of the 27th and 28th
\* file descriptors.  A test that comes out true ends in an assertion.
Oob(src) == IF src = INTERRUPT THEN OobSending ELSE {FALSE}

ReceiveBlocks(p, src) ==
  /\ Receives(p, src)
  /\ ~IntPendingFor(p, src)
  /\ Source(p, src) = {}
  /\ buf' = [buf EXCEPT ![p].source = p]
  /\ p_flags' = [p_flags EXCEPT ![p] = @ \cup {RECEIVING}]
  /\ p_msg' = [p_msg EXCEPT ![p] = TRUE]
  /\ p_recvfrom' = [p_recvfrom EXCEPT ![p] = src]
  /\ Schedule(p_flags', ticks)
  /\ \E oob \in Oob(src) :
       Continue(/\ ~oob
                /\ p_flags[p] = {} /\ p_sendto[p] = NO_TASK
                /\ ~has_int_msg[p], p_flags')
  /\ UNCHANGED <<p_sendto, has_int_msg, q_sending>>

-----------------------------------------------------------------------------
\* Mutation: a task that receives from ANY is not told of the interrupt.
WaitsForIntOnly(t) == Receiving(t) /\ p_recvfrom[t] = INTERRUPT

WaitsForInt(t) == Receiving(t) /\ p_recvfrom[t] \in {INTERRUPT, ANY}

\* inform_int(t)
InformInt(t) ==
  \/ /\ WaitsForInt(t)
     /\ buf' = [buf EXCEPT ![t] = HardInt]
     /\ StopReceiving(t)
     /\ has_int_msg' = [has_int_msg EXCEPT ![t] = FALSE]
     /\ Continue(p_flags[t] = {RECEIVING} /\ p_sendto[t] = NO_TASK, p_flags')
     /\ UNCHANGED <<p_sendto, q_sending>>
  \/ /\ ~WaitsForInt(t)
     /\ has_int_msg' = [has_int_msg EXCEPT ![t] = TRUE]
     /\ UNCHANGED <<p_flags, p_msg, p_recvfrom, p_sendto, q_sending, buf, halted>>

\* hd_handler: the disk interrupt.
DiskInterrupt ==
  /\ halted = "no"
  /\ InformInt(TASK_HD)
  /\ UNCHANGED <<ticks, p_proc_ready>>

\* Mutation: the test is left out.
DecrementedAlways(t) == t - 1

\* if (p_proc_ready->ticks) p_proc_ready->ticks--;
Decremented(t) == IF t > 0 THEN t - 1 ELSE t

\* clock_handler; key_pressed is set by the keyboard interrupt, and reenter
\* tells that the tick was taken on top of another interrupt or system call.
ClockTick(reenter, key_pressed) ==
  /\ halted = "no"
  /\ IF key_pressed THEN InformInt(TASK_TTY) ELSE UNCHANGED <<ipcVars, halted>>
  /\ LET now == p_proc_ready
         tk  == [ticks EXCEPT ![now] = Decremented(@)]
     IN  IF reenter \/ tk[now] > 0
         THEN ticks' = tk /\ UNCHANGED p_proc_ready
         ELSE Schedule(p_flags', tk)

Halted == halted # "no" /\ UNCHANGED vars

-----------------------------------------------------------------------------
\* kernel_main
Init ==
  /\ p_flags = [p \in Proc |-> IF p \in Native THEN {} ELSE {FREE_SLOT}]
  /\ p_msg = [p \in Proc |-> FALSE]
  /\ p_recvfrom = [p \in Proc |-> IF p \in Native THEN NO_TASK ELSE 0]
  /\ p_sendto = [p \in Proc |-> IF p \in Native THEN NO_TASK ELSE 0]
  /\ has_int_msg = [p \in Proc |-> FALSE]
  /\ q_sending = [p \in Proc |-> << >>]
  /\ ticks = [p \in Proc |-> IF p \in Native THEN Priority(p) ELSE 0]
  /\ \E type \in Type : buf = [p \in Proc |-> [source |-> p, type |-> type]]
  /\ p_proc_ready = 0
  /\ halted = "no"

Send(p, dest) == \/ SendPanics(p, dest)
                 \/ \E type \in Type : \/ SendDelivers(p, dest, type)
                                       \/ SendBlocks(p, dest, type)

Receive(p, src) == \/ ReceiveInt(p, src)
                   \/ ReceiveTakes(p, src)
                   \/ ReceiveBlocks(p, src)

Clock == \E reenter, key_pressed \in BOOLEAN : ClockTick(reenter, key_pressed)

Next == \/ \E p \in Proc : \/ \E dest \in SendTo[p] : Send(p, dest)
                           \/ \E src \in RecvFrom[p] : Receive(p, src)
        \/ DiskInterrupt
        \/ Clock
        \/ Halted

Spec == Init /\ [][Next]_vars

\* The timer keeps interrupting ring 1-3 code.
Fairness == WF_vars(\E key_pressed \in BOOLEAN : ClockTick(FALSE, key_pressed))

FairSpec == Spec /\ Fairness

-----------------------------------------------------------------------------
TypeOK ==
  /\ p_flags \in [Proc -> SUBSET Flag]
  /\ p_msg \in [Proc -> BOOLEAN]
  /\ p_recvfrom \in [Proc -> Proc \cup {ANY, INTERRUPT, NO_TASK}]
  /\ p_sendto \in [Proc -> Proc \cup {NO_TASK}]
  /\ has_int_msg \in [Proc -> BOOLEAN]
  /\ q_sending \in [Proc -> Seq(Proc)]
  /\ ticks \in [Proc -> Nat]
  /\ buf \in [Proc -> Message]
  /\ p_proc_ready \in Proc
  /\ halted \in {"no", "panic", "assert", "idle"}

\* The kernel's assertions in msg_send, msg_receive, inform_int and unblock
\* (proc.c:196, 270-288, 292, 311-314, 353-488, 512-517) hold whenever they are
\* reached, and schedule() always finds a process to run.
KernelAssertionsHold == halted \in {"no", "panic"}

\* restart() always runs a process that is not blocked: no interrupt or system
\* call leaves p_proc_ready at a process with a flag set.
RunsOnlyRunnable == halted = "no" => p_flags[p_proc_ready] = {}

\* A process is either running, blocked in a SEND or blocked in a RECEIVE, and
\* p_msg, p_sendto and p_recvfrom say which.
BlockedStateCoherent ==
  \A p \in Native :
    /\ p_flags[p] \in {{}, {SENDING}, {RECEIVING}}
    /\ p_msg[p] <=> p_flags[p] # {}
    /\ p_sendto[p] # NO_TASK <=> Sending(p)
    /\ p_recvfrom[p] # NO_TASK <=> Receiving(p)

\* The sending queue of d holds exactly the processes blocked sending to d,
\* each once: the list surgery of msg_receive loses and duplicates nobody.
QueueMatchesSenders ==
  \A d \in Proc :
    /\ \A s \in Proc : (\E i \in DOMAIN q_sending[d] : q_sending[d][i] = s)
                        <=> (Sending(s) /\ p_sendto[s] = d)
    /\ \A i, j \in DOMAIN q_sending[d] :
         q_sending[d][i] = q_sending[d][j] => i = j

\* Flags, partners and queues tell the same of every process (proc.c:225-449).
QueuesAndFlagsAgree == BlockedStateCoherent /\ QueueMatchesSenders

\* No lost wake-up: nobody stays blocked in RECEIVE while a message or an
\* interrupt it would accept is waiting (inform_int against msg_receive).
NoLostWakeup ==
  \A p \in Proc : Receiving(p) =>
    /\ p_recvfrom[p] \in {ANY, INTERRUPT} => ~has_int_msg[p]
    /\ p_recvfrom[p] = ANY => q_sending[p] = << >>
    /\ \A s \in Proc : Sending(s) /\ p_sendto[s] = p => p_recvfrom[p] # s

\* The processes blocked in SEND never wait for one another in a circle, so the
\* walk of deadlock() always ends.
NoSendCycle ==
  \A S \in SUBSET Proc :
    S # {} => \E x \in S : ~(Sending(x) /\ p_sendto[x] \in S)

\* A sender is released only by handing its message to the process it named;
\* a receiver only with a message from a source it asked for, sent to it in
\* that very step, or with the interrupt it waits for; an interrupt remembered
\* in has_int_msg is forgotten only when its task gets the HARD_INT message.
ExactDelivery ==
  /\ \A s \in Proc : Sending(s) /\ ~Sending(s)' =>
       /\ p_sendto[s] = p_proc_ready
       /\ buf'[p_proc_ready] = buf[s]
  /\ \A d \in Proc : Receiving(d) /\ ~Receiving(d)' =>
       \/ /\ p_recvfrom[d] \in {ANY, buf'[d].source}
          /\ buf'[d].source = p_proc_ready
          /\ buf'[d] = buf'[p_proc_ready]
       \/ p_recvfrom[d] \in {ANY, INTERRUPT} /\ buf'[d] = HardInt
  /\ \A t \in Proc : has_int_msg[t] /\ ~has_int_msg'[t] => buf'[t] = HardInt

\* A server, which receives from ANY only, takes its clients' messages in the
\* order in which they called.
FirstComeFirstServed ==
  \A d \in Proc : RecvFrom[d] \subseteq {ANY, INTERRUPT} =>
    \/ q_sending'[d] = q_sending[d]
    \/ q_sending'[d] = Append(q_sending[d], p_proc_ready)
    \/ q_sending[d] # << >> /\ q_sending'[d] = Tail(q_sending[d])

\* Messages are handed over exactly, and in the order of the calls.
DeliveryExact == [][ExactDelivery /\ FirstComeFirstServed]_vars

\* A process that can run does run, whatever the others do, as long as the
\* machine does not panic: a tick spent by anyone brings the refill closer.
NoStarvation ==
  \A p \in Proc : (p_flags[p] = {}) ~> (p_proc_ready = p \/ halted # "no")

-----------------------------------------------------------------------------
\* Ipc implements Rendezvous: forget the scheduler, the queues' order and p_msg.
Doing == [p \in Proc |-> CASE Sending(p)   -> [op |-> "send", peer |-> p_sendto[p]]
                           [] Receiving(p) -> [op |-> "recv", peer |-> p_recvfrom[p]]
                           [] OTHER        -> [op |-> "run", peer |-> NO_TASK]]

RV == INSTANCE Rendezvous WITH
  st      <- Doing,
  box     <- buf,
  pend    <- has_int_msg,
  stopped <- halted = "panic",
  IntTask <- {TASK_TTY, TASK_HD},
  Types   <- Type

\* Every step of the kernel is a rendezvous step or leaves the processes alone.
ImplementsRendezvous == RV!Spec
=============================================================================
