------------------------------ MODULE IpcProofs ------------------------------
(***************************************************************************)
(* Proofs about Ipc, for every number of tasks and processes and every     *)
(* choice of who sends to and receives from whom.                          *)
(***************************************************************************)
EXTENDS Ipc, SequenceTheorems, TLAPS

LEMMA ConstantTypes ==
  /\ ANY \in Int /\ NO_TASK \in Int /\ INTERRUPT \in Int
  /\ ANY \notin Proc /\ NO_TASK \notin Proc /\ INTERRUPT \notin Proc
  /\ ANY # NO_TASK /\ ANY # INTERRUPT /\ NO_TASK # INTERRUPT
  /\ Native \subseteq Proc /\ Proc \subseteq Nat
  /\ TASK_TTY \in Native /\ TASK_HD \in Native /\ 0 \in Native
BY SizesAssumption DEF ANY, NO_TASK, INTERRUPT, Proc, Native

LEMMA CallTypes ==
  ASSUME NEW p \in Proc
  PROVE  /\ \A dest \in SendTo[p] : dest \in Proc /\ dest # p
         /\ \A src \in RecvFrom[p] : src \in Proc \cup {ANY, INTERRUPT} /\ src # p
BY CallsAssumption, ConstantTypes

\* A function on 1 .. n is a sequence of length n.
LEMMA FunctionIsSeq ==
  ASSUME NEW S, NEW n \in Nat, NEW u \in [1 .. n -> S]
  PROVE  u \in Seq(S) /\ Len(u) = n
<1>1. u \in Seq(S)
  BY SeqDef
<1>2. Len(u) \in Nat /\ DOMAIN u = 1 .. Len(u)
  BY <1>1, LenProperties
<1>3. 1 .. Len(u) = 1 .. n
  BY <1>2
<1> QED
  BY <1>1, <1>2, <1>3

\* What the unlinked queue holds.
LEMMA UnlinkedProperties ==
  ASSUME NEW q \in Seq(Proc), NEW i \in DOMAIN q
  PROVE  /\ Unlinked(q, i) \in Seq(Proc)
         /\ Len(Unlinked(q, i)) = Len(q) - 1
         /\ \A j \in 1 .. Len(q) - 1 :
              Unlinked(q, i)[j] = q[IF j < i THEN j ELSE j + 1]
<1> DEFINE n == Len(q) - 1
<1>1. n \in Nat /\ DOMAIN q = 1 .. n + 1 /\ i \in 1 .. n + 1
  OBVIOUS
<1>2. \A j \in 1 .. n : q[IF j < i THEN j ELSE j + 1] \in Proc
  BY <1>1
<1>3. Unlinked(q, i) \in [1 .. n -> Proc]
  BY <1>2, SMTT(40) DEF Unlinked
<1>4. Unlinked(q, i) \in Seq(Proc) /\ Len(Unlinked(q, i)) = n
  BY <1>1, <1>3, FunctionIsSeq
<1> QED
  BY <1>4 DEF Unlinked

LEMMA RefilledType ==
  ASSUME NEW flags, NEW tk \in [Proc -> Nat]
  PROVE  Refilled(flags, tk) \in [Proc -> Nat]
BY SizesAssumption DEF Refilled, Priority

LEMMA ScheduleType ==
  ASSUME TypeOK, NEW flags, NEW tk \in [Proc -> Nat], Schedule(flags, tk)
  PROVE  ticks' \in [Proc -> Nat] /\ p_proc_ready' \in Proc
BY RefilledType DEF Schedule, FirstWithMost, Runnable, TypeOK

\* kernel_main's state has the types of the kernel's data.
LEMMA InitTypeOK == Init => TypeOK
<1> SUFFICES ASSUME Init PROVE TypeOK
  OBVIOUS
<1>1. [p \in Proc |-> << >>] \in [Proc -> Seq(Proc)]
  BY EmptySeq
<1>2. ticks \in [Proc -> Nat]
  BY SizesAssumption DEF Init, Priority
<1>3. buf \in [Proc -> Message]
  BY DEF Init, Message
<1> QED
  BY <1>1, <1>2, <1>3, ConstantTypes DEF Init, TypeOK, Flag, SENDING, RECEIVING, WAITING, HANGING, FREE_SLOT


LEMMA StopReceivingType ==
  ASSUME TypeOK, NEW d \in Proc, StopReceiving(d)
  PROVE  /\ p_flags' \in [Proc -> SUBSET Flag]
         /\ p_msg' \in [Proc -> BOOLEAN]
         /\ p_recvfrom' \in [Proc -> Proc \cup {ANY, INTERRUPT, NO_TASK}]
BY DEF TypeOK, StopReceiving

LEMMA ContinueType ==
  ASSUME NEW assertions, NEW flags, Continue(assertions, flags)
  PROVE  halted' \in {"no", "assert", "idle"}
BY DEF Continue

LEMMA SendTypeOK ==
  ASSUME TypeOK, NEW p \in Proc, NEW dest \in SendTo[p], Send(p, dest)
  PROVE  TypeOK'
<1>1. dest \in Proc
  BY CallTypes
<1>2. CASE SendPanics(p, dest)
  BY <1>2 DEF SendPanics, Stop, ipcVars, TypeOK
<1>3. ASSUME NEW type \in Type, SendDelivers(p, dest, type) PROVE TypeOK'
  <2>1. [source |-> p, type |-> type] \in Message
    BY DEF Message
  <2>2. buf' \in [Proc -> Message]
    BY <1>1, <1>3, <2>1 DEF SendDelivers, TypeOK
  <2>3. StopReceiving(dest) /\ halted' \in {"no", "assert", "idle"}
    BY <1>3, ContinueType DEF SendDelivers
  <2> QED
    BY <1>1, <1>3, <2>2, <2>3, StopReceivingType DEF SendDelivers, TypeOK
<1>4. ASSUME NEW type \in Type, SendBlocks(p, dest, type) PROVE TypeOK'
  <2>1. [source |-> p, type |-> type] \in Message
    BY DEF Message
  <2>2. buf' \in [Proc -> Message]
    BY <1>4, <2>1 DEF SendBlocks, TypeOK
  <2>3. halted' \in {"no", "assert", "idle"}
    BY <1>4, ContinueType DEF SendBlocks
  <2>4. ticks' \in [Proc -> Nat] /\ p_proc_ready' \in Proc
    BY <1>4, ScheduleType DEF SendBlocks, TypeOK
  <2>5. q_sending' \in [Proc -> Seq(Proc)]
    <3>1. Append(q_sending[dest], p) \in Seq(Proc)
      BY <1>1 DEF TypeOK
    <3> QED
      BY <1>1, <1>4, <3>1 DEF SendBlocks, Enqueued, TypeOK
  <2>6. p_flags' \in [Proc -> SUBSET Flag]
    BY <1>4 DEF SendBlocks, TypeOK, Flag
  <2>7. p_msg' \in [Proc -> BOOLEAN] /\ p_sendto' \in [Proc -> Proc \cup {NO_TASK}]
    BY <1>1, <1>4 DEF SendBlocks, TypeOK
  <2> QED
    BY <1>4, <2>2, <2>3, <2>4, <2>5, <2>6, <2>7 DEF SendBlocks, TypeOK
<1> QED
  BY <1>2, <1>3, <1>4 DEF Send

LEMMA ReceiveTypeOK ==
  ASSUME TypeOK, NEW p \in Proc, NEW src \in RecvFrom[p], Receive(p, src)
  PROVE  TypeOK'
<1>1. src \in Proc \cup {ANY, INTERRUPT}
  BY CallTypes
<1>2. CASE ReceiveInt(p, src)
  <2>1. HardInt \in Message
    BY DEF HardInt, Message
  <2>2. halted' \in {"no", "assert", "idle"}
    BY <1>2, ContinueType DEF ReceiveInt
  <2> QED
    BY <1>2, <2>1, <2>2 DEF ReceiveInt, TypeOK
<1>3. CASE ReceiveTakes(p, src)
  <2>1. PICK s \in Source(p, src), i \in DOMAIN q_sending[p] :
          /\ q_sending[p][i] = s
          /\ q_sending' = [q_sending EXCEPT ![p] = Unlinked(@, i)]
          /\ buf' = [buf EXCEPT ![p] = buf[s]]
          /\ StopSending(s)
          /\ halted' \in {"no", "assert", "idle"}
    BY <1>3, ContinueType DEF ReceiveTakes
  <2>2. q_sending[p] \in Seq(Proc) /\ s \in Proc
    BY <2>1 DEF TypeOK
  <2>3. Unlinked(q_sending[p], i) \in Seq(Proc)
    BY <2>1, <2>2, UnlinkedProperties
  <2>4. q_sending' \in [Proc -> Seq(Proc)]
    BY <2>1, <2>3 DEF TypeOK
  <2>5. buf' \in [Proc -> Message]
    BY <2>1, <2>2 DEF TypeOK
  <2>6. /\ p_flags' \in [Proc -> SUBSET Flag]
        /\ p_msg' \in [Proc -> BOOLEAN]
        /\ p_sendto' \in [Proc -> Proc \cup {NO_TASK}]
    BY <2>1, <2>2 DEF StopSending, TypeOK
  <2> QED
    BY <1>3, <2>1, <2>4, <2>5, <2>6 DEF ReceiveTakes, TypeOK
<1>4. CASE ReceiveBlocks(p, src)
  <2>1. buf' \in [Proc -> Message]
    BY <1>4, ZenonT(40) DEF ReceiveBlocks, TypeOK, Message
  <2>2. halted' \in {"no", "assert", "idle"}
    BY <1>4, ContinueType DEF ReceiveBlocks
  <2>3. ticks' \in [Proc -> Nat] /\ p_proc_ready' \in Proc
    BY <1>4, ScheduleType DEF ReceiveBlocks, TypeOK
  <2>4. p_flags' \in [Proc -> SUBSET Flag]
    BY <1>4 DEF ReceiveBlocks, TypeOK, Flag
  <2>5. /\ p_msg' \in [Proc -> BOOLEAN]
        /\ p_recvfrom' \in [Proc -> Proc \cup {ANY, INTERRUPT, NO_TASK}]
    BY <1>1, <1>4 DEF ReceiveBlocks, TypeOK
  <2> QED
    BY <1>4, <2>1, <2>2, <2>3, <2>4, <2>5 DEF ReceiveBlocks, TypeOK
<1> QED
  BY <1>2, <1>3, <1>4 DEF Receive

LEMMA InformIntType ==
  ASSUME TypeOK, NEW t \in Proc, InformInt(t)
  PROVE  /\ p_flags' \in [Proc -> SUBSET Flag]
         /\ p_msg' \in [Proc -> BOOLEAN]
         /\ p_recvfrom' \in [Proc -> Proc \cup {ANY, INTERRUPT, NO_TASK}]
         /\ p_sendto' \in [Proc -> Proc \cup {NO_TASK}]
         /\ has_int_msg' \in [Proc -> BOOLEAN]
         /\ q_sending' \in [Proc -> Seq(Proc)]
         /\ buf' \in [Proc -> Message]
         /\ halted' \in {"no", "panic", "assert", "idle"}
<1>1. HardInt \in Message
  BY DEF HardInt, Message
<1>2. CASE WaitsForInt(t)
  <2>1. StopReceiving(t) /\ halted' \in {"no", "assert", "idle"}
    BY <1>2, ContinueType DEF InformInt
  <2>2. /\ buf' = [buf EXCEPT ![t] = HardInt]
        /\ has_int_msg' = [has_int_msg EXCEPT ![t] = FALSE]
        /\ UNCHANGED <<p_sendto, q_sending>>
    BY <1>2 DEF InformInt
  <2>3. buf' \in [Proc -> Message] /\ has_int_msg' \in [Proc -> BOOLEAN]
    BY <1>1, <2>2 DEF TypeOK
  <2> QED
    BY <2>1, <2>2, <2>3, StopReceivingType DEF TypeOK
<1>3. CASE ~WaitsForInt(t)
  BY <1>3 DEF InformInt, TypeOK
<1> QED
  BY <1>2, <1>3

LEMMA InterruptTypeOK ==
  ASSUME TypeOK, DiskInterrupt \/ Clock
  PROVE  TypeOK'
<1>1. CASE DiskInterrupt
  BY <1>1, InformIntType, ConstantTypes DEF DiskInterrupt, TypeOK
<1>2. ASSUME NEW reenter \in BOOLEAN, NEW key_pressed \in BOOLEAN,
             ClockTick(reenter, key_pressed)
      PROVE  TypeOK'
  <2> DEFINE tk == [ticks EXCEPT ![p_proc_ready] = Decremented(@)]
  <2>1. tk \in [Proc -> Nat]
    BY DEF TypeOK, Decremented
  <2>2. ticks' \in [Proc -> Nat] /\ p_proc_ready' \in Proc
    <3>1. CASE ticks' = tk /\ UNCHANGED p_proc_ready
      BY <2>1, <3>1 DEF TypeOK
    <3>2. CASE Schedule(p_flags', tk)
      BY <2>1, <3>2, ScheduleType
    <3> QED
      BY <1>2, <3>1, <3>2 DEF ClockTick
  <2>3. CASE key_pressed
    BY <1>2, <2>2, <2>3, InformIntType, ConstantTypes DEF ClockTick, TypeOK
  <2>4. CASE ~key_pressed
    BY <1>2, <2>2, <2>4 DEF ClockTick, TypeOK, ipcVars
  <2> QED
    BY <2>3, <2>4
<1> QED
  BY <1>1, <1>2 DEF Clock

LEMMA NextTypeOK == TypeOK /\ [Next]_vars => TypeOK'
<1> SUFFICES ASSUME TypeOK, [Next]_vars PROVE TypeOK'
  OBVIOUS
<1>1. CASE Halted \/ UNCHANGED vars
  BY <1>1 DEF Halted, vars, ipcVars, TypeOK
<1>2. CASE Next /\ ~Halted
  BY <1>2, SendTypeOK, ReceiveTypeOK, InterruptTypeOK DEF Next
<1> QED
  BY <1>1, <1>2

\* The kernel's data keep their types: in particular the remaining ticks of a
\* process never go below zero, however ticks nest (clock.c:37).
THEOREM TypeCorrect == Spec => []TypeOK
  BY InitTypeOK, NextTypeOK, PTL DEF Spec

-----------------------------------------------------------------------------
(***************************************************************************)
(* The inductive invariant.  Beside the invariants of Ipc it says that     *)
(* free slots stay free, that spinners never block (so that schedule()     *)
(* always finds a process), and that only the tasks interrupts are         *)
(* reported to can have one pending.                                       *)
(***************************************************************************)
FreeSlotsUntouched == \A p \in Proc \ Native : p_flags[p] = {FREE_SLOT}

SpinnersRunnable == \A p \in Spinner : p_flags[p] = {}

InterruptTargets == \A p \in Proc : has_int_msg[p] => p \in {TASK_TTY, TASK_HD}

IInv == /\ TypeOK
        /\ FreeSlotsUntouched /\ SpinnersRunnable /\ InterruptTargets
        /\ RunsOnlyRunnable
        /\ BlockedStateCoherent
        /\ QueueMatchesSenders
        /\ NoLostWakeup
        /\ NoSendCycle
        /\ halted # "idle"

LEMMA DistinctFlags ==
  /\ SENDING # RECEIVING /\ SENDING # FREE_SLOT /\ RECEIVING # FREE_SLOT
  /\ {} \cup {SENDING} = {SENDING} /\ {} \cup {RECEIVING} = {RECEIVING}
  /\ {SENDING} \ {SENDING} = {} /\ {RECEIVING} \ {RECEIVING} = {}
BY DEF SENDING, RECEIVING, FREE_SLOT

\* The flags of a process tell what its other fields hold.
LEMMA FlagsTell ==
  ASSUME IInv, NEW p \in Proc
  PROVE  /\ p_flags[p] = {} => p \in Native /\ Unencumbered(p) /\ ~Sending(p) /\ ~Receiving(p)
         /\ Sending(p) => /\ p \in Native /\ p_flags[p] = {SENDING} /\ p_msg[p]
                          /\ p_recvfrom[p] = NO_TASK /\ p_sendto[p] # NO_TASK
         /\ Receiving(p) => /\ p \in Native /\ p_flags[p] = {RECEIVING} /\ p_msg[p]
                            /\ p_sendto[p] = NO_TASK /\ p_recvfrom[p] # NO_TASK
<1>1. CASE p \in Native
  BY <1>1, DistinctFlags DEF IInv, BlockedStateCoherent, Unencumbered, Sending, Receiving
<1>2. CASE p \notin Native
  <2>1. p_flags[p] = {FREE_SLOT}
    BY <1>2 DEF IInv, FreeSlotsUntouched
  <2> QED
    BY <2>1, DistinctFlags DEF Sending, Receiving
<1> QED
  BY <1>1, <1>2

\* The process that makes a system call is unencumbered.
LEMMA CallerReady ==
  ASSUME IInv, NEW p \in Proc, p = p_proc_ready, halted = "no"
  PROVE  p_flags[p] = {} /\ p \in Native /\ Unencumbered(p) /\ ~Sending(p) /\ ~Receiving(p)
BY FlagsTell DEF IInv, RunsOnlyRunnable

LEMMA StopReceivingEffect ==
  ASSUME IInv, NEW d \in Proc, Receiving(d), StopReceiving(d)
  PROVE  /\ p_flags' = [p_flags EXCEPT ![d] = {}]
         /\ p_msg' = [p_msg EXCEPT ![d] = FALSE]
         /\ p_recvfrom' = [p_recvfrom EXCEPT ![d] = NO_TASK]
BY FlagsTell, DistinctFlags DEF StopReceiving, IInv, TypeOK

LEMMA StopSendingEffect ==
  ASSUME IInv, NEW s \in Proc, Sending(s), StopSending(s)
  PROVE  /\ p_flags' = [p_flags EXCEPT ![s] = {}]
         /\ p_msg' = [p_msg EXCEPT ![s] = FALSE]
         /\ p_sendto' = [p_sendto EXCEPT ![s] = NO_TASK]
BY FlagsTell, DistinctFlags DEF StopSending, IInv, TypeOK

\* With a spinner to run, schedule() selects a process that can run.
LEMMA ScheduleSelects ==
  ASSUME NEW flags, NEW tk, Schedule(flags, tk), \A p \in Spinner : flags[p] = {}
  PROVE  flags[p_proc_ready'] = {} /\ Runnable(flags) # {}
<1>1. Runnable(flags) # {}
  BY SpinnerAssumption, ConstantTypes DEF Runnable, Spinner
<1> QED
  BY <1>1 DEF Schedule, FirstWithMost, Runnable

LEMMA ContinueNotIdle ==
  ASSUME NEW assertions \in BOOLEAN, NEW flags, Continue(assertions, flags),
         \A p \in Spinner : flags[p] = {}
  PROVE  halted' # "idle" /\ (assertions => halted' = "no")
<1>1. Runnable(flags) # {}
  BY SpinnerAssumption, ConstantTypes DEF Runnable, Spinner
<1> QED
  BY <1>1 DEF Continue

LEMMA InitIInv == Init => IInv
<1> SUFFICES ASSUME Init PROVE IInv
  OBVIOUS
<1>1. TypeOK
  BY InitTypeOK
<1>2. FreeSlotsUntouched /\ SpinnersRunnable /\ InterruptTargets /\ RunsOnlyRunnable
  BY ConstantTypes DEF Init, FreeSlotsUntouched, SpinnersRunnable, InterruptTargets,
                       RunsOnlyRunnable, Spinner
<1>3. \A p \in Proc : ~Sending(p) /\ ~Receiving(p)
  BY DistinctFlags DEF Init, Sending, Receiving
<1>4. BlockedStateCoherent
  BY <1>3, ConstantTypes DEF Init, BlockedStateCoherent
<1>5. QueueMatchesSenders
  BY <1>3 DEF Init, QueueMatchesSenders
<1>6. NoLostWakeup /\ NoSendCycle
  BY <1>3 DEF NoLostWakeup, NoSendCycle
<1> QED
  BY <1>1, <1>2, <1>4, <1>5, <1>6 DEF IInv, Init

-----------------------------------------------------------------------------
\* A receiver d that gets its message (from a sender or from inform_int).
LEMMA ReleaseReceiver ==
  ASSUME IInv, NEW d \in Proc, Receiving(d), StopReceiving(d), TypeOK',
         UNCHANGED <<p_sendto, q_sending>>,
         \A t \in Proc : has_int_msg'[t] => has_int_msg[t],
         UNCHANGED p_proc_ready \/ p_flags'[p_proc_ready'] = {},
         halted = "no", halted' # "idle"
  PROVE  IInv'
<1>1. /\ p_flags' = [p_flags EXCEPT ![d] = {}]
      /\ p_msg' = [p_msg EXCEPT ![d] = FALSE]
      /\ p_recvfrom' = [p_recvfrom EXCEPT ![d] = NO_TASK]
  BY StopReceivingEffect
<1>2. /\ d \in Native /\ p_flags[d] = {RECEIVING} /\ ~Sending(d)
      /\ p_sendto[d] = NO_TASK
  BY FlagsTell, DistinctFlags DEF Sending
<1>3. \A x \in Proc : x # d => /\ p_flags'[x] = p_flags[x]
                              /\ p_msg'[x] = p_msg[x]
                              /\ p_recvfrom'[x] = p_recvfrom[x]
  BY <1>1 DEF IInv, TypeOK
<1>4. p_flags'[d] = {} /\ p_msg'[d] = FALSE /\ p_recvfrom'[d] = NO_TASK
  BY <1>1 DEF IInv, TypeOK
<1>5. \A x \in Proc : /\ Sending(x)' <=> Sending(x)
                      /\ Receiving(x)' <=> Receiving(x) /\ x # d
  BY <1>2, <1>3, <1>4 DEF Sending, Receiving
<1>6. FreeSlotsUntouched'
  BY <1>2, <1>3 DEF IInv, FreeSlotsUntouched
<1>7. SpinnersRunnable'
  BY <1>3, <1>4, ConstantTypes DEF IInv, SpinnersRunnable, Spinner
<1>8. InterruptTargets'
  BY DEF IInv, InterruptTargets
<1>9. RunsOnlyRunnable'
  <2>1. p_proc_ready # d /\ p_proc_ready \in Proc /\ p_flags[p_proc_ready] = {}
    BY <1>2 DEF IInv, RunsOnlyRunnable, TypeOK
  <2> QED
    BY <1>3, <2>1 DEF RunsOnlyRunnable
<1>10. BlockedStateCoherent'
  <2> SUFFICES ASSUME NEW x \in Native
               PROVE  /\ p_flags'[x] \in {{}, {SENDING}, {RECEIVING}}
                      /\ p_msg'[x] <=> p_flags'[x] # {}
                      /\ p_sendto'[x] # NO_TASK <=> Sending(x)'
                      /\ p_recvfrom'[x] # NO_TASK <=> Receiving(x)'
    BY DEF BlockedStateCoherent
  <2>1. x \in Proc
    BY ConstantTypes
  <2>2. CASE x = d
    BY <1>2, <1>4, <1>5, <2>1, <2>2
  <2>3. CASE x # d
    BY <1>3, <1>5, <2>1, <2>3 DEF IInv, BlockedStateCoherent
  <2> QED
    BY <2>2, <2>3
<1>11. QueueMatchesSenders'
  BY <1>5 DEF IInv, QueueMatchesSenders
<1>12. NoLostWakeup'
  BY <1>3, <1>5 DEF IInv, NoLostWakeup
<1>13. NoSendCycle'
  BY <1>5 DEF IInv, NoSendCycle
<1> QED
  BY <1>6, <1>7, <1>8, <1>9, <1>10, <1>11, <1>12, <1>13 DEF IInv

LEMMA SendDeliversIInv ==
  ASSUME IInv, TypeOK', NEW p \in Proc, NEW dest \in SendTo[p], NEW type \in Type,
         SendDelivers(p, dest, type)
  PROVE  /\ IInv'
         /\ halted' = "no"
<1>1. dest \in Proc /\ dest # p /\ p = p_proc_ready /\ halted = "no"
  BY CallTypes DEF SendDelivers, Called
<1>2. Receiving(dest) /\ StopReceiving(dest)
  BY DEF SendDelivers, WaitsFor
<1>3. Unencumbered(p)
  BY <1>1, CallerReady
<1>4. /\ p_msg[dest] /\ p_flags[dest] = {RECEIVING}
      /\ p_sendto[dest] = NO_TASK /\ dest \in Native
  BY <1>1, <1>2, FlagsTell
<1>5. p_flags' = [p_flags EXCEPT ![dest] = {}]
  BY <1>1, <1>2, StopReceivingEffect
<1>6. \A x \in Spinner : p_flags'[x] = {}
  BY <1>1, <1>5, ConstantTypes DEF IInv, TypeOK, SpinnersRunnable, Spinner
<1>7. halted' = "no"
  <2> DEFINE A == /\ p_msg[dest] /\ p_flags[dest] = {RECEIVING}
                  /\ p_sendto[dest] = NO_TASK
                  /\ Unencumbered(p)
  <2>1. A /\ Continue(A, p_flags')
    BY <1>3, <1>4 DEF SendDelivers
  <2> HIDE DEF A
  <2> QED
    BY <1>6, <2>1, ContinueNotIdle
<1>8. UNCHANGED <<p_sendto, q_sending, has_int_msg, p_proc_ready>>
  BY DEF SendDelivers
<1> QED
  BY <1>1, <1>2, <1>7, <1>8, ReleaseReceiver

\* What a queue holds after a sender joined it.
LEMMA AppendedHolds ==
  ASSUME NEW q \in Seq(Proc), NEW p \in Proc,
         \A i \in DOMAIN q : q[i] # p,
         \A i, j \in DOMAIN q : q[i] = q[j] => i = j
  PROVE  /\ \A x \in Proc : (\E i \in DOMAIN Append(q, p) : Append(q, p)[i] = x)
                            <=> (x = p \/ \E i \in DOMAIN q : q[i] = x)
         /\ \A i, j \in DOMAIN Append(q, p) :
              Append(q, p)[i] = Append(q, p)[j] => i = j
<1> DEFINE a == Append(q, p)
<1>1. /\ DOMAIN q = 1 .. Len(q) /\ Len(q) \in Nat
      /\ DOMAIN a = 1 .. Len(q) + 1
      /\ \A i \in 1 .. Len(q) : a[i] = q[i]
      /\ a[Len(q) + 1] = p
  OBVIOUS
<1> HIDE DEF a
<1>2. \A x \in Proc : (\E i \in DOMAIN a : a[i] = x)
                      <=> (x = p \/ \E i \in DOMAIN q : q[i] = x)
  <2> TAKE x \in Proc
  <2>1. ASSUME NEW i \in DOMAIN a, a[i] = x
        PROVE  x = p \/ \E k \in DOMAIN q : q[k] = x
    BY <1>1, <2>1
  <2>2. ASSUME x = p PROVE \E i \in DOMAIN a : a[i] = x
    BY <1>1, <2>2
  <2>3. ASSUME NEW i \in DOMAIN q, q[i] = x PROVE \E k \in DOMAIN a : a[k] = x
    BY <1>1, <2>3
  <2> QED
    BY <2>1, <2>2, <2>3
<1>3. \A i, j \in DOMAIN a : a[i] = a[j] => i = j
  BY <1>1
<1> QED
  BY <1>2, <1>3 DEF a

\* ... and after its i-th element left.
LEMMA UnlinkedHolds ==
  ASSUME NEW q \in Seq(Proc), NEW i \in DOMAIN q,
         \A j, k \in DOMAIN q : q[j] = q[k] => j = k
  PROVE  /\ \A x \in Proc : (\E j \in DOMAIN Unlinked(q, i) : Unlinked(q, i)[j] = x)
                            <=> (x # q[i] /\ \E j \in DOMAIN q : q[j] = x)
         /\ \A j, k \in DOMAIN Unlinked(q, i) :
              Unlinked(q, i)[j] = Unlinked(q, i)[k] => j = k
<1> DEFINE u == Unlinked(q, i)
           n == Len(q) - 1
<1>1. n \in Nat /\ DOMAIN q = 1 .. n + 1 /\ i \in 1 .. n + 1
  OBVIOUS
<1>2. /\ DOMAIN u = 1 .. n
      /\ \A j \in 1 .. n : u[j] = q[IF j < i THEN j ELSE j + 1]
  BY UnlinkedProperties DEF Unlinked
<1> HIDE DEF u, n
<1>3. \A x \in Proc : (\E j \in DOMAIN u : u[j] = x)
                      <=> (x # q[i] /\ \E j \in DOMAIN q : q[j] = x)
  <2> TAKE x \in Proc
  <2>1. ASSUME NEW j \in DOMAIN u, u[j] = x
        PROVE  x # q[i] /\ \E k \in DOMAIN q : q[k] = x
    <3> DEFINE k == IF j < i THEN j ELSE j + 1
    <3>1. k \in DOMAIN q /\ k # i /\ q[k] = x
      BY <1>1, <1>2, <2>1
    <3> QED
      BY <3>1
  <2>2. ASSUME x # q[i], NEW j \in DOMAIN q, q[j] = x
        PROVE  \E k \in DOMAIN u : u[k] = x
    <3> DEFINE k == IF j < i THEN j ELSE j - 1
    <3>1. j # i
      BY <2>2
    <3>2. k \in 1 .. n /\ (IF k < i THEN k ELSE k + 1) = j
      BY <1>1, <3>1
    <3> QED
      BY <1>2, <2>2, <3>2
  <2> QED
    BY <2>1, <2>2
<1>4. \A j, k \in DOMAIN u : u[j] = u[k] => j = k
  <2> TAKE j, k \in DOMAIN u
  <2>1. u[j] = u[k] => (IF j < i THEN j ELSE j + 1) = (IF k < i THEN k ELSE k + 1)
    BY <1>1, <1>2
  <2> QED
    BY <1>1, <1>2, <2>1
<1> QED
  BY <1>3, <1>4 DEF u

LEMMA SendBlocksIInv ==
  ASSUME IInv, TypeOK', NEW p \in Proc, NEW dest \in SendTo[p], NEW type \in Type,
         SendBlocks(p, dest, type)
  PROVE  /\ IInv'
         /\ halted' = "no"
<1>1. dest \in Proc /\ dest # p /\ p = p_proc_ready /\ halted = "no" /\ p \notin Spinner
  BY CallTypes DEF SendBlocks, Called, Spinner
<1>2. /\ p_flags[p] = {} /\ p \in Native /\ Unencumbered(p)
      /\ ~Sending(p) /\ ~Receiving(p)
  BY <1>1, CallerReady
<1>3. /\ p_flags' = [p_flags EXCEPT ![p] = {SENDING}]
      /\ p_msg' = [p_msg EXCEPT ![p] = TRUE]
      /\ p_sendto' = [p_sendto EXCEPT ![p] = dest]
      /\ q_sending' = [q_sending EXCEPT ![dest] = Append(q_sending[dest], p)]
      /\ UNCHANGED <<p_recvfrom, has_int_msg>>
  BY <1>1, <1>2, DistinctFlags DEF SendBlocks, Enqueued, IInv, TypeOK
<1>4. /\ \A x \in Proc : x # p => /\ p_flags'[x] = p_flags[x]
                                 /\ p_msg'[x] = p_msg[x]
                                 /\ p_sendto'[x] = p_sendto[x]
      /\ p_flags'[p] = {SENDING} /\ p_msg'[p] = TRUE /\ p_sendto'[p] = dest
  BY <1>3 DEF IInv, TypeOK
<1>5. \A x \in Proc : /\ Sending(x)' <=> Sending(x) \/ x = p
                      /\ Receiving(x)' <=> Receiving(x)
  BY <1>2, <1>4, DistinctFlags DEF Sending, Receiving
<1>6. FreeSlotsUntouched'
  BY <1>2, <1>4 DEF IInv, FreeSlotsUntouched
<1>7. SpinnersRunnable'
  BY <1>1, <1>4, ConstantTypes DEF IInv, SpinnersRunnable, Spinner
<1>8. InterruptTargets'
  BY <1>3 DEF IInv, InterruptTargets
<1>9. RunsOnlyRunnable'
  <2>1. Schedule(p_flags', ticks)
    BY DEF SendBlocks
  <2> QED
    BY <1>7, <2>1, ScheduleSelects DEF RunsOnlyRunnable, SpinnersRunnable
<1>10. BlockedStateCoherent'
  <2> SUFFICES ASSUME NEW x \in Native
               PROVE  /\ p_flags'[x] \in {{}, {SENDING}, {RECEIVING}}
                      /\ p_msg'[x] <=> p_flags'[x] # {}
                      /\ p_sendto'[x] # NO_TASK <=> Sending(x)'
                      /\ p_recvfrom'[x] # NO_TASK <=> Receiving(x)'
    BY DEF BlockedStateCoherent
  <2>1. x \in Proc
    BY ConstantTypes
  <2>2. CASE x = p
    BY <1>1, <1>2, <1>3, <1>4, <1>5, <2>1, <2>2, ConstantTypes, SMTT(40) DEF Unencumbered
  <2>3. CASE x # p
    BY <1>3, <1>4, <1>5, <2>1, <2>3 DEF IInv, BlockedStateCoherent
  <2> QED
    BY <2>2, <2>3
<1>11. QueueMatchesSenders'
  <2> SUFFICES ASSUME NEW d \in Proc
               PROVE  /\ \A s \in Proc : (\E i \in DOMAIN q_sending'[d] : q_sending'[d][i] = s)
                                           <=> (Sending(s)' /\ p_sendto'[s] = d)
                      /\ \A i, j \in DOMAIN q_sending'[d] :
                           q_sending'[d][i] = q_sending'[d][j] => i = j
    BY DEF QueueMatchesSenders
  <2>1. /\ \A s \in Proc : (\E i \in DOMAIN q_sending[d] : q_sending[d][i] = s)
                            <=> (Sending(s) /\ p_sendto[s] = d)
        /\ \A i, j \in DOMAIN q_sending[d] : q_sending[d][i] = q_sending[d][j] => i = j
    BY DEF IInv, QueueMatchesSenders
  <2>2. CASE d # dest
    <3>1. q_sending'[d] = q_sending[d]
      BY <1>3, <2>2 DEF IInv, TypeOK
    <3> QED
      BY <1>2, <1>4, <1>5, <2>1, <2>2, <3>1
  <2>3. CASE d = dest
    <3> DEFINE q == q_sending[d]
    <3>1. q \in Seq(Proc) /\ q_sending'[d] = Append(q, p)
      BY <1>3, <2>3 DEF IInv, TypeOK
    <3>2. \A i \in DOMAIN q : q[i] # p
      BY <1>2, <2>1
    <3>3. \A i, j \in DOMAIN q : q[i] = q[j] => i = j
      BY <2>1
    <3>4. \A s \in Proc : (\E i \in DOMAIN q : q[i] = s)
                            <=> (Sending(s) /\ p_sendto[s] = d)
      BY <2>1
    <3> HIDE DEF q
    <3>5. /\ \A x \in Proc : (\E i \in DOMAIN Append(q, p) : Append(q, p)[i] = x)
                             <=> (x = p \/ \E i \in DOMAIN q : q[i] = x)
          /\ \A i, j \in DOMAIN Append(q, p) :
               Append(q, p)[i] = Append(q, p)[j] => i = j
      BY <3>1, <3>2, <3>3, AppendedHolds
    <3>6. \A s \in Proc : (Sending(s)' /\ p_sendto'[s] = d)
                            <=> (s = p \/ (Sending(s) /\ p_sendto[s] = d))
      BY <1>4, <1>5, <2>3
    <3>7. \A s \in Proc : (\E i \in DOMAIN q_sending'[d] : q_sending'[d][i] = s)
                            <=> (Sending(s)' /\ p_sendto'[s] = d)
      BY <3>1, <3>4, <3>5, <3>6
    <3> QED
      BY <3>1, <3>5, <3>7
  <2> QED
    BY <2>2, <2>3
<1>12. NoLostWakeup'
  <2>1. ~WaitsFor(dest, p)
    BY DEF SendBlocks
  <2>2. \A d \in Proc : d # dest => q_sending'[d] = q_sending[d]
    BY <1>3 DEF IInv, TypeOK
  <2> SUFFICES ASSUME NEW d \in Proc, Receiving(d)'
               PROVE  /\ p_recvfrom'[d] \in {ANY, INTERRUPT} => ~has_int_msg'[d]
                      /\ p_recvfrom'[d] = ANY => q_sending'[d] = << >>
                      /\ \A s \in Proc : Sending(s)' /\ p_sendto'[s] = d => p_recvfrom'[d] # s
    BY DEF NoLostWakeup
  <2>3. /\ p_recvfrom[d] \in {ANY, INTERRUPT} => ~has_int_msg[d]
        /\ p_recvfrom[d] = ANY => q_sending[d] = << >>
        /\ \A s \in Proc : Sending(s) /\ p_sendto[s] = d => p_recvfrom[d] # s
    BY <1>5 DEF IInv, NoLostWakeup
  <2>4. d = dest => p_recvfrom[d] # p /\ p_recvfrom[d] # ANY
    BY <1>5, <2>1 DEF WaitsFor
  <2> QED
    BY <1>3, <1>4, <1>5, <2>2, <2>3, <2>4
<1>13. NoSendCycle'
  <2> SUFFICES ASSUME NEW S \in SUBSET Proc, S # {},
                      \A x \in S : Sending(x)' /\ p_sendto'[x] \in S
               PROVE  FALSE
    BY DEF NoSendCycle
  <2>1. \A R \in SUBSET Proc :
          R # {} => \E x \in R : ~(Sending(x) /\ p_sendto[x] \in R)
    BY DEF IInv, NoSendCycle
  <2>2. CASE p \notin S
    <3>1. \A x \in S : Sending(x) /\ p_sendto[x] \in S
      BY <1>4, <1>5, <2>2
    <3> QED
      BY <2>1, <3>1
  <2>3. CASE p \in S
    \* deadlock() found no way from dest back to p: a closed set T leaves p out.
    <3>1. PICK T \in SUBSET Proc :
            /\ dest \in T /\ p \notin T
            /\ \A x \in T : Sending(x) => p_sendto[x] \in T
      BY DEF SendBlocks, Deadlock
    <3>2. dest \in S \cap T
      BY <1>4, <2>3, <3>1
    <3>3. \A x \in S \cap T : Sending(x) /\ p_sendto[x] \in S \cap T
      BY <1>4, <1>5, <3>1
    <3>4. S \cap T \in SUBSET Proc /\ S \cap T # {}
      BY <3>2
    <3> QED
      BY <2>1, <3>3, <3>4
  <2> QED
    BY <2>2, <2>3
<1>14. halted' = "no"
  <2> DEFINE A == p_flags[p] = {} /\ p_recvfrom[p] = NO_TASK
  <2>1. A /\ Continue(A, p_flags')
    BY <1>2 DEF SendBlocks, Unencumbered
  <2> HIDE DEF A
  <2> QED
    BY <1>7, <2>1, ContinueNotIdle DEF SpinnersRunnable
<1> QED
  BY <1>6, <1>7, <1>8, <1>9, <1>10, <1>11, <1>12, <1>13, <1>14 DEF IInv

LEMMA ReceiveIntIInv ==
  ASSUME IInv, TypeOK', NEW p \in Proc, NEW src \in RecvFrom[p], ReceiveInt(p, src)
  PROVE  /\ IInv'
         /\ halted' = "no"
<1>1. p = p_proc_ready /\ halted = "no"
  BY DEF ReceiveInt, Receives
<1>2. Unencumbered(p)
  BY <1>1, CallerReady
<1>3. /\ UNCHANGED <<p_flags, p_msg, p_recvfrom, p_sendto, q_sending, ticks, p_proc_ready>>
      /\ has_int_msg' = [has_int_msg EXCEPT ![p] = FALSE]
  BY DEF ReceiveInt
<1>4. \A t \in Proc : has_int_msg'[t] => has_int_msg[t]
  BY <1>3 DEF IInv, TypeOK
<1>5. \A x \in Proc : (Sending(x)' <=> Sending(x)) /\ (Receiving(x)' <=> Receiving(x))
  BY <1>3 DEF Sending, Receiving
<1>6. FreeSlotsUntouched' /\ SpinnersRunnable' /\ InterruptTargets'
  BY <1>3, <1>4 DEF IInv, FreeSlotsUntouched, SpinnersRunnable, InterruptTargets
<1>7. RunsOnlyRunnable'
  BY <1>1, <1>3 DEF IInv, RunsOnlyRunnable
<1>8. BlockedStateCoherent'
  BY <1>3, <1>5, ConstantTypes DEF IInv, BlockedStateCoherent
<1>9. QueueMatchesSenders' /\ NoSendCycle'
  BY <1>3, <1>5 DEF IInv, QueueMatchesSenders, NoSendCycle
<1>10. NoLostWakeup'
  BY <1>3, <1>4, <1>5 DEF IInv, NoLostWakeup
<1>11. halted' = "no"
  <2> DEFINE A == p_flags[p] = {} /\ ~p_msg[p] /\ p_sendto[p] = NO_TASK
  <2>1. A /\ Continue(A, p_flags)
    BY <1>2 DEF ReceiveInt, Unencumbered
  <2> HIDE DEF A
  <2> QED
    BY <2>1, ContinueNotIdle DEF IInv, SpinnersRunnable
<1> QED
  BY <1>6, <1>7, <1>8, <1>9, <1>10, <1>11 DEF IInv

\* A sender in p's queue is one that is blocked sending to p, as Source finds.
LEMMA SourceIsSender ==
  ASSUME IInv, NEW p \in Proc, NEW src \in Proc \cup {ANY, INTERRUPT},
         NEW s \in Source(p, src)
  PROVE  s \in Proc /\ Sending(s) /\ p_sendto[s] = p /\ q_sending[p] # << >>
<1>1. q_sending[p] \in Seq(Proc)
  BY DEF IInv, TypeOK
<1>2. \A x \in Proc : (\E i \in DOMAIN q_sending[p] : q_sending[p][i] = x)
                        <=> (Sending(x) /\ p_sendto[x] = p)
  BY DEF IInv, QueueMatchesSenders
<1>3. CASE src = ANY
  <2>1. q_sending[p] # << >> /\ s = Head(q_sending[p])
    BY <1>3 DEF Source
  <2>2. 1 \in DOMAIN q_sending[p] /\ s = q_sending[p][1] /\ s \in Proc
    BY <1>1, <2>1
  <2> QED
    BY <1>2, <2>1, <2>2
<1>4. CASE src # ANY
  <2>1. s \in Proc /\ Sending(s) /\ p_sendto[s] = p
    BY <1>4 DEF Source
  <2>2. PICK i \in DOMAIN q_sending[p] : q_sending[p][i] = s
    BY <1>2, <2>1
  <2> QED
    BY <1>1, <2>1, <2>2
<1> QED
  BY <1>3, <1>4

LEMMA ReceiveTakesIInv ==
  ASSUME IInv, TypeOK', NEW p \in Proc, NEW src \in RecvFrom[p], ReceiveTakes(p, src)
  PROVE  /\ IInv'
         /\ halted' = "no"
<1>1. p = p_proc_ready /\ halted = "no" /\ src \in Proc \cup {ANY, INTERRUPT}
  BY CallTypes DEF ReceiveTakes, Receives
<1>2. Unencumbered(p) /\ ~Sending(p) /\ ~Receiving(p)
  BY <1>1, CallerReady
<1> DEFINE A(s) == /\ Unencumbered(p) /\ q_sending[p] # << >>
                   /\ p_flags[s] = {SENDING} /\ p_msg[s]
                   /\ p_recvfrom[s] = NO_TASK /\ p_sendto[s] = p
<1>3. PICK s \in Source(p, src), i \in DOMAIN q_sending[p] :
        /\ q_sending[p][i] = s
        /\ q_sending' = [q_sending EXCEPT ![p] = Unlinked(@, i)]
        /\ StopSending(s)
        /\ Continue(A(s), p_flags')
  BY DEF ReceiveTakes
<1>4. UNCHANGED <<p_recvfrom, has_int_msg, ticks, p_proc_ready>>
  BY DEF ReceiveTakes
<1>5. s \in Proc /\ Sending(s) /\ p_sendto[s] = p /\ q_sending[p] # << >> /\ s # p
  BY <1>1, <1>2, <1>3, SourceIsSender
<1>6. /\ s \in Native /\ p_flags[s] = {SENDING} /\ p_msg[s]
      /\ p_recvfrom[s] = NO_TASK /\ ~Receiving(s)
  BY <1>5, FlagsTell, DistinctFlags DEF Receiving
<1>7. /\ p_flags' = [p_flags EXCEPT ![s] = {}]
      /\ p_msg' = [p_msg EXCEPT ![s] = FALSE]
      /\ p_sendto' = [p_sendto EXCEPT ![s] = NO_TASK]
  BY <1>3, <1>5, StopSendingEffect
<1>8. /\ \A x \in Proc : x # s => /\ p_flags'[x] = p_flags[x]
                                 /\ p_msg'[x] = p_msg[x]
                                 /\ p_sendto'[x] = p_sendto[x]
      /\ p_flags'[s] = {} /\ p_msg'[s] = FALSE /\ p_sendto'[s] = NO_TASK
  BY <1>5, <1>7 DEF IInv, TypeOK
<1>9. \A x \in Proc : /\ Sending(x)' <=> Sending(x) /\ x # s
                      /\ Receiving(x)' <=> Receiving(x)
  BY <1>6, <1>8, DistinctFlags DEF Sending, Receiving
<1>10. FreeSlotsUntouched'
  BY <1>6, <1>8 DEF IInv, FreeSlotsUntouched
<1>11. SpinnersRunnable'
  BY <1>8, ConstantTypes DEF IInv, SpinnersRunnable, Spinner
<1>12. InterruptTargets'
  BY <1>4 DEF IInv, InterruptTargets
<1>13. RunsOnlyRunnable'
  <2>1. p_flags[p] = {}
    BY <1>2 DEF Unencumbered
  <2> QED
    BY <1>1, <1>4, <1>5, <1>8, <2>1 DEF RunsOnlyRunnable
<1>14. BlockedStateCoherent'
  <2> SUFFICES ASSUME NEW x \in Native
               PROVE  /\ p_flags'[x] \in {{}, {SENDING}, {RECEIVING}}
                      /\ p_msg'[x] <=> p_flags'[x] # {}
                      /\ p_sendto'[x] # NO_TASK <=> Sending(x)'
                      /\ p_recvfrom'[x] # NO_TASK <=> Receiving(x)'
    BY DEF BlockedStateCoherent
  <2>1. x \in Proc
    BY ConstantTypes
  <2>2. CASE x = s
    BY <1>4, <1>6, <1>8, <1>9, <2>1, <2>2
  <2>3. CASE x # s
    BY <1>4, <1>8, <1>9, <2>1, <2>3 DEF IInv, BlockedStateCoherent
  <2> QED
    BY <2>2, <2>3
<1>15. QueueMatchesSenders'
  <2> SUFFICES ASSUME NEW d \in Proc
               PROVE  /\ \A x \in Proc : (\E j \in DOMAIN q_sending'[d] : q_sending'[d][j] = x)
                                           <=> (Sending(x)' /\ p_sendto'[x] = d)
                      /\ \A j, k \in DOMAIN q_sending'[d] :
                           q_sending'[d][j] = q_sending'[d][k] => j = k
    BY DEF QueueMatchesSenders
  <2>1. /\ \A x \in Proc : (\E j \in DOMAIN q_sending[d] : q_sending[d][j] = x)
                            <=> (Sending(x) /\ p_sendto[x] = d)
        /\ \A j, k \in DOMAIN q_sending[d] : q_sending[d][j] = q_sending[d][k] => j = k
    BY DEF IInv, QueueMatchesSenders
  <2>2. CASE d # p
    <3>1. q_sending'[d] = q_sending[d]
      BY <1>3, <2>2 DEF IInv, TypeOK
    <3> QED
      BY <1>5, <1>8, <1>9, <2>1, <2>2, <3>1
  <2>3. CASE d = p
    <3> DEFINE q == q_sending[p]
               u == Unlinked(q, i)
    <3>1. q \in Seq(Proc) /\ q_sending'[d] = u /\ i \in DOMAIN q /\ q[i] = s
      BY <1>3, <2>3 DEF IInv, TypeOK
    <3>2. \A j, k \in DOMAIN q : q[j] = q[k] => j = k
      BY <2>1, <2>3
    <3>3. \A x \in Proc : (\E j \in DOMAIN q : q[j] = x)
                            <=> (Sending(x) /\ p_sendto[x] = d)
      BY <2>1, <2>3
    <3> HIDE DEF q
    <3>4. /\ \A x \in Proc : (\E j \in DOMAIN u : u[j] = x)
                             <=> (x # q[i] /\ \E j \in DOMAIN q : q[j] = x)
          /\ \A j, k \in DOMAIN u : u[j] = u[k] => j = k
      BY <3>1, <3>2, UnlinkedHolds
    <3> HIDE DEF u
    <3>5. \A x \in Proc : (Sending(x)' /\ p_sendto'[x] = d)
                            <=> (x # s /\ Sending(x) /\ p_sendto[x] = d)
      BY <1>8, <1>9
    <3>6. \A x \in Proc : (\E j \in DOMAIN q_sending'[d] : q_sending'[d][j] = x)
                            <=> (Sending(x)' /\ p_sendto'[x] = d)
      BY <3>1, <3>3, <3>4, <3>5
    <3> QED
      BY <3>1, <3>4, <3>6
  <2> QED
    BY <2>2, <2>3
<1>16. NoLostWakeup'
  <2>1. \A d \in Proc : d # p => q_sending'[d] = q_sending[d]
    BY <1>3 DEF IInv, TypeOK
  <2> QED
    BY <1>2, <1>4, <1>8, <1>9, <2>1 DEF IInv, NoLostWakeup
<1>17. NoSendCycle'
  <2> SUFFICES ASSUME NEW S \in SUBSET Proc, S # {},
                      \A x \in S : Sending(x)' /\ p_sendto'[x] \in S
               PROVE  FALSE
    BY DEF NoSendCycle
  <2>1. \A x \in S : Sending(x) /\ p_sendto[x] \in S
    BY <1>8, <1>9
  <2> QED
    BY <2>1 DEF IInv, NoSendCycle
<1>18. halted' = "no"
  <2>1. A(s)
    BY <1>2, <1>5, <1>6
  <2> HIDE DEF A
  <2> QED
    BY <1>3, <1>11, <2>1, ContinueNotIdle DEF SpinnersRunnable
<1> QED
  BY <1>10, <1>11, <1>12, <1>13, <1>14, <1>15, <1>16, <1>17, <1>18 DEF IInv

LEMMA ReceiveBlocksIInv ==
  ASSUME IInv, TypeOK', NEW p \in Proc, NEW src \in RecvFrom[p], ReceiveBlocks(p, src)
  PROVE  /\ IInv'
         /\ TRUE \notin OobSending => halted' = "no"
<1>1. /\ p = p_proc_ready /\ halted = "no" /\ src \in Proc \cup {ANY, INTERRUPT}
      /\ src # p /\ p \notin Spinner
  BY CallTypes DEF ReceiveBlocks, Receives, Spinner
<1>2. /\ p_flags[p] = {} /\ p \in Native /\ Unencumbered(p)
      /\ ~Sending(p) /\ ~Receiving(p)
  BY <1>1, CallerReady
<1>3. ~IntPendingFor(p, src) /\ Source(p, src) = {}
  BY DEF ReceiveBlocks
<1>4. /\ p_flags' = [p_flags EXCEPT ![p] = {RECEIVING}]
      /\ p_msg' = [p_msg EXCEPT ![p] = TRUE]
      /\ p_recvfrom' = [p_recvfrom EXCEPT ![p] = src]
      /\ UNCHANGED <<p_sendto, has_int_msg, q_sending>>
  BY <1>1, <1>2, DistinctFlags DEF ReceiveBlocks, IInv, TypeOK
<1>5. /\ \A x \in Proc : x # p => /\ p_flags'[x] = p_flags[x]
                                 /\ p_msg'[x] = p_msg[x]
                                 /\ p_recvfrom'[x] = p_recvfrom[x]
      /\ p_flags'[p] = {RECEIVING} /\ p_msg'[p] = TRUE /\ p_recvfrom'[p] = src
  BY <1>4 DEF IInv, TypeOK
<1>6. \A x \in Proc : /\ Sending(x)' <=> Sending(x)
                      /\ Receiving(x)' <=> Receiving(x) \/ x = p
  BY <1>2, <1>5, DistinctFlags DEF Sending, Receiving
<1>7. FreeSlotsUntouched'
  BY <1>2, <1>5 DEF IInv, FreeSlotsUntouched
<1>8. SpinnersRunnable'
  BY <1>1, <1>5, ConstantTypes DEF IInv, SpinnersRunnable, Spinner
<1>9. InterruptTargets'
  BY <1>4 DEF IInv, InterruptTargets
<1>10. RunsOnlyRunnable'
  <2>1. Schedule(p_flags', ticks)
    BY DEF ReceiveBlocks
  <2> QED
    BY <1>8, <2>1, ScheduleSelects DEF RunsOnlyRunnable, SpinnersRunnable
<1>11. BlockedStateCoherent'
  <2> SUFFICES ASSUME NEW x \in Native
               PROVE  /\ p_flags'[x] \in {{}, {SENDING}, {RECEIVING}}
                      /\ p_msg'[x] <=> p_flags'[x] # {}
                      /\ p_sendto'[x] # NO_TASK <=> Sending(x)'
                      /\ p_recvfrom'[x] # NO_TASK <=> Receiving(x)'
    BY DEF BlockedStateCoherent
  <2>1. x \in Proc
    BY ConstantTypes
  <2>2. CASE x = p
    BY <1>1, <1>2, <1>4, <1>5, <1>6, <2>1, <2>2, ConstantTypes DEF Unencumbered
  <2>3. CASE x # p
    BY <1>4, <1>5, <1>6, <2>1, <2>3 DEF IInv, BlockedStateCoherent
  <2> QED
    BY <2>2, <2>3
<1>12. QueueMatchesSenders' /\ NoSendCycle'
  BY <1>4, <1>6 DEF IInv, QueueMatchesSenders, NoSendCycle
<1>13. NoLostWakeup'
  <2>1. src \in {ANY, INTERRUPT} => ~has_int_msg[p]
    BY <1>3 DEF IntPendingFor
  <2>2. src = ANY => q_sending[p] = << >>
    BY <1>3 DEF Source
  <2>3. \A s \in Proc : Sending(s) /\ p_sendto[s] = p => src # s
    BY <1>3, ConstantTypes DEF Source
  <2> QED
    BY <1>4, <1>5, <1>6, <2>1, <2>2, <2>3 DEF IInv, NoLostWakeup
<1>14. /\ halted' # "idle"
       /\ TRUE \notin OobSending => halted' = "no"
  <2> DEFINE A(oob) == /\ ~oob
                       /\ p_flags[p] = {} /\ p_sendto[p] = NO_TASK
                       /\ ~has_int_msg[p]
  <2>1. PICK oob \in Oob(src) : Continue(A(oob), p_flags')
    BY DEF ReceiveBlocks
  \* Only a task interrupts are reported to has one pending, and it asks for it.
  <2>2. ~has_int_msg[p]
    <3>1. CASE p \in {TASK_TTY, TASK_HD}
      BY <1>3, <3>1, CallsAssumption DEF IntPendingFor
    <3>2. CASE p \notin {TASK_TTY, TASK_HD}
      BY <3>2 DEF IInv, InterruptTargets
    <3> QED
      BY <3>1, <3>2
  <2>3. A(oob) \in BOOLEAN
    OBVIOUS
  <2>4. ~oob => A(oob)
    BY <1>2, <2>2 DEF Unencumbered
  <2>5. TRUE \notin OobSending => ~oob
    BY <2>1, CallsAssumption DEF Oob
  <2> HIDE DEF A
  <2> QED
    BY <1>8, <2>1, <2>3, <2>4, <2>5, ContinueNotIdle DEF SpinnersRunnable
<1> QED
  BY <1>7, <1>8, <1>9, <1>10, <1>11, <1>12, <1>13, <1>14 DEF IInv

\* inform_int on behalf of a handler that does not reschedule.
LEMMA InformIntIInv ==
  ASSUME IInv, TypeOK', NEW t \in {TASK_TTY, TASK_HD}, halted = "no",
         InformInt(t), UNCHANGED p_proc_ready \/ p_flags'[p_proc_ready'] = {}
  PROVE  IInv' /\ halted' = "no"
<1>1. t \in Proc
  BY ConstantTypes
<1>2. CASE WaitsForInt(t)
  <2>1. Receiving(t) /\ StopReceiving(t) /\ UNCHANGED <<p_sendto, q_sending>>
    BY <1>2 DEF InformInt, WaitsForInt
  <2>2. has_int_msg' = [has_int_msg EXCEPT ![t] = FALSE]
    BY <1>2 DEF InformInt
  <2>3. \A x \in Proc : has_int_msg'[x] => has_int_msg[x]
    BY <2>2 DEF IInv, TypeOK
  <2>4. p_flags[t] = {RECEIVING} /\ p_sendto[t] = NO_TASK
    BY <1>1, <2>1, FlagsTell
  <2>5. p_flags' = [p_flags EXCEPT ![t] = {}]
    BY <1>1, <2>1, StopReceivingEffect
  <2>6. \A x \in Spinner : p_flags'[x] = {}
    BY <1>1, <2>5, ConstantTypes DEF IInv, TypeOK, SpinnersRunnable, Spinner
  <2>7. halted' = "no"
    <3> DEFINE A == p_flags[t] = {RECEIVING} /\ p_sendto[t] = NO_TASK
    <3>1. A /\ Continue(A, p_flags')
      BY <1>2, <2>4 DEF InformInt
    <3> HIDE DEF A
    <3> QED
      BY <2>6, <3>1, ContinueNotIdle
  <2> QED
    BY <1>1, <2>1, <2>3, <2>7, ReleaseReceiver
<1>3. CASE ~WaitsForInt(t)
  <2>1. /\ has_int_msg' = [has_int_msg EXCEPT ![t] = TRUE]
        /\ UNCHANGED <<p_flags, p_msg, p_recvfrom, p_sendto, q_sending, halted>>
    BY <1>3 DEF InformInt
  <2>2. \A x \in Proc : (Sending(x)' <=> Sending(x)) /\ (Receiving(x)' <=> Receiving(x))
    BY <2>1 DEF Sending, Receiving
  <2>3. \A x \in Proc : x # t => has_int_msg'[x] = has_int_msg[x]
    BY <2>1 DEF IInv, TypeOK
  <2>4. FreeSlotsUntouched' /\ SpinnersRunnable' /\ RunsOnlyRunnable'
    BY <2>1 DEF IInv, FreeSlotsUntouched, SpinnersRunnable, RunsOnlyRunnable
  <2>5. InterruptTargets'
    BY <2>3 DEF IInv, InterruptTargets
  <2>6. BlockedStateCoherent'
    BY <2>1, <2>2, ConstantTypes DEF IInv, BlockedStateCoherent
  <2>8. QueueMatchesSenders' /\ NoSendCycle'
    BY <2>1, <2>2 DEF IInv, QueueMatchesSenders, NoSendCycle
  <2>7. NoLostWakeup'
    BY <1>3, <2>1, <2>2, <2>3 DEF IInv, NoLostWakeup, WaitsForInt
  <2> QED
    BY <2>1, <2>4, <2>5, <2>6, <2>7, <2>8 DEF IInv
<1> QED
  BY <1>2, <1>3

LEMMA InformIntSpinners ==
  ASSUME IInv, NEW t \in Proc, InformInt(t)
  PROVE  \A x \in Spinner : p_flags'[x] = {}
<1>1. CASE WaitsForInt(t)
  <2>1. Receiving(t) /\ StopReceiving(t)
    BY <1>1 DEF InformInt, WaitsForInt
  <2>2. p_flags' = [p_flags EXCEPT ![t] = {}]
    BY <2>1, StopReceivingEffect
  <2> QED
    BY <2>2, ConstantTypes DEF IInv, TypeOK, SpinnersRunnable, Spinner
<1>2. CASE ~WaitsForInt(t)
  BY <1>2 DEF InformInt, IInv, SpinnersRunnable
<1> QED
  BY <1>1, <1>2

LEMMA ClockTickIInv ==
  ASSUME IInv, TypeOK', NEW reenter \in BOOLEAN, NEW key_pressed \in BOOLEAN,
         ClockTick(reenter, key_pressed)
  PROVE  IInv' /\ halted' = "no"
<1>1. halted = "no" /\ TASK_TTY \in Proc
  BY ConstantTypes DEF ClockTick
<1>2. \A x \in Spinner : p_flags'[x] = {}
  <2>1. CASE key_pressed
    BY <1>1, <2>1, InformIntSpinners DEF ClockTick
  <2>2. CASE ~key_pressed
    BY <2>2 DEF ClockTick, ipcVars, IInv, SpinnersRunnable
  <2> QED
    BY <2>1, <2>2
<1>3. UNCHANGED p_proc_ready \/ p_flags'[p_proc_ready'] = {}
  BY <1>2, ScheduleSelects DEF ClockTick
<1>4. CASE key_pressed
  BY <1>1, <1>3, <1>4, InformIntIInv DEF ClockTick
<1>5. CASE ~key_pressed
  <2>1. UNCHANGED <<ipcVars, halted>>
    BY <1>5 DEF ClockTick
  <2>2. \A x \in Proc : (Sending(x)' <=> Sending(x)) /\ (Receiving(x)' <=> Receiving(x))
    BY <2>1 DEF ipcVars, Sending, Receiving
  <2>3. FreeSlotsUntouched' /\ SpinnersRunnable' /\ InterruptTargets' /\ NoLostWakeup'
    BY <2>1, <2>2 DEF ipcVars, IInv, FreeSlotsUntouched, SpinnersRunnable, InterruptTargets,
                      NoLostWakeup
  <2>4. BlockedStateCoherent'
    BY <2>1, <2>2, ConstantTypes DEF ipcVars, IInv, BlockedStateCoherent
  <2>5. QueueMatchesSenders' /\ NoSendCycle'
    BY <2>1, <2>2 DEF ipcVars, IInv, QueueMatchesSenders, NoSendCycle
  <2>6. RunsOnlyRunnable'
    BY <1>1, <1>3, <2>1 DEF ipcVars, IInv, RunsOnlyRunnable
  <2> QED
    BY <1>1, <2>1, <2>3, <2>4, <2>5, <2>6 DEF IInv
<1> QED
  BY <1>4, <1>5

\* Every step keeps the invariant, and only the system calls whose assertions
\* rest on OobSending can stop the machine other than by a panic.
LEMMA NextIInv ==
  ASSUME IInv, [Next]_vars
  PROVE  IInv' /\ (KernelAssertionsHold /\ TRUE \notin OobSending => KernelAssertionsHold')
<1>1. TypeOK'
  BY NextTypeOK DEF IInv
<1>2. CASE UNCHANGED vars
  <2>1. UNCHANGED <<p_flags, p_msg, p_recvfrom, p_sendto, has_int_msg, q_sending, buf,
                    p_proc_ready, halted>>
    BY <1>2 DEF vars, ipcVars
  <2>2. \A x \in Proc : (Sending(x)' <=> Sending(x)) /\ (Receiving(x)' <=> Receiving(x))
    BY <2>1 DEF Sending, Receiving
  <2>3. /\ FreeSlotsUntouched' /\ SpinnersRunnable' /\ InterruptTargets'
        /\ RunsOnlyRunnable' /\ NoLostWakeup'
    BY <2>1, <2>2 DEF IInv, FreeSlotsUntouched, SpinnersRunnable, InterruptTargets,
                      RunsOnlyRunnable, NoLostWakeup
  <2>4. BlockedStateCoherent'
    BY <2>1, <2>2, ConstantTypes DEF IInv, BlockedStateCoherent
  <2>5. QueueMatchesSenders' /\ NoSendCycle'
    BY <2>1, <2>2 DEF IInv, QueueMatchesSenders, NoSendCycle
  <2> QED
    BY <1>1, <2>1, <2>3, <2>4, <2>5 DEF IInv, KernelAssertionsHold
<1>3. ASSUME NEW p \in Proc, NEW dest \in SendTo[p], Send(p, dest)
      PROVE  IInv' /\ halted' \in {"no", "panic"}
  <2>1. CASE SendPanics(p, dest)
    <3>1. UNCHANGED <<p_flags, p_msg, p_recvfrom, p_sendto, has_int_msg, q_sending, buf,
                      p_proc_ready>> /\ halted' = "panic"
      BY <2>1 DEF SendPanics, Stop, ipcVars
    <3>2. \A x \in Proc : (Sending(x)' <=> Sending(x)) /\ (Receiving(x)' <=> Receiving(x))
      BY <3>1 DEF Sending, Receiving
    <3>3. /\ FreeSlotsUntouched' /\ SpinnersRunnable' /\ InterruptTargets'
          /\ RunsOnlyRunnable' /\ NoLostWakeup'
      BY <3>1, <3>2 DEF IInv, FreeSlotsUntouched, SpinnersRunnable, InterruptTargets,
                        RunsOnlyRunnable, NoLostWakeup
    <3>4. BlockedStateCoherent'
      BY <3>1, <3>2, ConstantTypes DEF IInv, BlockedStateCoherent
    <3>5. QueueMatchesSenders' /\ NoSendCycle'
      BY <3>1, <3>2 DEF IInv, QueueMatchesSenders, NoSendCycle
    <3> QED
      BY <1>1, <3>1, <3>3, <3>4, <3>5 DEF IInv
  <2>2. ASSUME NEW type \in Type, SendDelivers(p, dest, type)
        PROVE  IInv' /\ halted' = "no"
    BY <1>1, <2>2, SendDeliversIInv
  <2>3. ASSUME NEW type \in Type, SendBlocks(p, dest, type)
        PROVE  IInv' /\ halted' = "no"
    BY <1>1, <2>3, SendBlocksIInv
  <2> QED
    BY <1>3, <2>1, <2>2, <2>3 DEF Send
<1>4. ASSUME NEW p \in Proc, NEW src \in RecvFrom[p], Receive(p, src)
      PROVE  IInv' /\ (TRUE \notin OobSending => halted' = "no")
  BY <1>1, <1>4, ReceiveIntIInv, ReceiveTakesIInv, ReceiveBlocksIInv DEF Receive
<1>5. CASE DiskInterrupt
  BY <1>1, <1>5, InformIntIInv DEF DiskInterrupt, KernelAssertionsHold
<1>6. CASE Clock
  BY <1>1, <1>6, ClockTickIInv DEF Clock, KernelAssertionsHold
<1> QED
  BY <1>2, <1>3, <1>4, <1>5, <1>6 DEF Next, Halted, KernelAssertionsHold

LEMMA SpecIInv == Spec => []IInv
<1>1. IInv /\ [Next]_vars => IInv'
  BY NextIInv
<1> QED
  BY <1>1, InitIInv, PTL DEF Spec

\* restart() never runs a blocked process (proc.c, schedule and clock_handler).
THEOREM RunnerReady == Spec => []RunsOnlyRunnable
<1>1. IInv => RunsOnlyRunnable
  BY DEF IInv
<1> QED
  BY <1>1, SpecIInv, PTL

\* Flags, message pointer and partner of every process agree (msg_send,
\* msg_receive, inform_int), and a sending queue holds exactly the processes
\* blocked sending to its owner, each once (proc.c:295-307, 432-449).
THEOREM QueuesExact == Spec => []QueuesAndFlagsAgree
<1>1. IInv => QueuesAndFlagsAgree
  BY DEF IInv, QueuesAndFlagsAgree
<1> QED
  BY <1>1, SpecIInv, PTL

\* Neither a message nor an interrupt waits for a process that waits for it
\* (msg_receive against msg_send and inform_int).
THEOREM WakeupsKept == Spec => []NoLostWakeup
<1>1. IInv => NoLostWakeup
  BY DEF IInv
<1> QED
  BY <1>1, SpecIInv, PTL

\* deadlock() keeps the SEND graph free of circles of any length, and so its
\* own walk ends (proc.c:214-239).
THEOREM SendGraphAcyclic == Spec => []NoSendCycle
<1>1. IInv => NoSendCycle
  BY DEF IInv
<1> QED
  BY <1>1, SpecIInv, PTL

\* As long as the word read at proc_table[INTERRUPT] is harmless, no assertion of
\* the IPC code fails and schedule() never loops (proc.c:196-517).
THEOREM AssertionsHold ==
  ASSUME TRUE \notin OobSending
  PROVE  Spec => []KernelAssertionsHold
<1>1. Init => KernelAssertionsHold
  BY DEF Init, KernelAssertionsHold
<1>2. IInv /\ KernelAssertionsHold /\ [Next]_vars => KernelAssertionsHold'
  BY NextIInv
<1> QED
  BY <1>1, <1>2, SpecIInv, PTL DEF Spec

-----------------------------------------------------------------------------
(***************************************************************************)
(* The delivery of messages: an action property, step by step, from the    *)
(* same invariant.                                                         *)
(***************************************************************************)
Delivery == ExactDelivery /\ FirstComeFirstServed

\* A step that releases nobody, forgets no interrupt and leaves the queues alone.
LEMMA NothingReleased ==
  ASSUME \A x \in Proc : (Sending(x) => Sending(x)') /\ (Receiving(x) => Receiving(x)'),
         \A t \in Proc : has_int_msg[t] => has_int_msg'[t],
         UNCHANGED q_sending
  PROVE  Delivery
BY DEF Delivery, ExactDelivery, FirstComeFirstServed

LEMMA SendDeliversDelivery ==
  ASSUME IInv, NEW p \in Proc, NEW dest \in SendTo[p], NEW type \in Type,
         SendDelivers(p, dest, type)
  PROVE  Delivery
<1> DEFINE m == [source |-> p, type |-> type]
<1>1. dest \in Proc /\ dest # p /\ p = p_proc_ready /\ Receiving(dest)
      /\ p_recvfrom[dest] \in {p, ANY}
  BY CallTypes DEF SendDelivers, Called, WaitsFor
<1>2. UNCHANGED <<has_int_msg, q_sending>> /\ StopReceiving(dest)
  BY DEF SendDelivers
<1>3. buf'[dest] = m /\ buf'[p] = m
  BY <1>1 DEF SendDelivers, IInv, TypeOK
<1>4. p_flags' = [p_flags EXCEPT ![dest] = {}] /\ ~Sending(dest)
  BY <1>1, <1>2, StopReceivingEffect, FlagsTell, DistinctFlags DEF Sending
<1>5. \A x \in Proc : (Sending(x)' <=> Sending(x)) /\ (Receiving(x)' <=> Receiving(x) /\ x # dest)
  BY <1>1, <1>4 DEF Sending, Receiving, IInv, TypeOK
<1>6. m.source = p
  OBVIOUS
<1> HIDE DEF m
<1> QED
  BY <1>1, <1>2, <1>3, <1>5, <1>6 DEF Delivery, ExactDelivery, FirstComeFirstServed

LEMMA SendBlocksDelivery ==
  ASSUME IInv, NEW p \in Proc, NEW dest \in SendTo[p], NEW type \in Type,
         SendBlocks(p, dest, type)
  PROVE  Delivery
<1>1. dest \in Proc /\ p = p_proc_ready
  BY CallTypes DEF SendBlocks, Called
<1>2. \A x \in Proc : (Sending(x) => Sending(x)') /\ (Receiving(x) => Receiving(x)')
  BY DEF SendBlocks, Sending, Receiving, IInv, TypeOK
<1>3. \A d \in Proc : \/ q_sending'[d] = q_sending[d]
                      \/ q_sending'[d] = Append(q_sending[d], p)
  BY <1>1 DEF SendBlocks, Enqueued, IInv, TypeOK
<1>4. UNCHANGED has_int_msg
  BY DEF SendBlocks
<1> QED
  BY <1>1, <1>2, <1>3, <1>4 DEF Delivery, ExactDelivery, FirstComeFirstServed

\* Unlinking the first element leaves the tail.
LEMMA UnlinkedFirst ==
  ASSUME NEW q \in Seq(Proc), q # << >>
  PROVE  Unlinked(q, 1) = Tail(q)
<1>1. Len(q) \in Nat \ {0} /\ 1 \in DOMAIN q
  BY EmptySeq
<1>2. /\ Unlinked(q, 1) \in Seq(Proc)
      /\ Len(Unlinked(q, 1)) = Len(q) - 1
      /\ \A j \in 1 .. Len(q) - 1 : Unlinked(q, 1)[j] = q[j + 1]
  BY <1>1, UnlinkedProperties
<1>3. Tail(q) \in Seq(Proc) /\ Len(Tail(q)) = Len(q) - 1
      /\ \A j \in 1 .. Len(q) - 1 : Tail(q)[j] = q[j + 1]
  BY <1>1
<1> QED
  BY <1>1, <1>2, <1>3, SeqEqual

LEMMA ReceiveTakesDelivery ==
  ASSUME IInv, NEW p \in Proc, NEW src \in RecvFrom[p], ReceiveTakes(p, src)
  PROVE  Delivery
<1>1. p = p_proc_ready /\ halted = "no" /\ src \in Proc \cup {ANY, INTERRUPT}
  BY CallTypes DEF ReceiveTakes, Receives
<1>2. ~Receiving(p) /\ ~Sending(p)
  BY <1>1, CallerReady
<1>3. PICK s \in Source(p, src), i \in DOMAIN q_sending[p] :
        /\ q_sending[p][i] = s
        /\ q_sending' = [q_sending EXCEPT ![p] = Unlinked(@, i)]
        /\ buf' = [buf EXCEPT ![p] = buf[s]]
        /\ StopSending(s)
  BY DEF ReceiveTakes
<1>4. q_sending[p] \in Seq(Proc) /\ s \in Proc
  BY <1>3 DEF IInv, TypeOK
<1>5. Sending(s) /\ p_sendto[s] = p
  BY <1>3, <1>4 DEF IInv, QueueMatchesSenders
<1>6. p_flags' = [p_flags EXCEPT ![s] = {}] /\ ~Receiving(s)
  BY <1>3, <1>4, <1>5, StopSendingEffect, FlagsTell, DistinctFlags DEF Receiving
<1>7. \A x \in Proc : (Sending(x)' <=> Sending(x) /\ x # s) /\ (Receiving(x)' <=> Receiving(x))
  BY <1>4, <1>6 DEF Sending, Receiving, IInv, TypeOK
<1>8. buf'[p] = buf[s] /\ UNCHANGED has_int_msg
  BY <1>3, <1>4 DEF IInv, TypeOK, ReceiveTakes
<1>9. ExactDelivery
  BY <1>1, <1>5, <1>7, <1>8 DEF ExactDelivery
<1>10. FirstComeFirstServed
  <2> SUFFICES ASSUME NEW d \in Proc, RecvFrom[d] \subseteq {ANY, INTERRUPT}, d = p
               PROVE  q_sending[d] # << >> /\ q_sending'[d] = Tail(q_sending[d])
    BY <1>3 DEF FirstComeFirstServed, IInv, TypeOK
  \* Nobody is blocked sending as INTERRUPT, so src is ANY and s the head.
  <2>1. src = ANY
    BY <1>3, <1>4, ConstantTypes DEF Source
  <2>2. q_sending[p] # << >> /\ s = Head(q_sending[p])
    BY <1>3, <2>1 DEF Source
  <2>3. 1 \in DOMAIN q_sending[p] /\ q_sending[p][1] = s
    BY <1>4, <2>2, EmptySeq
  <2>4. i = 1
    BY <1>3, <2>3 DEF IInv, QueueMatchesSenders
  <2>5. q_sending'[p] = Unlinked(q_sending[p], 1)
    BY <1>3, <2>4 DEF IInv, TypeOK
  <2> QED
    BY <1>4, <2>2, <2>5, UnlinkedFirst
<1> QED
  BY <1>9, <1>10 DEF Delivery

LEMMA ReceiveRestDelivery ==
  ASSUME IInv, NEW p \in Proc, NEW src \in RecvFrom[p],
         ReceiveInt(p, src) \/ ReceiveBlocks(p, src)
  PROVE  Delivery
<1>1. CASE ReceiveInt(p, src)
  <2>1. UNCHANGED <<p_flags, q_sending>> /\ buf'[p] = HardInt
        /\ \A t \in Proc : t # p => has_int_msg'[t] = has_int_msg[t]
    BY <1>1 DEF ReceiveInt, IInv, TypeOK
  <2> QED
    BY <2>1 DEF Delivery, ExactDelivery, FirstComeFirstServed, Sending, Receiving
<1>2. CASE ReceiveBlocks(p, src)
  <2>1. \A x \in Proc : (Sending(x) => Sending(x)') /\ (Receiving(x) => Receiving(x)')
    BY <1>2 DEF ReceiveBlocks, Sending, Receiving, IInv, TypeOK
  <2> QED
    BY <1>2, <2>1, NothingReleased DEF ReceiveBlocks
<1> QED
  BY <1>1, <1>2

LEMMA InformIntDelivery ==
  ASSUME IInv, NEW t \in Proc, InformInt(t)
  PROVE  Delivery
<1>1. CASE WaitsForInt(t)
  <2>1. /\ Receiving(t) /\ p_recvfrom[t] \in {INTERRUPT, ANY} /\ StopReceiving(t)
        /\ UNCHANGED q_sending /\ buf'[t] = HardInt
        /\ \A x \in Proc : x # t => has_int_msg'[x] = has_int_msg[x]
    BY <1>1 DEF InformInt, WaitsForInt, IInv, TypeOK
  <2>2. p_flags' = [p_flags EXCEPT ![t] = {}] /\ ~Sending(t)
    BY <2>1, StopReceivingEffect, FlagsTell, DistinctFlags DEF Sending
  <2>3. \A x \in Proc : (Sending(x)' <=> Sending(x)) /\ (Receiving(x)' <=> Receiving(x) /\ x # t)
    BY <2>1, <2>2 DEF Sending, Receiving, IInv, TypeOK
  <2> QED
    BY <2>1, <2>3 DEF Delivery, ExactDelivery, FirstComeFirstServed
<1>2. CASE ~WaitsForInt(t)
  <2>1. \A x \in Proc : has_int_msg[x] => has_int_msg'[x]
    BY <1>2 DEF InformInt, IInv, TypeOK
  <2> QED
    BY <1>2, <2>1, NothingReleased DEF InformInt, Sending, Receiving
<1> QED
  BY <1>1, <1>2

LEMMA NextDelivery == IInv /\ [Next]_vars => [Delivery]_vars
<1> SUFFICES ASSUME IInv, [Next]_vars, ~UNCHANGED vars PROVE Delivery
  OBVIOUS
<1>1. ASSUME NEW p \in Proc, NEW dest \in SendTo[p], Send(p, dest) PROVE Delivery
  <2>1. CASE SendPanics(p, dest)
    BY <2>1, NothingReleased DEF SendPanics, Stop, ipcVars, Sending, Receiving
  <2> QED
    BY <1>1, <2>1, SendDeliversDelivery, SendBlocksDelivery DEF Send
<1>2. ASSUME NEW p \in Proc, NEW src \in RecvFrom[p], Receive(p, src) PROVE Delivery
  BY <1>2, ReceiveTakesDelivery, ReceiveRestDelivery DEF Receive
<1>3. CASE DiskInterrupt
  BY <1>3, InformIntDelivery, ConstantTypes DEF DiskInterrupt
<1>4. CASE Clock
  <2>1. PICK reenter \in BOOLEAN, key_pressed \in BOOLEAN : ClockTick(reenter, key_pressed)
    BY <1>4 DEF Clock
  <2>2. CASE key_pressed
    BY <2>1, <2>2, InformIntDelivery, ConstantTypes DEF ClockTick
  <2>3. CASE ~key_pressed
    BY <2>1, <2>3, NothingReleased DEF ClockTick, ipcVars, Sending, Receiving
  <2> QED
    BY <2>2, <2>3
<1> QED
  BY <1>1, <1>2, <1>3, <1>4 DEF Next, Halted

\* A sender is released by the process it named, with its message; a receiver by
\* a source it asked for; no interrupt is forgotten; and servers take their
\* clients in the order of the calls (msg_send, msg_receive, inform_int).
THEOREM MessagesHandedOver == Spec => DeliveryExact
<1>1. IInv /\ [Next]_vars => [ExactDelivery /\ FirstComeFirstServed]_vars
  BY NextDelivery DEF Delivery
<1> QED
  BY <1>1, SpecIInv, PTL DEF Spec, DeliveryExact

(***************************************************************************)
(* Ipc implements Rendezvous: every step of the kernel is a rendezvous     *)
(* step or a stuttering step, under the refinement mapping RV.             *)
(***************************************************************************)
\* What a process does in the abstract specification.
LEMMA DoingTells ==
  ASSUME IInv, NEW p \in Proc
  PROVE  /\ Doing[p].op \in {"send", "recv", "run"}
         /\ Doing[p].op = "send" <=> Sending(p)
         /\ Doing[p].op = "recv" <=> Receiving(p)
         /\ Sending(p) => Doing[p] = [op |-> "send", peer |-> p_sendto[p]]
         /\ Receiving(p) => Doing[p] = [op |-> "recv", peer |-> p_recvfrom[p]]
<1>1. Sending(p) => ~Receiving(p)
  BY FlagsTell, DistinctFlags DEF Sending, Receiving
<1>2. CASE Sending(p)
  BY <1>1, <1>2 DEF Doing
<1>3. CASE Receiving(p)
  BY <1>1, <1>3 DEF Doing
<1>4. CASE ~Sending(p) /\ ~Receiving(p)
  BY <1>4 DEF Doing
<1> QED
  BY <1>2, <1>3, <1>4

LEMMA CircleIsDeadlock ==
  ASSUME IInv, NEW p \in Proc, NEW dest \in Proc
  PROVE  RV!Circle(p, dest) <=> Deadlock(p, dest)
<1>1. \A x \in Proc : /\ Doing[x].op = "send" <=> Sending(x)
                      /\ Sending(x) => Doing[x].peer = p_sendto[x]
  <2> TAKE x \in Proc
  <2>1. Sending(x) => Doing[x] = [op |-> "send", peer |-> p_sendto[x]]
    BY DoingTells
  <2>2. Doing[x].op = "send" <=> Sending(x)
    BY DoingTells
  <2> QED
    BY <2>1, <2>2
<1>2. ASSUME NEW S \in SUBSET Proc
      PROVE  (\A x \in S : Doing[x].op = "send" => Doing[x].peer \in S)
             <=> (\A x \in S : Sending(x) => p_sendto[x] \in S)
  <2>1. \A x \in S : (Doing[x].op = "send" => Doing[x].peer \in S)
                     <=> (Sending(x) => p_sendto[x] \in S)
    BY <1>1 DEF Sending
  <2> QED
    BY <2>1
<1> QED
  BY <1>2 DEF RV!Circle, Deadlock

\* A step that changes what d alone does.
LEMMA DoingChanges ==
  ASSUME NEW d \in Proc, NEW r,
         \A x \in Proc : x # d => /\ (Sending(x)' <=> Sending(x))
                                  /\ (Receiving(x)' <=> Receiving(x))
                                  /\ p_sendto'[x] = p_sendto[x]
                                  /\ p_recvfrom'[x] = p_recvfrom[x],
         Doing'[d] = r
  PROVE  Doing' = [Doing EXCEPT ![d] = r]
<1>1. \A x \in Proc : x # d => Doing'[x] = Doing[x]
  BY DEF Doing
<1>2. Doing = [x \in Proc |-> Doing[x]] /\ Doing' = [x \in Proc |-> Doing'[x]]
  BY DEF Doing
<1>3. [Doing EXCEPT ![d] = r] = [x \in Proc |-> IF x = d THEN r ELSE Doing[x]]
  BY <1>2
<1> QED
  BY <1>1, <1>2, <1>3

LEMMA InitRefines == Init => RV!Init
<1> SUFFICES ASSUME Init PROVE RV!Init
  OBVIOUS
<1>1. IInv
  BY InitIInv
<1>2. \A p \in Proc : ~Sending(p) /\ ~Receiving(p)
  BY DistinctFlags DEF Init, Sending, Receiving
<1>3. Doing = [p \in Proc |-> [op |-> "run", peer |-> NO_TASK]]
  BY <1>2 DEF Doing
<1>4. (halted = "panic") = FALSE
  BY DEF Init
<1>5. has_int_msg = [p \in Proc |-> FALSE]
  BY DEF Init
<1>6. \E type \in Type : buf = [p \in Proc |-> [source |-> p, type |-> type]]
  BY DEF Init
<1> QED
  BY <1>3, <1>4, <1>5, <1>6 DEF RV!Init, RV!Run

-----------------------------------------------------------------------------
(***************************************************************************)
(* One lemma per kernel action: the rendezvous step it is.                 *)
(***************************************************************************)
\* A process that runs in the abstract specification.
LEMMA CallerRuns ==
  ASSUME IInv, NEW p \in Proc, p = p_proc_ready, halted = "no"
  PROVE  RV!Running(p)
BY CallerReady, DoingTells DEF RV!Running

LEMMA AcceptsIsWaitsFor ==
  ASSUME IInv, NEW p \in Proc, NEW dest \in Proc
  PROVE  RV!Accepts(dest, p) <=> WaitsFor(dest, p)
<1>1. CASE Receiving(dest)
  <2>1. Doing[dest] = [op |-> "recv", peer |-> p_recvfrom[dest]]
    BY <1>1, DoingTells
  <2> QED
    BY <1>1, <2>1 DEF RV!Accepts, WaitsFor
<1>2. CASE ~Receiving(dest)
  BY <1>2, DoingTells DEF RV!Accepts, WaitsFor
<1> QED
  BY <1>1, <1>2

\* A receiver that is released runs again, and nobody else changes.
LEMMA ReleaseDoing ==
  ASSUME IInv, NEW d \in Proc, Receiving(d), StopReceiving(d), UNCHANGED p_sendto
  PROVE  Doing' = [Doing EXCEPT ![d] = RV!Run]
<1>1. /\ p_flags' = [p_flags EXCEPT ![d] = {}]
      /\ p_recvfrom' = [p_recvfrom EXCEPT ![d] = NO_TASK]
  BY StopReceivingEffect
<1>2. p_flags'[d] = {} /\ \A x \in Proc : x # d => /\ p_flags'[x] = p_flags[x]
                                                  /\ p_recvfrom'[x] = p_recvfrom[x]
  BY <1>1 DEF IInv, TypeOK
<1>3. ~Sending(d)' /\ ~Receiving(d)'
  BY <1>2 DEF Sending, Receiving
<1>4. Doing'[d] = RV!Run
  BY <1>3 DEF Doing, RV!Run
<1>5. \A x \in Proc : x # d => (Sending(x)' <=> Sending(x)) /\ (Receiving(x)' <=> Receiving(x))
  BY <1>2 DEF Sending, Receiving
<1> QED
  BY <1>2, <1>4, <1>5, DoingChanges

LEMMA SendRefines ==
  ASSUME IInv, NEW p \in Proc, NEW dest \in SendTo[p], Send(p, dest)
  PROVE  RV!Next
<1>1. dest \in Proc /\ p = p_proc_ready /\ halted = "no" /\ dest # p
  BY CallTypes DEF Send, SendPanics, SendDelivers, SendBlocks, Called
<1>2. RV!Running(p) /\ ~(halted = "panic")
  BY <1>1, CallerRuns
<1>3. TypeOK
  BY DEF IInv
<1>4. CASE SendPanics(p, dest)
  <2>1. RV!Circle(p, dest)
    BY <1>1, <1>4, CircleIsDeadlock DEF SendPanics
  <2>2. (halted = "panic")' = TRUE /\ UNCHANGED <<buf, has_int_msg>>
    BY <1>4 DEF SendPanics, Stop, ipcVars
  <2>3. UNCHANGED Doing
    BY <1>4 DEF SendPanics, Stop, ipcVars, Doing, Sending, Receiving
  <2>4. RV!SendPanics(p, dest)
    BY <2>1, <2>2, <2>3 DEF RV!SendPanics
  <2>5. PICK type \in Type : TRUE
    BY CallsAssumption
  <2>6. RV!Send(p, dest, [source |-> p, type |-> type])
    BY <2>4 DEF RV!Send
  <2> QED
    BY <1>2, <2>6 DEF RV!Next
<1>5. ASSUME NEW type \in Type, SendDelivers(p, dest, type) PROVE RV!Next
  <2>1. ~RV!Circle(p, dest) /\ RV!Accepts(dest, p)
    BY <1>1, <1>5, CircleIsDeadlock, AcceptsIsWaitsFor DEF SendDelivers
  <2>2. Receiving(dest) /\ StopReceiving(dest) /\ UNCHANGED p_sendto
    BY <1>5 DEF SendDelivers, WaitsFor
  <2>3. Doing' = [Doing EXCEPT ![dest] = RV!Run]
    BY <1>1, <2>2, ReleaseDoing
  <2>4. halted' # "panic" /\ UNCHANGED has_int_msg
    BY <1>5 DEF SendDelivers, Continue
  <2>5. buf' = [buf EXCEPT ![p] = [source |-> p, type |-> type],
                           ![dest] = [source |-> p, type |-> type]]
    BY <1>5 DEF SendDelivers
  <2>6. (halted = "panic")' = (halted = "panic")
    BY <1>1, <2>4
  <2>7. RV!SendNow(p, dest, [source |-> p, type |-> type])
    BY <2>1, <2>3, <2>4, <2>5, <2>6 DEF RV!SendNow
  <2> QED
    BY <1>2, <2>7 DEF RV!Next, RV!Send
<1>6. ASSUME NEW type \in Type, SendBlocks(p, dest, type) PROVE RV!Next
  <2>1. ~RV!Circle(p, dest) /\ ~RV!Accepts(dest, p)
    BY <1>1, <1>6, CircleIsDeadlock, AcceptsIsWaitsFor DEF SendBlocks
  <2>2. p_flags[p] = {}
    BY <1>1, CallerReady
  <2>3. /\ p_flags' = [p_flags EXCEPT ![p] = {SENDING}]
        /\ p_sendto' = [p_sendto EXCEPT ![p] = dest]
        /\ UNCHANGED <<p_recvfrom, has_int_msg>>
    BY <1>3, <1>6, <2>2, DistinctFlags DEF SendBlocks, TypeOK
  <2>4. /\ p_flags'[p] = {SENDING} /\ p_sendto'[p] = dest
        /\ \A x \in Proc : x # p => /\ p_flags'[x] = p_flags[x]
                                    /\ p_sendto'[x] = p_sendto[x]
    BY <1>3, <2>3 DEF TypeOK
  <2>5. Sending(p)' /\ ~Receiving(p)'
    BY <2>4, DistinctFlags DEF Sending, Receiving
  <2>6. Doing'[p] = RV!Blocked("send", dest)
    BY <2>4, <2>5 DEF Doing, RV!Blocked
  <2>7. \A x \in Proc : x # p => (Sending(x)' <=> Sending(x)) /\ (Receiving(x)' <=> Receiving(x))
    BY <2>4 DEF Sending, Receiving
  <2>8. Doing' = [Doing EXCEPT ![p] = RV!Blocked("send", dest)]
    BY <2>3, <2>4, <2>6, <2>7, DoingChanges
  <2>9. (halted = "panic")' = (halted = "panic")
    BY <1>1, <1>6 DEF SendBlocks, Continue
  <2>10. buf' = [buf EXCEPT ![p] = [source |-> p, type |-> type]]
    BY <1>6 DEF SendBlocks
  <2>11. RV!SendWait(p, dest, [source |-> p, type |-> type])
    BY <2>1, <2>3, <2>8, <2>9, <2>10 DEF RV!SendWait
  <2> QED
    BY <1>2, <2>11 DEF RV!Next, RV!Send
<1> QED
  BY <1>4, <1>5, <1>6 DEF Send

\* The senders the abstract RECEIVE may take from, in the kernel's terms.
LEMMA OffersAre ==
  ASSUME IInv, NEW p \in Proc, NEW src
  PROVE  RV!Offers(p, src) = {s \in Proc : Sending(s) /\ p_sendto[s] = p /\ src \in {s, ANY}}
<1>1. ASSUME NEW s \in Proc
      PROVE  RV!SendsTo(s, p) <=> Sending(s) /\ p_sendto[s] = p
  <2>1. CASE Sending(s)
    <3>1. Doing[s] = [op |-> "send", peer |-> p_sendto[s]]
      BY <2>1, DoingTells
    <3> QED
      BY <2>1, <3>1 DEF RV!SendsTo, RV!Blocked
  <2>2. CASE ~Sending(s)
    <3>1. Doing[s].op # "send"
      BY <2>2, DoingTells
    <3> QED
      BY <2>2, <3>1 DEF RV!SendsTo, RV!Blocked
  <2> QED
    BY <2>1, <2>2
<1> QED
  BY <1>1 DEF RV!Offers

LEMMA ReceiveRefines ==
  ASSUME IInv, NEW p \in Proc, NEW src \in RecvFrom[p], Receive(p, src)
  PROVE  RV!Next
<1>1. /\ src \in Proc \cup {ANY, INTERRUPT} /\ p = p_proc_ready /\ halted = "no"
  BY CallTypes DEF Receive, ReceiveInt, ReceiveTakes, ReceiveBlocks, Receives
<1>2. RV!Running(p) /\ ~(halted = "panic")
  BY <1>1, CallerRuns
<1>3. TypeOK
  BY DEF IInv
<1>4. (halted = "panic")' = (halted = "panic")
  BY <1>1 DEF Receive, ReceiveInt, ReceiveTakes, ReceiveBlocks, Continue
<1>5. RV!TakesInt(p, src) <=> IntPendingFor(p, src)
  BY DEF RV!TakesInt, IntPendingFor
<1>6. CASE ReceiveInt(p, src)
  <2>1. UNCHANGED Doing
    BY <1>6 DEF ReceiveInt, Doing, Sending, Receiving
  <2>2. RV!ReceiveInt(p, src)
    BY <1>4, <1>5, <1>6, <2>1 DEF ReceiveInt, RV!ReceiveInt
  <2> QED
    BY <1>2, <2>2 DEF RV!Next, RV!Receive
<1>7. CASE ReceiveTakes(p, src)
  <2>1. PICK s \in Source(p, src) : /\ buf' = [buf EXCEPT ![p] = buf[s]]
                                    /\ StopSending(s)
    BY <1>7 DEF ReceiveTakes
  <2>2. s \in Proc /\ Sending(s) /\ p_sendto[s] = p /\ src \in {s, ANY}
    <3>1. s \in Proc /\ Sending(s) /\ p_sendto[s] = p
      BY <1>1, <2>1, SourceIsSender
    <3>2. src = ANY \/ src = s
      BY <2>1 DEF Source
    <3> QED
      BY <3>1, <3>2
  <2>3. s \in RV!Offers(p, src)
    BY <2>2, OffersAre
  <2>4. /\ p_flags' = [p_flags EXCEPT ![s] = {}]
        /\ p_sendto' = [p_sendto EXCEPT ![s] = NO_TASK]
        /\ UNCHANGED <<p_recvfrom, has_int_msg>>
    BY <1>7, <2>1, <2>2, StopSendingEffect DEF ReceiveTakes
  <2>5. /\ p_flags'[s] = {}
        /\ \A x \in Proc : x # s => /\ p_flags'[x] = p_flags[x]
                                    /\ p_sendto'[x] = p_sendto[x]
    BY <1>3, <2>2, <2>4 DEF TypeOK
  <2>6. ~Sending(s)' /\ ~Receiving(s)'
    BY <2>5 DEF Sending, Receiving
  <2>7. Doing'[s] = RV!Run
    BY <2>2, <2>6 DEF Doing, RV!Run
  <2>8. \A x \in Proc : x # s => (Sending(x)' <=> Sending(x)) /\ (Receiving(x)' <=> Receiving(x))
    BY <2>5 DEF Sending, Receiving
  <2>9. Doing' = [Doing EXCEPT ![s] = RV!Run]
    BY <2>2, <2>4, <2>5, <2>7, <2>8, DoingChanges
  <2>10. ~RV!TakesInt(p, src)
    BY <1>5, <1>7 DEF ReceiveTakes
  <2>11. RV!ReceiveNow(p, src)
    BY <1>4, <2>1, <2>3, <2>4, <2>9, <2>10 DEF RV!ReceiveNow
  <2> QED
    BY <1>2, <2>11 DEF RV!Next, RV!Receive
<1>8. CASE ReceiveBlocks(p, src)
  <2>1. p_flags[p] = {}
    BY <1>1, CallerReady
  <2>2. /\ p_flags' = [p_flags EXCEPT ![p] = {RECEIVING}]
        /\ p_recvfrom' = [p_recvfrom EXCEPT ![p] = src]
        /\ UNCHANGED <<p_sendto, has_int_msg>>
        /\ buf' = [buf EXCEPT ![p].source = p]
    BY <1>3, <1>8, <2>1, DistinctFlags DEF ReceiveBlocks, TypeOK
  <2>3. /\ p_flags'[p] = {RECEIVING} /\ p_recvfrom'[p] = src
        /\ \A x \in Proc : x # p => /\ p_flags'[x] = p_flags[x]
                                    /\ p_recvfrom'[x] = p_recvfrom[x]
    BY <1>3, <2>2 DEF TypeOK
  <2>4. ~Sending(p)' /\ Receiving(p)'
    BY <2>3, DistinctFlags DEF Sending, Receiving
  <2>5. Doing'[p] = RV!Blocked("recv", src)
    BY <2>3, <2>4 DEF Doing, RV!Blocked
  <2>6. \A x \in Proc : x # p => (Sending(x)' <=> Sending(x)) /\ (Receiving(x)' <=> Receiving(x))
    BY <2>3 DEF Sending, Receiving
  <2>7. Doing' = [Doing EXCEPT ![p] = RV!Blocked("recv", src)]
    BY <2>2, <2>3, <2>5, <2>6, DoingChanges
  <2>8. RV!Offers(p, src) = {}
    <3>1. Source(p, src) = {}
      BY <1>8 DEF ReceiveBlocks
    <3>2. CASE src = ANY
      <4>1. q_sending[p] = << >>
        BY <3>1, <3>2 DEF Source
      <4>2. \A s \in Proc : ~(Sending(s) /\ p_sendto[s] = p)
        BY <4>1 DEF IInv, QueueMatchesSenders
      <4> QED
        BY <4>2, OffersAre
    <3>3. CASE src # ANY
      <4>1. \A s \in Proc : s = src => ~(Sending(s) /\ p_sendto[s] = p)
        BY <3>1, <3>3 DEF Source
      <4> QED
        BY <3>3, <4>1, OffersAre
    <3> QED
      BY <3>2, <3>3
  <2>9. ~RV!TakesInt(p, src)
    BY <1>5, <1>8 DEF ReceiveBlocks
  <2>10. RV!ReceiveWait(p, src)
    BY <1>4, <2>2, <2>7, <2>8, <2>9 DEF RV!ReceiveWait
  <2> QED
    BY <1>2, <2>10 DEF RV!Next, RV!Receive
<1> QED
  BY <1>6, <1>7, <1>8 DEF Receive

LEMMA InformIntRefines ==
  ASSUME IInv, NEW t \in {TASK_TTY, TASK_HD}, halted = "no", InformInt(t)
  PROVE  RV!Next
<1>1. t \in Proc /\ ~(halted = "panic")
  BY ConstantTypes
<1>2. RV!AcceptsInt(t) <=> WaitsForInt(t)
  <2>1. CASE Receiving(t)
    <3>1. Doing[t] = [op |-> "recv", peer |-> p_recvfrom[t]]
      BY <1>1, <2>1, DoingTells
    <3> QED
      BY <2>1, <3>1 DEF RV!AcceptsInt, WaitsForInt
  <2>2. CASE ~Receiving(t)
    <3>1. Doing[t].op # "recv"
      BY <1>1, <2>2, DoingTells
    <3> QED
      BY <2>2, <3>1 DEF RV!AcceptsInt, WaitsForInt
  <2> QED
    BY <2>1, <2>2
<1>3. CASE WaitsForInt(t)
  <2>1. /\ Receiving(t) /\ StopReceiving(t) /\ UNCHANGED p_sendto
        /\ buf' = [buf EXCEPT ![t] = HardInt]
        /\ has_int_msg' = [has_int_msg EXCEPT ![t] = FALSE]
    BY <1>3 DEF InformInt, WaitsForInt
  <2>2. Doing' = [Doing EXCEPT ![t] = RV!Run]
    BY <1>1, <2>1, ReleaseDoing
  <2>3. (halted = "panic")' = (halted = "panic")
    BY <1>1, <1>3 DEF InformInt, Continue
  <2>4. RV!Notify(t)
    BY <1>2, <1>3, <2>1, <2>2, <2>3 DEF RV!Notify
  <2> QED
    BY <1>1, <2>4 DEF RV!Next
<1>4. CASE ~WaitsForInt(t)
  <2>1. /\ has_int_msg' = [has_int_msg EXCEPT ![t] = TRUE]
        /\ UNCHANGED <<p_flags, p_recvfrom, p_sendto, buf, halted>>
    BY <1>4 DEF InformInt
  <2>2. UNCHANGED Doing
    BY <2>1 DEF Doing, Sending, Receiving
  <2>3. (halted = "panic")' = (halted = "panic")
    BY <2>1
  <2>4. RV!Notify(t)
    BY <1>2, <1>4, <2>1, <2>2, <2>3 DEF RV!Notify
  <2> QED
    BY <1>1, <2>4 DEF RV!Next
<1> QED
  BY <1>3, <1>4

\* A step that leaves the messages alone is a stuttering step.
LEMMA QuietRefines ==
  ASSUME UNCHANGED <<p_flags, p_recvfrom, p_sendto, has_int_msg, buf, halted>>
  PROVE  UNCHANGED RV!rvVars
<1>1. UNCHANGED Doing
  BY DEF Doing, Sending, Receiving
<1> QED
  BY <1>1 DEF RV!rvVars

LEMMA NextRefines == IInv /\ [Next]_vars => [RV!Next]_(RV!rvVars)
<1> SUFFICES ASSUME IInv, [Next]_vars PROVE [RV!Next]_(RV!rvVars)
  OBVIOUS
<1>1. CASE Halted \/ UNCHANGED vars
  BY <1>1, QuietRefines DEF Halted, vars, ipcVars
<1>2. ASSUME NEW p \in Proc, NEW dest \in SendTo[p], Send(p, dest) PROVE RV!Next
  BY <1>2, SendRefines
<1>3. ASSUME NEW p \in Proc, NEW src \in RecvFrom[p], Receive(p, src) PROVE RV!Next
  BY <1>3, ReceiveRefines
<1>4. CASE DiskInterrupt
  BY <1>4, InformIntRefines DEF DiskInterrupt
<1>5. ASSUME NEW reenter \in BOOLEAN, NEW key_pressed \in BOOLEAN,
             ClockTick(reenter, key_pressed)
      PROVE  [RV!Next]_(RV!rvVars)
  <2>1. CASE key_pressed
    BY <1>5, <2>1, InformIntRefines DEF ClockTick
  <2>2. CASE ~key_pressed
    BY <1>5, <2>2, QuietRefines DEF ClockTick, ipcVars
  <2> QED
    BY <2>1, <2>2
<1> QED
  BY <1>1, <1>2, <1>3, <1>4, <1>5 DEF Next, Clock

\* The kernel's sendrec() is the rendezvous its callers may rely on: every step of
\* proc.c and clock.c is a step of Rendezvous or changes nothing it talks about.
THEOREM IpcImplementsRendezvous == Spec => ImplementsRendezvous
<1>1. Init => RV!Init
  BY InitRefines
<1>2. IInv /\ [Next]_vars => [RV!Next]_(RV!rvVars)
  BY NextRefines
<1> QED
  BY <1>1, <1>2, SpecIInv, PTL DEF Spec, ImplementsRendezvous, RV!Spec
===============================================================================
