--------------------------- MODULE ProcLifeProofs ---------------------------
(***************************************************************************)
(* Proofs about ProcLife, for any number of process slots and any choice   *)
(* of the calls the programs make.  The clock may take the processor from  *)
(* MM wherever it is; what an invariant says, it says until a RECEIVE of   *)
(* MM's own caller falls between MM's load and its store (crossed).        *)
(***************************************************************************)
EXTENDS ProcLife, FiniteSetTheorems, TLAPS

Run       == RV!Run
SendTo(x) == RV!Blocked("send", x)
RecvOf(x) == RV!Blocked("recv", x)

-----------------------------------------------------------------------------
(***************************************************************************)
(* The inductive invariant.                                                *)
(***************************************************************************)

\* Where MM's handler has its caller's request and has not answered yet.
BeforeReply ==
  {"fork_scan", "fork_rest", "fork_mem", "fork_fs", "fork_fsrecv", "fork_birth",
   "fork_reply", "fork_full", "exit_fs", "exit_fsrecv", "exit_mark", "wait_scan",
   "wait_cleanup", "wait_store", "wait_nobody", "exec_fs", "exec_fsrecv",
   "exec_regs", "exec_reply", "exec_fail"}

AfterExit == {"exit_cleanup", "exit_free", "exit_orphans", "orphan_cleanup", "orphan_free"}

Handling == mmPc \notin {"loop", "dispatch"}

ForkPc == {"fork_scan", "fork_rest", "fork_mem", "fork_fs", "fork_fsrecv", "fork_birth",
           "fork_reply", "fork_full"}
ExitPc == {"exit_fs", "exit_fsrecv", "exit_mark"} \cup AfterExit
WaitPc == {"wait_scan", "wait_cleanup", "wait_free", "wait_store", "wait_nobody"}
ExecPc == {"exec_fs", "exec_fsrecv", "exec_regs", "exec_reply", "exec_fail"}

\* The marks a process can have, and MM's family tree.
MarksOK ==
  /\ \A p \in User : marks[p] \in {{}, {WAITING}, {HANGING}, {FREE_SLOT}}
  /\ marks[PID_INIT] \in {{}, {WAITING}}
  /\ marks[TASK_MM] = {} /\ marks[TASK_FS] = {}
  /\ \A p \in Proc \ Slot : p_parent[p] = NO_TASK
  /\ \A c \in Slot : p_parent[c] # c

\* What MM's local variables hold at each point of its handlers.
LocalsOK ==
  /\ mmPc \in ForkPc => msgtype = FORK
  /\ mmPc \in ExitPc => msgtype = EXIT
  /\ mmPc \in WaitPc => msgtype = WAIT
  /\ mmPc \in ExecPc => msgtype = EXEC
  /\ Handling => src \in User
  /\ Handling /\ mmPc \notin {"exec_reply", "wait_free"} => call[src] = msgtype
  /\ call[PID_INIT] \in {FORK, WAIT}
  /\ mmPc \in BeforeReply => marks[src] = {}
  /\ mmPc \in {"fork_rest", "fork_mem", "fork_fs", "fork_fsrecv", "fork_birth", "fork_reply"}
       => child \in Slot /\ child # src
  /\ mmPc = "fork_rest" => /\ marks[child] = {FREE_SLOT} /\ pc[child] = pc[src]
                        /\ space[child] = src
  /\ mmPc \in {"fork_mem", "fork_fs", "fork_fsrecv", "fork_birth"} => marks[child] = {}
  /\ mmPc \in {"exit_cleanup", "exit_free"} => /\ child = src /\ marks[src] = {}
                                               /\ p_parent[child] \in User
  /\ mmPc \in {"exit_orphans", "orphan_cleanup", "orphan_free"}
       => marks[src] \in {{HANGING}, {FREE_SLOT}}
  /\ mmPc \in {"orphan_cleanup", "orphan_free"}
       => child \in Slot /\ p_parent[child] = PID_INIT
  /\ mmPc \in {"wait_cleanup", "wait_free"} => child \in Slot /\ p_parent[child] = src
  /\ mmPc \in {"orphan_cleanup", "orphan_free", "wait_cleanup", "wait_free"}
       => marks[child] = {HANGING} /\ child # src
  /\ mmPc = "wait_store" => Zombies(Kids(src)) = {} /\ reg = st[src]

\* p has sent its request and waits, or is about to wait, for the answer.
Expecting(p) == \/ pc[p] = "sent" /\ st[p] = Run
                \/ pc[p] = "answer" /\ st[p] = RecvOf(TASK_MM)

\* MM is going to answer p, or is about to.
Owed(p) ==
  \/ st[TASK_MM] = SendTo(p)
  \/ mmPc = "dispatch" /\ st[TASK_MM] = Run /\ box[TASK_MM].source = p
  \/ mmPc \in BeforeReply /\ p = src
  \/ mmPc \in {"fork_mem", "fork_fs", "fork_fsrecv", "fork_birth"} /\ p = child
  \/ mmPc \in {"exit_cleanup", "orphan_cleanup"} /\ p = p_parent[child]

\* The caller of exec() runs its new program before MM has answered.
ExecEarly(p) ==
  /\ p = src /\ msgtype = EXEC
  /\ \/ /\ mmPc = "exec_reply"
        /\ \/ pc[p] = "program" /\ st[p] \in {Run, RecvOf(TASK_MM)}
           \/ pc[p] = "sent" /\ st[p] = SendTo(TASK_MM)
     \/ mmPc = "loop" /\ st[TASK_MM] = SendTo(p) /\ pc[p] = "program" /\ st[p] = Run

ShapeOK(p) ==
  /\ marks[p] = {FREE_SLOT} => st[p] = Run
  /\ pc[p] = "program" => st[p] = Run \/ (ExecEarly(p) /\ st[p] = RecvOf(TASK_MM))
  /\ pc[p] = "sent" => st[p] \in {Run, SendTo(TASK_MM)}
  /\ pc[p] = "answer" => st[p] \in {Run, RecvOf(TASK_MM)}
  /\ pc[p] = "spin" => st[p] = Run
  /\ st[p] = SendTo(TASK_MM) => box[p].source = p /\ box[p].type = call[p] /\ marks[p] = {}

DueOK(p) ==
  /\ Owed(p) => marks[p] = {} /\ (Expecting(p) \/ ExecEarly(p))
  /\ p = src /\ mmPc = "exec_reply" => ExecEarly(p)
  /\ Expecting(p) /\ marks[p] = {}
       => Owed(p) \/ (p = src /\ mmPc \in {"exit_cleanup", "exit_free"})
  /\ p = src /\ mmPc \in {"exit_cleanup", "exit_free"} => Expecting(p)
  /\ marks[p] \in {{WAITING}, {HANGING}} => Expecting(p)
  /\ marks[p] = {WAITING} => call[p] = WAIT
  /\ mmPc \in {"exit_cleanup", "orphan_cleanup"} /\ p = p_parent[child] => call[p] = WAIT
  /\ mmPc \in {"fork_fs", "fork_fsrecv", "fork_birth"} /\ p = child => call[p] = FORK
  /\ Expecting(p) /\ marks[p] # {FREE_SLOT} /\ ~(mmPc = "fork_mem" /\ p = child)
       => box[p].source \in User

\* MM waits for FS to take its request; for its answer.
AsksPc  == {"fork_fsrecv", "exit_fsrecv", "exec_fsrecv"}
HearsPc == {"fork_birth", "exit_mark", "exec_regs"}

\* MM's own system calls.
MmOK ==
  \/ st[TASK_MM] = Run
  \/ st[TASK_MM] = RecvOf(ANY) /\ mmPc = "dispatch"
  \/ st[TASK_MM] = RecvOf(TASK_FS) /\ mmPc \in HearsPc
  \/ st[TASK_MM] = SendTo(TASK_FS) /\ mmPc \in AsksPc
  \/ /\ box[TASK_MM].source = TASK_MM
     /\ \/ st[TASK_MM] = SendTo(child) /\ mmPc = "fork_reply" /\ call[child] = FORK
        \/ /\ st[TASK_MM] = SendTo(src) /\ mmPc = "loop" /\ src \in User
           /\ pc[src] = "program" \/ (call[src] = msgtype /\ msgtype \in {FORK, WAIT, EXEC})
           /\ msgtype = WAIT => box[TASK_MM].PID = NO_TASK
        \/ /\ st[TASK_MM] = SendTo(p_parent[child])
           /\ mmPc \in {"exit_free", "orphan_free", "wait_free"}
           /\ p_parent[child] \in User
           /\ call[p_parent[child]] = WAIT
           /\ box[TASK_MM].PID = child

RequestTaken ==
  mmPc = "dispatch" /\ st[TASK_MM] = Run =>
    /\ box[TASK_MM].source \in User
    /\ box[TASK_MM].type = call[box[TASK_MM].source]

\* ... st[p] is Run where MM is blocked in a SEND to p.
ReplyPending == \A p \in User : st[TASK_MM] = SendTo(p) => st[p] = Run

\* The rendezvous of MM with FS.
Request == IF msgtype = FORK THEN child ELSE src
Asks(m) == m.source = TASK_MM /\ m.type = msgtype /\ m.PID = Request

FsIdle  == \/ fsAt = "loop" /\ st[TASK_FS] = Run
           \/ fsAt = "serve" /\ st[TASK_FS] = RecvOf(ANY)
FsAsked == fsAt = "serve" /\ st[TASK_FS] = Run /\ Asks(box[TASK_FS])

FsOK ==
  /\ mmPc \in AsksPc =>
       \/ /\ st[TASK_MM] = SendTo(TASK_FS) /\ Asks(box[TASK_MM])
          /\ fsAt = "loop" /\ st[TASK_FS] = Run
       \/ st[TASK_MM] = Run /\ FsAsked
       \/ st[TASK_MM] = Run /\ fsAt = "loop" /\ st[TASK_FS] = SendTo(TASK_MM)
  /\ mmPc \in HearsPc =>
       \/ st[TASK_MM] = RecvOf(TASK_FS) /\ FsAsked
       \/ st[TASK_MM] = Run /\ FsIdle
  /\ mmPc \notin AsksPc \cup HearsPc => FsIdle

\* FS has not heard of the fork yet.
Unheard ==
  \/ mmPc \in {"fork_mem", "fork_fs"}
  \/ mmPc = "fork_fsrecv" /\ (st[TASK_MM] = SendTo(TASK_FS) \/ fsAt = "serve")
  \/ mmPc = "fork_birth" /\ st[TASK_MM] = RecvOf(TASK_FS)

Counted == {p \in Proc : filp[p] /\ ~(p = child /\ Unheard)}

\* FS has heard of the exit.
ExitHeard ==
  \/ mmPc = "exit_fsrecv" /\ st[TASK_FS] = SendTo(TASK_MM)
  \/ mmPc = "exit_mark" /\ st[TASK_MM] = Run
  \/ mmPc \in AfterExit

DescriptorsOK ==
  /\ fd_cnt = Cardinality(Counted)
  /\ ~filp[TASK_MM] /\ ~filp[TASK_FS]
  /\ \A p \in User : marks[p] \in {{HANGING}, {FREE_SLOT}} => ~filp[p]
  /\ ExitHeard => ~filp[src]

MemoryOK == \A p \in User : marks[p] # {FREE_SLOT} =>
              space[p] = p \/ (p = child /\ mmPc = "fork_mem" /\ space[p] = src)

\* The calls under way, as long as the machine has not panicked.
CallsOK == /\ \A p \in User : ShapeOK(p) /\ DueOK(p)
           /\ MmOK /\ RequestTaken /\ ReplyPending /\ FsOK

AnswersOK == NobodyHangs /\ AnswerArrived

IInv ==
  /\ LifeTypeOK /\ MarksOK /\ LocalsOK
  /\ FamilyExact /\ MemoryOK /\ DescriptorsOK
  /\ AnswersOK
  /\ IF stopped THEN mmPc = "loop" /\ msgtype = EXEC ELSE CallsOK

-----------------------------------------------------------------------------
\* The table's entries are distinct processes.
LEMMA ProcFacts ==
  /\ TASK_FS # TASK_MM /\ TASK_FS # PID_INIT /\ TASK_MM # PID_INIT
  /\ TASK_FS \notin Slot /\ TASK_MM \notin Slot /\ PID_INIT \notin Slot
  /\ TASK_FS \in Proc /\ TASK_MM \in Proc /\ PID_INIT \in User
  /\ TASK_FS \notin User /\ TASK_MM \notin User
  /\ Slot \subseteq User /\ User \subseteq Proc /\ Proc \subseteq Nat
  /\ ANY \notin Proc /\ INTERRUPT \notin Proc /\ NO_TASK \notin Proc
  /\ Proc = User \cup {TASK_FS, TASK_MM} /\ User = Slot \cup {PID_INIT}
<1>1. \A a, b : Cardinality({a, b}) # 3
  <2> SUFFICES ASSUME NEW a, NEW b PROVE Cardinality({a, b}) # 3
    OBVIOUS
  <2>1. IsFiniteSet({a}) /\ Cardinality({a}) = 1
    BY FS_Singleton
  <2>2. Cardinality({a} \cup {b}) = IF b \in {a} THEN Cardinality({a}) ELSE Cardinality({a}) + 1
    BY <2>1, FS_AddElement
  <2>3. {a, b} = {a} \cup {b}
    OBVIOUS
  <2> QED
    BY <2>1, <2>2, <2>3
<1>2. /\ TASK_FS = TASK_MM => {TASK_FS, TASK_MM, PID_INIT} = {TASK_FS, PID_INIT}
      /\ TASK_FS = PID_INIT => {TASK_FS, TASK_MM, PID_INIT} = {TASK_FS, TASK_MM}
      /\ TASK_MM = PID_INIT => {TASK_FS, TASK_MM, PID_INIT} = {TASK_FS, TASK_MM}
  OBVIOUS
<1>3. TASK_FS # TASK_MM /\ TASK_FS # PID_INIT /\ TASK_MM # PID_INIT
  BY <1>1, <1>2, ProcAssumption
<1> QED
  BY <1>3, ProcAssumption DEF Proc, User

LEMMA ProcFinite == IsFiniteSet(Proc)
<1>1. IsFiniteSet(Slot \cup {PID_INIT})
  BY ProcAssumption, FS_AddElement
<1>2. IsFiniteSet((Slot \cup {PID_INIT}) \cup {TASK_FS})
  BY <1>1, FS_AddElement
<1>3. IsFiniteSet(((Slot \cup {PID_INIT}) \cup {TASK_FS}) \cup {TASK_MM})
  BY <1>2, FS_AddElement
<1>4. ((Slot \cup {PID_INIT}) \cup {TASK_FS}) \cup {TASK_MM} = Proc
  BY DEF Proc, User
<1> QED
  BY <1>3, <1>4

\* What a process is blocked in: the constructors differ, and tell the partner.
LEMMA DoingFacts ==
  /\ Run.op = "run"
  /\ \A x : SendTo(x).op = "send" /\ SendTo(x).peer = x /\ SendTo(x) # Run
  /\ \A x : RecvOf(x).op = "recv" /\ RecvOf(x).peer = x /\ RecvOf(x) # Run
  /\ \A x, y : SendTo(x) # RecvOf(y)
  /\ \A x, y : (SendTo(x) = SendTo(y) => x = y) /\ (RecvOf(x) = RecvOf(y) => x = y)
BY DEF Run, SendTo, RecvOf, RV!Run, RV!Blocked

LEMMA DoingTypes ==
  /\ Run \in Doings
  /\ \A x \in Proc : SendTo(x) \in Doings
  /\ \A x \in Proc \cup {ANY} : RecvOf(x) \in Doings
BY DEF Run, SendTo, RecvOf, RV!Run, RV!Blocked, Doings

LEMMA MessageFacts ==
  ASSUME NEW from, NEW type, NEW pid, NEW ret
  PROVE  /\ Message(from, type, pid, ret).source = from
         /\ Message(from, type, pid, ret).type = type
         /\ Message(from, type, pid, ret).PID = pid
         /\ Message(from, type, pid, ret).RETVAL = ret
BY DEF Message

Messages == [source : Proc, type : {FORK, EXIT, WAIT, EXEC, SYSCALL_RET},
             PID : Proc \cup {NO_TASK, 0}, RETVAL : {0, -1}]

LEMMA MessageType ==
  ASSUME NEW from \in Proc, NEW type \in {FORK, EXIT, WAIT, EXEC, SYSCALL_RET},
         NEW pid \in Proc \cup {NO_TASK, 0}, NEW ret \in {0, -1}
  PROVE  Message(from, type, pid, ret) \in Messages
BY DEF Message, Messages

\* The least element of a set of processes is one of them.
LEMMA MinOf ==
  ASSUME NEW S, S \subseteq Proc, S # {}
  PROVE  Min(S) \in S
<1>1. S \subseteq Nat
  BY ProcFacts
<1>2. \E x \in S : \A y \in S : ~(<<y, x>> \in OpToRel(<, Nat))
  BY <1>1, NatLessThanWellFounded, WFMin, Zenon
<1>3. \E x \in S : \A y \in S : x <= y
  <2>1. PICK x \in S : \A y \in S : ~(<<y, x>> \in OpToRel(<, Nat))
    BY <1>2
  <2>2. \A y \in S : ~(y < x)
    BY <1>1, <2>1, Zenon DEF OpToRel
  <2> QED
    BY <1>1, <2>2
<1> QED
  BY <1>3 DEF Min

-----------------------------------------------------------------------------
(***************************************************************************)
(* What a system call does, given who can be blocked in what.              *)
(***************************************************************************)

LEMMA Blocking ==
  ASSUME IInv, ~stopped
  PROVE  /\ \A p \in User : st[p] \in {Run, SendTo(TASK_MM), RecvOf(TASK_MM)}
         /\ st[TASK_FS] \in {Run, RecvOf(ANY), SendTo(TASK_MM)}
         /\ \/ st[TASK_MM] \in {Run, RecvOf(ANY), RecvOf(TASK_FS), SendTo(TASK_FS)}
            \/ \E t \in User : st[TASK_MM] = SendTo(t)
<1>1. ASSUME NEW p \in User PROVE st[p] \in {Run, SendTo(TASK_MM), RecvOf(TASK_MM)}
  <2>1. pc[p] \in {"program", "sent", "answer", "spin"}
    BY ProcFacts DEF IInv, LifeTypeOK
  <2>2. ShapeOK(p)
    BY DEF IInv, CallsOK
  <2> QED
    BY <2>1, <2>2 DEF ShapeOK
<1>2. st[TASK_FS] \in {Run, RecvOf(ANY), SendTo(TASK_MM)}
  BY DEF IInv, CallsOK, FsOK, FsIdle, FsAsked
<1>3. \/ st[TASK_MM] \in {Run, RecvOf(ANY), RecvOf(TASK_FS), SendTo(TASK_FS)}
      \/ \E t \in User : st[TASK_MM] = SendTo(t)
  <2>1. MmOK /\ (mmPc = "fork_reply" => child \in User)
    BY ProcFacts DEF IInv, CallsOK, LocalsOK
  <2> QED
    BY <2>1 DEF MmOK
<1> QED
  BY <1>1, <1>2, <1>3

\* Runs(p): p is not blocked, and the machine goes on.
LEMMA RunsFacts ==
  ASSUME IInv, NEW p \in Proc, Runs(p)
  PROVE  ~stopped /\ marks[p] = {} /\ st[p] = Run
<1>1. ~stopped /\ marks[p] = {} /\ st[p].op = "run"
  BY DEF Runs, Runnable, RV!Running
<1> QED
  BY <1>1, Blocking, DoingFacts, ProcFacts

Delivers(p, d, m) == /\ box' = [box EXCEPT ![p] = m, ![d] = m]
                     /\ st' = [st EXCEPT ![d] = Run]
                     /\ UNCHANGED <<pend, stopped>>

Waits(p, d, m) == /\ box' = [box EXCEPT ![p] = m]
                  /\ st' = [st EXCEPT ![p] = SendTo(d)]
                  /\ UNCHANGED <<pend, stopped>>

Panics == stopped' = TRUE /\ UNCHANGED <<st, box, pend>>

LEMMA SendOutcome ==
  ASSUME NEW p, NEW d, NEW m, RV!Send(p, d, m)
  PROVE  \/ RV!Circle(p, d) /\ Panics
         \/ /\ ~RV!Circle(p, d)
            /\ \/ st[d].op = "recv" /\ st[d].peer \in {p, ANY} /\ Delivers(p, d, m)
               \/ ~(st[d].op = "recv" /\ st[d].peer \in {p, ANY}) /\ Waits(p, d, m)
BY DEF RV!Send, RV!SendPanics, RV!SendNow, RV!SendWait, RV!Accepts, Panics, Delivers, Waits,
       Run, SendTo

\* No circle leads back to p from a process that is not sending, or that sends
\* to one that is not.
LEMMA NoCircle ==
  ASSUME NEW p, NEW d \in Proc, p # d, st[d].op # "send"
  PROVE  ~RV!Circle(p, d)
<1>1. {d} \in SUBSET Proc /\ d \in {d} /\ p \notin {d}
  OBVIOUS
<1> QED
  BY <1>1 DEF RV!Circle

LEMMA NoCircleOfThree ==
  ASSUME NEW p, NEW d \in Proc, NEW x \in Proc, p # d, p # x,
         st[d] = SendTo(x), st[x].op # "send"
  PROVE  ~RV!Circle(p, d)
<1>1. {d, x} \in SUBSET Proc /\ d \in {d, x} /\ p \notin {d, x}
  OBVIOUS
<1>2. \A y \in {d, x} : st[y].op = "send" => st[y].peer \in {d, x}
  BY DoingFacts
<1> QED
  BY <1>1, <1>2 DEF RV!Circle

\* Two that send to each other are a circle.
LEMMA CircleOfTwo ==
  ASSUME NEW p, NEW d, st[d] = SendTo(p)
  PROVE  RV!Circle(p, d)
<1>1. st[d].op = "send" /\ st[d].peer = p
  BY DoingFacts
<1> QED
  BY <1>1 DEF RV!Circle

\* A RECEIVE takes the message of a sender, or waits.
LEMMA ReceiveOutcome ==
  ASSUME LifeTypeOK, NEW p \in Proc, NEW from \in Proc \cup {ANY}, RV!Receive(p, from)
  PROVE  /\ UNCHANGED <<pend, stopped>>
         /\ \/ \E s \in Proc : /\ st[s] = SendTo(p) /\ from \in {s, ANY}
                               /\ box' = [box EXCEPT ![p] = box[s]]
                               /\ st' = [st EXCEPT ![s] = Run]
            \/ /\ \A s \in Proc : from \in {s, ANY} => st[s] # SendTo(p)
               /\ box' = [box EXCEPT ![p].source = p]
               /\ st' = [st EXCEPT ![p] = RecvOf(from)]
<1>1. ~pend[p]
  BY DEF LifeTypeOK
<1>2. RV!ReceiveNow(p, from) \/ RV!ReceiveWait(p, from)
  BY <1>1 DEF RV!Receive, RV!ReceiveInt, RV!TakesInt
<1> QED
  BY <1>2 DEF RV!ReceiveNow, RV!ReceiveWait, RV!Offers, RV!SendsTo, Run, SendTo, RecvOf

LEMMA FsCalledOutcome ==
  ASSUME IInv, ~stopped, st[TASK_MM] = SendTo(TASK_FS)
  PROVE  mmPc \in AsksPc /\ Asks(box[TASK_MM]) /\ fsAt = "loop" /\ st[TASK_FS] = Run
<1>1. /\ mmPc = "fork_reply" => child # TASK_FS
      /\ mmPc = "loop" /\ src \in User => src # TASK_FS
      /\ p_parent[child] \in User => p_parent[child] # TASK_FS
  BY ProcFacts DEF IInv, LocalsOK
<1>2. mmPc \in AsksPc
  BY <1>1, DoingFacts DEF IInv, CallsOK, MmOK
<1> QED
  BY <1>2, DoingFacts DEF IInv, CallsOK, FsOK

\* The first half of a stub's send_recv(BOTH).  Only the caller of exec() that
\* already runs its new program can close a circle with MM.
LEMMA CallingOutcome ==
  ASSUME IInv, NEW p \in User, Runs(p), pc[p] = "program", NEW m, RV!Send(p, TASK_MM, m)
  PROVE  \/ Panics /\ mmPc = "loop" /\ msgtype = EXEC
         \/ /\ Delivers(p, TASK_MM, m)
            /\ st[TASK_MM] = RecvOf(ANY) /\ mmPc = "dispatch"
         \/ Waits(p, TASK_MM, m) /\ st[TASK_MM] \notin {RecvOf(ANY), SendTo(p)}
<1>1. /\ ~stopped /\ marks[p] = {} /\ st[p] = Run /\ p \in Proc /\ p # TASK_MM
      /\ p # TASK_FS /\ TASK_MM \in Proc /\ TASK_FS \in Proc
  BY RunsFacts, ProcFacts
<1>2. CASE RV!Circle(p, TASK_MM) /\ Panics
  <2>1. st[TASK_MM] = SendTo(p)
    <3>1. CASE st[TASK_MM] = SendTo(TASK_FS)
      <4>1. st[TASK_FS] = Run
        BY <1>1, <3>1, FsCalledOutcome
      <4> QED
        BY <1>1, <1>2, <3>1, <4>1, NoCircleOfThree, DoingFacts
    <3>2. ASSUME NEW t \in User, st[TASK_MM] = SendTo(t), t # p PROVE FALSE
      <4>1. st[t] = Run /\ t \in Proc
        BY <1>1, <3>2, ProcFacts DEF IInv, CallsOK, ReplyPending
      <4> QED
        BY <1>1, <1>2, <3>2, <4>1, NoCircleOfThree, DoingFacts
    <3>3. CASE st[TASK_MM] \in {Run, RecvOf(ANY), RecvOf(TASK_FS)}
      BY <1>1, <1>2, <3>3, NoCircle, DoingFacts
    <3> QED
      BY <1>1, <3>1, <3>2, <3>3, Blocking
  <2>2. ExecEarly(p)
    BY <1>1, <2>1, DoingFacts DEF IInv, CallsOK, DueOK, Owed, Expecting
  <2>3. mmPc # "exec_reply"
    BY <1>1, <2>1, DoingFacts DEF IInv, CallsOK, MmOK, AsksPc
  <2> QED
    BY <1>2, <2>2, <2>3 DEF ExecEarly
<1>3. CASE /\ st[TASK_MM].op = "recv" /\ st[TASK_MM].peer \in {p, ANY}
           /\ Delivers(p, TASK_MM, m)
  <2>1. st[TASK_MM] = RecvOf(ANY)
    BY <1>1, <1>3, Blocking, DoingFacts, ProcFacts
  <2> QED
    BY <1>1, <1>3, <2>1, DoingFacts, ProcFacts DEF IInv, CallsOK, MmOK
<1>4. CASE /\ ~RV!Circle(p, TASK_MM)
           /\ ~(st[TASK_MM].op = "recv" /\ st[TASK_MM].peer \in {p, ANY})
           /\ Waits(p, TASK_MM, m)
  BY <1>4, CircleOfTwo, DoingFacts
<1> QED
  BY <1>2, <1>3, <1>4, SendOutcome

\* The second half.
LEMMA AwaitingOutcome ==
  ASSUME IInv, NEW p \in User, Runs(p), RV!Receive(p, TASK_MM)
  PROVE  /\ UNCHANGED <<pend, stopped>>
         /\ \/ /\ st[TASK_MM] = SendTo(p)
               /\ box' = [box EXCEPT ![p] = box[TASK_MM]]
               /\ st' = [st EXCEPT ![TASK_MM] = Run]
            \/ /\ st[TASK_MM] # SendTo(p)
               /\ box' = [box EXCEPT ![p].source = p]
               /\ st' = [st EXCEPT ![p] = RecvOf(TASK_MM)]
<1>1. p \in Proc /\ TASK_MM \in Proc /\ TASK_MM # ANY /\ LifeTypeOK
  BY ProcFacts DEF IInv
<1> QED
  BY <1>1, ReceiveOutcome

\* MM's answer to a process it owes one.
LEMMA ReplyOutcome ==
  ASSUME IInv, Runs(TASK_MM), NEW t \in User, Owed(t), NEW m, RV!Send(TASK_MM, t, m)
  PROVE  /\ marks[t] = {}
         /\ \/ Panics /\ mmPc = "exec_reply" /\ msgtype = EXEC /\ st[t] = SendTo(TASK_MM)
            \/ /\ Delivers(TASK_MM, t, m) /\ st[t] = RecvOf(TASK_MM)
               /\ pc[t] = "answer" \/ (pc[t] = "program" /\ mmPc = "exec_reply" /\ t = src)
            \/ /\ Waits(TASK_MM, t, m) /\ st[t] = Run
               /\ pc[t] = "sent" \/ (pc[t] = "program" /\ mmPc = "exec_reply" /\ t = src)
<1>1. /\ ~stopped /\ st[TASK_MM] = Run /\ t \in Proc /\ t # TASK_MM
  BY RunsFacts, ProcFacts
<1>2. marks[t] = {} /\ (Expecting(t) \/ ExecEarly(t))
  BY <1>1 DEF IInv, CallsOK, DueOK
<1>3. /\ ExecEarly(t) => mmPc = "exec_reply" /\ t = src /\ msgtype = EXEC
      /\ st[t] \in {Run, RecvOf(TASK_MM)} \/ (ExecEarly(t) /\ st[t] = SendTo(TASK_MM))
      /\ st[t] = Run => pc[t] = "sent" \/ (pc[t] = "program" /\ ExecEarly(t))
      /\ st[t] = RecvOf(TASK_MM) => pc[t] = "answer" \/ (pc[t] = "program" /\ ExecEarly(t))
  BY <1>1, <1>2, DoingFacts DEF Expecting, ExecEarly
<1>4. st[t] # SendTo(TASK_MM) => ~RV!Circle(TASK_MM, t)
  BY <1>1, <1>3, NoCircle, DoingFacts
<1>5. CASE RV!Circle(TASK_MM, t) /\ Panics
  <2>1. ExecEarly(t) /\ st[t] = SendTo(TASK_MM)
    BY <1>3, <1>4, <1>5, DoingFacts
  <2> QED
    BY <1>2, <1>3, <1>5, <2>1
<1>6. CASE /\ st[t].op = "recv" /\ st[t].peer \in {TASK_MM, ANY}
           /\ Delivers(TASK_MM, t, m)
  BY <1>2, <1>3, <1>6, DoingFacts
<1>7. CASE /\ ~RV!Circle(TASK_MM, t)
           /\ ~(st[t].op = "recv" /\ st[t].peer \in {TASK_MM, ANY})
           /\ Waits(TASK_MM, t, m)
  <2>1. st[t] = Run
    BY <1>3, <1>7, DoingFacts, CircleOfTwo
  <2> QED
    BY <1>2, <1>3, <1>7, <2>1
<1> QED
  BY <1>5, <1>6, <1>7, SendOutcome

\* MM's request to FS, and the answer.
LEMMA AskingOutcome ==
  ASSUME IInv, Runs(TASK_MM), mmPc \notin AsksPc \cup HearsPc,
         NEW m, RV!Send(TASK_MM, TASK_FS, m)
  PROVE  \/ Delivers(TASK_MM, TASK_FS, m) /\ fsAt = "serve" /\ st[TASK_FS] = RecvOf(ANY)
         \/ Waits(TASK_MM, TASK_FS, m) /\ fsAt = "loop" /\ st[TASK_FS] = Run
<1>1. ~stopped /\ TASK_MM # TASK_FS /\ TASK_FS \in Proc /\ TASK_MM \in Proc
  BY RunsFacts, ProcFacts
<1>2. FsIdle
  BY <1>1 DEF IInv, CallsOK, FsOK
<1>3. ~RV!Circle(TASK_MM, TASK_FS)
  BY <1>1, <1>2, NoCircle, DoingFacts DEF FsIdle
<1>4. st[TASK_FS].op = "recv" /\ st[TASK_FS].peer \in {TASK_MM, ANY} <=> st[TASK_FS] = RecvOf(ANY)
  BY <1>2, DoingFacts DEF FsIdle
<1> QED
  BY <1>2, <1>3, <1>4, SendOutcome, DoingFacts DEF FsIdle

LEMMA HearingOutcome ==
  ASSUME IInv, Runs(TASK_MM), mmPc \in AsksPc, RV!Receive(TASK_MM, TASK_FS)
  PROVE  /\ UNCHANGED <<pend, stopped>>
         /\ \/ /\ st[TASK_FS] = SendTo(TASK_MM) /\ fsAt = "loop"
               /\ box' = [box EXCEPT ![TASK_MM] = box[TASK_FS]]
               /\ st' = [st EXCEPT ![TASK_FS] = Run]
            \/ /\ FsAsked
               /\ box' = [box EXCEPT ![TASK_MM].source = TASK_MM]
               /\ st' = [st EXCEPT ![TASK_MM] = RecvOf(TASK_FS)]
<1>1. /\ ~stopped /\ st[TASK_MM] = Run /\ TASK_FS \in Proc /\ TASK_MM \in Proc
      /\ TASK_FS # ANY /\ LifeTypeOK
  BY RunsFacts, ProcFacts DEF IInv
<1>2. FsAsked \/ (fsAt = "loop" /\ st[TASK_FS] = SendTo(TASK_MM))
  BY <1>1, DoingFacts DEF IInv, CallsOK, FsOK
<1> QED
  BY <1>1, <1>2, ReceiveOutcome, DoingFacts DEF FsAsked

\* MM's RECEIVE from ANY: FS is idle, so it takes a caller's request.
LEMMA TakingOutcome ==
  ASSUME IInv, Runs(TASK_MM), mmPc = "loop", RV!Receive(TASK_MM, ANY)
  PROVE  /\ UNCHANGED <<pend, stopped>>
         /\ \/ \E s \in User : /\ st[s] = SendTo(TASK_MM)
                               /\ box' = [box EXCEPT ![TASK_MM] = box[s]]
                               /\ st' = [st EXCEPT ![s] = Run]
            \/ /\ box' = [box EXCEPT ![TASK_MM].source = TASK_MM]
               /\ st' = [st EXCEPT ![TASK_MM] = RecvOf(ANY)]
               /\ \A s \in User : st[s] # SendTo(TASK_MM)
<1>1. ~stopped /\ st[TASK_MM] = Run /\ LifeTypeOK /\ TASK_MM \in Proc
  BY RunsFacts, ProcFacts DEF IInv
<1>2. st[TASK_FS] # SendTo(TASK_MM)
  BY <1>1, DoingFacts DEF IInv, CallsOK, FsOK, FsIdle, AsksPc, HearsPc
<1>3. st[TASK_MM] # SendTo(TASK_MM)
  BY <1>1, DoingFacts
<1> QED
  BY <1>1, <1>2, <1>3, ReceiveOutcome, ProcFacts

LEMMA FsTakingOutcome ==
  ASSUME IInv, Runs(TASK_FS), RV!Receive(TASK_FS, ANY)
  PROVE  /\ UNCHANGED <<pend, stopped>>
         /\ \/ /\ st[TASK_MM] = SendTo(TASK_FS)
               /\ box' = [box EXCEPT ![TASK_FS] = box[TASK_MM]]
               /\ st' = [st EXCEPT ![TASK_MM] = Run]
            \/ /\ st[TASK_MM] # SendTo(TASK_FS)
               /\ box' = [box EXCEPT ![TASK_FS].source = TASK_FS]
               /\ st' = [st EXCEPT ![TASK_FS] = RecvOf(ANY)]
<1>1. ~stopped /\ st[TASK_FS] = Run /\ LifeTypeOK /\ TASK_FS \in Proc /\ TASK_FS # TASK_MM
  BY RunsFacts, ProcFacts DEF IInv
<1>2. \A s \in User : st[s] # SendTo(TASK_FS)
  BY <1>1, Blocking, DoingFacts
<1>3. st[TASK_FS] # SendTo(TASK_FS)
  BY <1>1, DoingFacts
<1> QED
  BY <1>1, <1>2, <1>3, ReceiveOutcome, ProcFacts

LEMMA FsServingOutcome ==
  ASSUME IInv, Runs(TASK_FS), fsAt = "serve", NEW m, RV!Send(TASK_FS, box[TASK_FS].source, m)
  PROVE  /\ Asks(box[TASK_FS])
         /\ \/ /\ Delivers(TASK_FS, TASK_MM, m)
               /\ st[TASK_MM] = RecvOf(TASK_FS) /\ mmPc \in HearsPc
            \/ /\ Waits(TASK_FS, TASK_MM, m)
               /\ st[TASK_MM] = Run /\ mmPc \in AsksPc
<1>1. /\ ~stopped /\ st[TASK_FS] = Run /\ TASK_FS \in Proc /\ TASK_MM \in Proc
      /\ TASK_FS # TASK_MM /\ TASK_FS # ANY
  BY RunsFacts, ProcFacts DEF IInv
<1>2. /\ FsAsked
      /\ \/ st[TASK_MM] = RecvOf(TASK_FS) /\ mmPc \in HearsPc
         \/ st[TASK_MM] = Run /\ mmPc \in AsksPc
  BY <1>1, DoingFacts DEF IInv, CallsOK, FsOK, FsIdle
<1>3. Asks(box[TASK_FS]) /\ box[TASK_FS].source = TASK_MM
  BY <1>2 DEF FsAsked, Asks
<1>4. ~RV!Circle(TASK_FS, TASK_MM)
  BY <1>1, <1>2, NoCircle, DoingFacts
<1>5. st[TASK_MM].op = "recv" /\ st[TASK_MM].peer \in {TASK_FS, ANY}
        <=> st[TASK_MM] = RecvOf(TASK_FS)
  BY <1>1, <1>2, DoingFacts
<1>6. RV!Send(TASK_FS, TASK_MM, m)
  BY <1>3
<1> QED
  BY <1>2, <1>3, <1>4, <1>5, <1>6, SendOutcome, DoingFacts

-----------------------------------------------------------------------------
(***************************************************************************)
(* Frames: what the parts of the invariant depend on.                      *)
(***************************************************************************)

LEMMA FamilyFrame ==
  ASSUME FamilyExact, UNCHANGED <<marks, p_parent>>, \A p \in User : Dying(p) => Dying(p)'
  PROVE  FamilyExact'
BY DEF FamilyExact, FamilyKept, NoForgottenZombie, Taken, Alive

LEMMA MarksFrame ==
  ASSUME MarksOK, UNCHANGED <<marks, p_parent>>
  PROVE  MarksOK'
BY DEF MarksOK

LEMMA MemoryFrame ==
  ASSUME MemoryOK, UNCHANGED <<marks, space>>,
         mmPc = "fork_mem" => UNCHANGED <<mmPc, child, src>>
  PROVE  MemoryOK'
BY DEF MemoryOK

LEMMA DescriptorsFrame ==
  ASSUME DescriptorsOK, UNCHANGED <<filp, fd_cnt, marks>>,
         Unheard' <=> Unheard, Unheard => UNCHANGED child,
         ExitHeard' => ExitHeard /\ UNCHANGED src
  PROVE  DescriptorsOK'
<1>1. Counted' = Counted
  BY DEF Counted
<1> QED
  BY <1>1 DEF DescriptorsOK

\* A user process that takes no part in a step in which MM stays where it is.
LEMMA BystanderFrame ==
  ASSUME NEW q \in User, ShapeOK(q), DueOK(q),
         UNCHANGED <<marks, p_parent, mmPc, msgtype, src, child>>,
         st'[q] = st[q], pc'[q] = pc[q], call'[q] = call[q], box'[q] = box[q],
         Owed(q)' <=> Owed(q), ExecEarly(q)' <=> ExecEarly(q)
  PROVE  ShapeOK(q)' /\ DueOK(q)'
<1>1. Expecting(q)' <=> Expecting(q)
  BY DEF Expecting
<1>2. ShapeOK(q)'
  BY DEF ShapeOK
<1>3. DueOK(q)'
  BY <1>1 DEF DueOK
<1> QED
  BY <1>2, <1>3

\* Who waits for MM's answer is owed one.
LEMMA OwedAreServed ==
  ASSUME LifeTypeOK', CallsOK'
  PROVE  NobodyHangs'
<1> SUFFICES ASSUME NEW p \in User, st'[p] = RecvOf(TASK_MM), marks'[p] = {}
             PROVE  AnswerDue(p)'
  BY DEF NobodyHangs, RecvOf
<1>1. ShapeOK(p)' /\ DueOK(p)' /\ ReplyPending'
  BY DEF CallsOK
<1>2. pc'[p] \in {"program", "sent", "answer", "spin"}
  BY ProcFacts DEF LifeTypeOK
<1>3. CASE pc'[p] = "answer"
  <2>1. Owed(p)' \/ (p = src' /\ mmPc' \in {"exit_cleanup", "exit_free"})
    BY <1>1, <1>3 DEF DueOK, Expecting
  <2>2. st'[TASK_MM] # SendTo(p)
    BY <1>1, DoingFacts DEF ReplyPending
  <2> QED
    BY <2>1, <2>2 DEF Owed, AnswerDue, Newborn, BeforeReply
<1>4. CASE pc'[p] = "program"
  <2>1. ExecEarly(p)' /\ st'[p] # Run
    BY <1>1, <1>4, DoingFacts DEF ShapeOK
  <2> QED
    BY <2>1 DEF ExecEarly, AnswerDue
<1>5. pc'[p] # "sent" /\ pc'[p] # "spin"
  BY <1>1, DoingFacts DEF ShapeOK
<1> QED
  BY <1>2, <1>3, <1>4, <1>5

LEMMA Assembled ==
  ASSUME ~stopped', LifeTypeOK', MarksOK', LocalsOK', FamilyExact', MemoryOK', DescriptorsOK',
         AnswerArrived', CallsOK'
  PROVE  IInv'
BY OwedAreServed DEF IInv, AnswersOK

\* Types of what a system call changes.
LEMMA SendTypes ==
  ASSUME LifeTypeOK, NEW p \in Proc, NEW d \in Proc, NEW m \in Messages,
         Delivers(p, d, m) \/ Waits(p, d, m) \/ Panics
  PROVE  /\ st' \in [Proc -> Doings] /\ box' \in [Proc -> Messages]
         /\ pend' = [x \in Proc |-> FALSE] /\ stopped' \in BOOLEAN
<1>1. /\ st \in [Proc -> Doings] /\ box \in [Proc -> Messages]
      /\ pend = [x \in Proc |-> FALSE] /\ stopped \in BOOLEAN
  BY DEF LifeTypeOK, Messages
<1>2. Run \in Doings /\ SendTo(d) \in Doings
  BY DoingTypes
<1>3. CASE Delivers(p, d, m)
  BY <1>1, <1>2, <1>3 DEF Delivers
<1>4. CASE Waits(p, d, m)
  BY <1>1, <1>2, <1>4 DEF Waits
<1>5. CASE Panics
  BY <1>1, <1>5 DEF Panics
<1> QED
  BY <1>3, <1>4, <1>5

LEMMA ReceiveTypes ==
  ASSUME LifeTypeOK, NEW p \in Proc, NEW from \in Proc \cup {ANY}, UNCHANGED <<pend, stopped>>,
         \/ \E s \in Proc : /\ box' = [box EXCEPT ![p] = box[s]]
                            /\ st' = [st EXCEPT ![s] = Run]
         \/ /\ box' = [box EXCEPT ![p].source = p]
            /\ st' = [st EXCEPT ![p] = RecvOf(from)]
  PROVE  /\ st' \in [Proc -> Doings] /\ box' \in [Proc -> Messages]
         /\ pend' = [x \in Proc |-> FALSE] /\ stopped' \in BOOLEAN
<1>1. /\ st \in [Proc -> Doings] /\ box \in [Proc -> Messages]
      /\ pend = [x \in Proc |-> FALSE] /\ stopped \in BOOLEAN
  BY DEF LifeTypeOK, Messages
<1>2. Run \in Doings /\ RecvOf(from) \in Doings
  BY DoingTypes
<1>3. ASSUME NEW s \in Proc, box' = [box EXCEPT ![p] = box[s]], st' = [st EXCEPT ![s] = Run]
      PROVE  st' \in [Proc -> Doings] /\ box' \in [Proc -> Messages]
  BY <1>1, <1>2, <1>3
<1>4. CASE /\ box' = [box EXCEPT ![p].source = p]
           /\ st' = [st EXCEPT ![p] = RecvOf(from)]
  <2>1. [box[p] EXCEPT !.source = p] \in Messages
    BY <1>1, SMTT(40) DEF Messages
  <2> QED
    BY <1>1, <1>2, <1>4, <2>1
<1> QED
  BY <1>1, <1>3, <1>4

-----------------------------------------------------------------------------
(***************************************************************************)
(* The programs and their library stubs.                                   *)
(***************************************************************************)

\* The caller that MM rereads does not run a system call of its own, unless
\* the call is crossed.
LEMMA OutsideWindow ==
  ASSUME IInv, NEW p \in User, Runs(p), Rereads(p)
  PROVE  pc[p] = "sent"
<1>1. /\ Owed(p) /\ st[p] = Run /\ ~stopped /\ DueOK(p) /\ ~ExecEarly(p)
  BY RunsFacts, ProcFacts DEF IInv, CallsOK, Rereads, Owed, BeforeReply, ExecEarly
<1> QED
  BY <1>1, DoingFacts DEF DueOK, Expecting

\* A user process that runs is not what MM has half read, unless the call is
\* crossed.
LEMMA NotReread ==
  ASSUME IInv, NEW p \in User, marks[p] = {}, ~Rereads(p)
  PROVE  /\ mmPc = "wait_store" => p # src
         /\ mmPc = "fork_rest" => p # src /\ p # child
BY DEF IInv, LocalsOK, Rereads, FREE_SLOT

LEMMA CallingType ==
  ASSUME IInv, NEW p \in User, Calling(p)
  PROVE  LifeTypeOK' /\ call'[PID_INIT] \in {FORK, WAIT}
<1>1. PICK type \in MayCall(p) :
         /\ RV!Send(p, TASK_MM, Message(p, type, NO_TASK, 0))
         /\ call' = [call EXCEPT ![p] = type]
         /\ forks' = IF p = PID_INIT /\ type = FORK THEN forks + 1 ELSE forks
  BY DEF Calling
<1>2. /\ type \in {FORK, EXIT, WAIT, EXEC} /\ p \in Proc /\ TASK_MM \in Proc
      /\ p = PID_INIT => type \in {FORK, WAIT} /\ (type = FORK => forks < InitForks)
      /\ PID_INIT \in Proc
  BY ProcFacts, ProcAssumption DEF MayCall, FORK, EXIT, WAIT, EXEC
<1>3. Runs(p) /\ pc[p] = "program" /\ LifeTypeOK
  BY DEF Calling, IInv
<1>4. Message(p, type, NO_TASK, 0) \in Messages
  BY <1>2, MessageType
<1>5. /\ st' \in [Proc -> Doings] /\ box' \in [Proc -> Messages]
      /\ pend' = [x \in Proc |-> FALSE] /\ stopped' \in BOOLEAN
  BY <1>1, <1>2, <1>3, <1>4, CallingOutcome, SendTypes
<1>6. /\ call' \in [Proc -> {FORK, EXIT, WAIT, EXEC}] /\ forks' \in 0 .. InitForks
      /\ pc' \in [Proc -> {"program", "sent", "answer", "spin"}]
  BY <1>1, <1>2, <1>3, ProcAssumption DEF LifeTypeOK, Calling
<1>7. UNCHANGED <<marks, p_parent, space, filp, fd_cnt, mmPc, msgtype, src, child, reg, fsAt, crossed>>
  BY DEF Calling, table, mmVars, locals
<1>8. LifeTypeOK'
  BY <1>3, <1>5, <1>6, <1>7 DEF LifeTypeOK, Messages
<1> QED
  BY <1>1, <1>2, <1>8 DEF IInv, LocalsOK, LifeTypeOK

LEMMA CallingIInv ==
  ASSUME IInv, NEW p \in User, Calling(p)
  PROVE  IInv'
<1>1. LifeTypeOK' /\ call'[PID_INIT] \in {FORK, WAIT}
  BY CallingType
<1>2. /\ Runs(p) /\ pc[p] = "program" /\ ~stopped /\ marks[p] = {} /\ st[p] = Run
      /\ p \in Proc /\ p # TASK_MM /\ p # TASK_FS /\ TASK_MM \in Proc /\ TASK_FS \in Proc
      /\ ~Rereads(p)
  BY RunsFacts, ProcFacts, OutsideWindow DEF Calling
<1>3. UNCHANGED <<marks, p_parent, space, filp, fd_cnt, mmPc, msgtype, src, child, reg, fsAt, crossed>>
  BY DEF Calling, table, mmVars, locals
<1>4. PICK type \in MayCall(p) :
         /\ RV!Send(p, TASK_MM, Message(p, type, NO_TASK, 0))
         /\ call' = [call EXCEPT ![p] = type]
  BY DEF Calling
<1> DEFINE m == Message(p, type, NO_TASK, 0)
<1>5. m.source = p /\ m.type = type
  BY MessageFacts
<1>6. /\ \A x \in User : x # p => pc'[x] = pc[x] /\ call'[x] = call[x]
      /\ pc'[p] = "sent" /\ call'[p] = type
  BY <1>2, <1>4, ProcFacts DEF IInv, LifeTypeOK, Calling
<1>7. \/ Panics /\ mmPc = "loop" /\ msgtype = EXEC
      \/ Delivers(p, TASK_MM, m) /\ st[TASK_MM] = RecvOf(ANY) /\ mmPc = "dispatch"
      \/ Waits(p, TASK_MM, m) /\ st[TASK_MM] \notin {RecvOf(ANY), SendTo(p)}
  BY <1>2, <1>4, CallingOutcome
<1> HIDE DEF m
<1>8. FamilyExact' /\ MarksOK' /\ MemoryOK'
  BY <1>3, FamilyFrame, MarksFrame, MemoryFrame DEF IInv, Dying
<1>9. UNCHANGED <<st, box>> \/ Delivers(p, TASK_MM, m) \/ Waits(p, TASK_MM, m)
  BY <1>7 DEF Panics
<1>10. /\ st'[TASK_FS] = st[TASK_FS]
       /\ st'[TASK_MM] = st[TASK_MM] \/ (st'[TASK_MM] = Run /\ mmPc = "dispatch")
       /\ \A q \in User : q # p => st'[q] = st[q] /\ box'[q] = box[q]
       /\ box'[TASK_FS] = box[TASK_FS]
       /\ st'[TASK_MM] = st[TASK_MM] => box'[TASK_MM] = box[TASK_MM]
  BY <1>2, <1>7, DoingFacts, ProcFacts DEF Panics, Delivers, Waits, IInv, LifeTypeOK
<1>11. DescriptorsOK'
  BY <1>3, <1>10, DescriptorsFrame DEF IInv, Unheard, ExitHeard
<1>12. AnswerArrived'
  BY <1>3, <1>6, <1>10, ProcFacts, DoingFacts DEF IInv, AnswersOK, AnswerArrived, Runnable, RV!Running
<1>13. mmPc \in BeforeReply \cup AfterExit => src # p \/ mmPc = "exec_reply"
  BY <1>2, DoingFacts DEF IInv, CallsOK, LocalsOK, DueOK, Owed, Expecting, ExecEarly, BeforeReply, AfterExit
<1>14. LocalsOK'
  <2>1. /\ mmPc = "wait_store" => p # src /\ st'[src] = st[src]
        /\ mmPc = "fork_rest" => p # src /\ p # child /\ pc'[src] = pc[src] /\ pc'[child] = pc[child]
    BY <1>2, <1>6, <1>10, NotReread, ProcFacts
       DEF IInv, LocalsOK, Handling, ForkPc, WaitPc, ExitPc, ExecPc
  <2>2. LocalsOK
    BY DEF IInv
  <2>3. Handling /\ mmPc \notin {"exec_reply", "wait_free"} => src # p /\ call'[src] = call[src]
    BY <1>6, <1>13, <2>2 DEF IInv, LifeTypeOK, MmPc, LocalsOK, Handling, BeforeReply, AfterExit
  <2> QED
    BY <1>1, <1>3, <2>1, <2>2, <2>3
       DEF LocalsOK, Handling, Zombies, Kids, ForkPc, WaitPc, ExitPc, ExecPc, AfterExit
<1>15. CASE Panics /\ mmPc = "loop" /\ msgtype = EXEC
  <2>1. NobodyHangs'
    BY <1>3, <1>15 DEF Panics, IInv, AnswersOK, NobodyHangs, AnswerDue, Newborn, RV!Blocked
  <2> QED
    BY <1>1, <1>3, <1>8, <1>11, <1>12, <1>14, <1>15, <2>1 DEF Panics, IInv, AnswersOK
<1>16. CASE Delivers(p, TASK_MM, m) /\ st[TASK_MM] = RecvOf(ANY) /\ mmPc = "dispatch"
  <2>1. /\ st'[TASK_MM] = Run /\ st'[p] = Run /\ box'[TASK_MM] = m /\ box'[p] = m /\ ~stopped'
    BY <1>2, <1>16 DEF Delivers, IInv, LifeTypeOK
  <2>2. ASSUME NEW q \in User PROVE ShapeOK(q)' /\ DueOK(q)'
    <3>1. ShapeOK(q) /\ DueOK(q) /\ ~Owed(q) /\ (~Owed(q)' \/ q = p)
      BY <1>2, <1>3, <1>5, <1>16, <2>1, DoingFacts DEF IInv, CallsOK, Owed, BeforeReply
    <3>2. CASE q = p
      BY <1>2, <1>3, <1>5, <1>6, <1>16, <2>1, <3>2, DoingFacts
         DEF IInv, CallsOK, ShapeOK, DueOK, Owed, Expecting, ExecEarly, BeforeReply
    <3>3. CASE q # p
      <4>1. ~ExecEarly(q) /\ ~ExecEarly(q)'
        BY <1>3, <1>16 DEF ExecEarly
      <4> QED
        BY <1>2, <1>3, <1>6, <1>10, <1>16, <3>1, <3>3, <4>1, BystanderFrame
    <3> QED
      BY <3>2, <3>3
  <2>3. MmOK' /\ RequestTaken' /\ ReplyPending' /\ FsOK'
    BY <1>2, <1>3, <1>5, <1>6, <1>10, <1>16, <2>1, DoingFacts
       DEF IInv, CallsOK, MmOK, RequestTaken, ReplyPending, FsOK, FsIdle, AsksPc, HearsPc
  <2> QED
    BY <1>1, <1>8, <1>11, <1>12, <1>14, <2>1, <2>2, <2>3, Assembled DEF CallsOK
<1>17. CASE Waits(p, TASK_MM, m) /\ st[TASK_MM] \notin {RecvOf(ANY), SendTo(p)}
  <2>1. /\ st'[TASK_MM] = st[TASK_MM] /\ box'[TASK_MM] = box[TASK_MM]
        /\ st'[p] = SendTo(TASK_MM) /\ box'[p] = m /\ ~stopped'
    BY <1>2, <1>17 DEF Waits, IInv, LifeTypeOK
  <2>2. ASSUME NEW q \in User PROVE ShapeOK(q)' /\ DueOK(q)'
    <3>1. ShapeOK(q) /\ DueOK(q) /\ (Owed(q)' <=> Owed(q))
      BY <1>2, <1>3, <2>1 DEF IInv, CallsOK, Owed
    <3>2. CASE q = p
      <4>1. Owed(q) => ExecEarly(q) /\ mmPc = "exec_reply"
        BY <1>2, <1>17, <3>1, <3>2, DoingFacts DEF DueOK, Expecting, ExecEarly
      <4>2. Owed(q)' => ExecEarly(q)'
        BY <1>3, <1>6, <2>1, <3>1, <3>2, <4>1 DEF ExecEarly
      <4>3. ~Expecting(q)'
        BY <1>6, <2>1, <3>2, DoingFacts DEF Expecting
      <4>4. ShapeOK(q)'
        BY <1>2, <1>3, <1>5, <1>6, <2>1, <3>2, DoingFacts DEF ShapeOK
      <4>5. /\ ~(q = src /\ mmPc \in {"exit_cleanup", "exit_free"})
            /\ ~(mmPc \in {"exit_cleanup", "orphan_cleanup"} /\ q = p_parent[child])
            /\ ~(mmPc \in {"fork_fs", "fork_fsrecv", "fork_birth", "fork_mem"} /\ q = child)
        BY <1>13, <3>2, <4>1 DEF Owed, BeforeReply, AfterExit
      <4>6. q = src /\ mmPc = "exec_reply" => ExecEarly(q)'
        BY <3>1, <4>2 DEF Owed, BeforeReply
      <4> QED
        BY <1>2, <1>3, <3>2, <4>2, <4>3, <4>4, <4>5, <4>6 DEF DueOK, WAITING, HANGING
    <3>3. CASE q # p
      <4>1. ExecEarly(q)' <=> ExecEarly(q)
        BY <1>3, <1>6, <1>10, <2>1, <3>3 DEF ExecEarly
      <4> QED
        BY <1>2, <1>3, <1>6, <1>10, <3>1, <3>3, <4>1, BystanderFrame
    <3> QED
      BY <3>2, <3>3
  <2>3. MmOK'
    <3>1. MmOK /\ (mmPc = "fork_reply" => child \in User)
      BY <1>2, ProcFacts DEF IInv, CallsOK, LocalsOK
    <3>2. \A q \in User : st[TASK_MM] = SendTo(q) => pc'[q] = pc[q] /\ call'[q] = call[q]
      BY <1>6, <1>17
    <3> QED
      BY <1>3, <2>1, <3>1, <3>2 DEF MmOK
  <2>4. RequestTaken'
    <3>1. mmPc = "dispatch" => ~Owed(p)
      BY <1>2, DoingFacts DEF IInv, CallsOK, DueOK, Expecting, ExecEarly
    <3>2. mmPc = "dispatch" /\ st[TASK_MM] = Run => box[TASK_MM].source # p
      BY <3>1 DEF Owed
    <3> QED
      BY <1>3, <1>6, <2>1, <3>2 DEF IInv, CallsOK, RequestTaken
  <2>5. ReplyPending'
    BY <1>2, <1>10, <1>17, <2>1, DoingFacts DEF IInv, CallsOK, ReplyPending
  <2>6. FsOK'
    BY <1>2, <1>3, <1>10, <2>1 DEF IInv, CallsOK, FsOK, FsIdle, FsAsked, Asks, Request
  <2> QED
    BY <1>1, <1>8, <1>11, <1>12, <1>14, <2>1, <2>2, <2>3, <2>4, <2>5, <2>6, Assembled DEF CallsOK
<1> QED
  BY <1>7, <1>15, <1>16, <1>17

LEMMA AwaitingIInv ==
  ASSUME IInv, NEW p \in User, Awaiting(p), ~crossed'
  PROVE  IInv'
<1>1. /\ Runs(p) /\ pc[p] = "sent" /\ ~stopped /\ marks[p] = {} /\ st[p] = Run
      /\ p \in Proc /\ p # TASK_MM /\ p # TASK_FS /\ TASK_MM \in Proc /\ TASK_FS \in Proc
      /\ ~Rereads(p) /\ ~crossed /\ CallsOK
  BY RunsFacts, ProcFacts DEF Awaiting, IInv, LifeTypeOK
<1>2. UNCHANGED <<call, forks, marks, p_parent, space, filp, fd_cnt, mmPc, msgtype, src, child,
                  reg, fsAt, crossed>>
  BY <1>1 DEF Awaiting, table, mmVars, locals, IInv, LifeTypeOK
<1>3. /\ UNCHANGED <<pend, stopped>>
      /\ \/ /\ st[TASK_MM] = SendTo(p)
            /\ box' = [box EXCEPT ![p] = box[TASK_MM]]
            /\ st' = [st EXCEPT ![TASK_MM] = Run]
         \/ /\ st[TASK_MM] # SendTo(p)
            /\ box' = [box EXCEPT ![p].source = p]
            /\ st' = [st EXCEPT ![p] = RecvOf(TASK_MM)]
  BY <1>1, AwaitingOutcome DEF Awaiting
<1>4. (\A x \in User : x # p => pc'[x] = pc[x]) /\ pc'[p] = "answer"
  BY <1>1, ProcFacts DEF IInv, LifeTypeOK, Awaiting
<1>5. LifeTypeOK'
  <2>1. pc' \in [Proc -> {"program", "sent", "answer", "spin"}]
    BY <1>1 DEF IInv, LifeTypeOK, Awaiting
  <2>2. /\ st' \in [Proc -> Doings] /\ box' \in [Proc -> Messages]
        /\ pend' = [x \in Proc |-> FALSE] /\ stopped' \in BOOLEAN
    BY <1>1, <1>3, ReceiveTypes DEF IInv
  <2> QED
    BY <1>2, <2>1, <2>2 DEF IInv, LifeTypeOK, Messages
<1>6. FamilyExact' /\ MarksOK' /\ MemoryOK'
  BY <1>2, FamilyFrame, MarksFrame, MemoryFrame DEF IInv, Dying
<1>7. LocalsOK'
  <2>1. /\ mmPc = "wait_store" => p # src /\ st'[src] = st[src]
        /\ mmPc = "fork_rest" => p # src /\ p # child /\ pc'[src] = pc[src] /\ pc'[child] = pc[child]
    BY <1>1, <1>3, <1>4, NotReread, ProcFacts DEF IInv, LifeTypeOK, LocalsOK, Handling
  <2>2. LocalsOK
    BY DEF IInv
  <2> QED
    BY <1>2, <2>1, <2>2 DEF LocalsOK, Handling, Zombies, Kids
<1>9. CASE st[TASK_MM] = SendTo(p)
  <2>1. /\ st'[TASK_MM] = Run /\ box'[p] = box[TASK_MM] /\ st'[p] = Run
        /\ st'[TASK_FS] = st[TASK_FS] /\ box'[TASK_FS] = box[TASK_FS]
        /\ \A q \in User : q # p => st'[q] = st[q] /\ box'[q] = box[q]
    BY <1>1, <1>3, <1>9, DoingFacts, ProcFacts DEF IInv, LifeTypeOK
  <2>2. /\ mmPc \in {"fork_reply", "loop", "exit_free", "orphan_free", "wait_free"}
        /\ mmPc = "fork_reply" => p # src
        /\ mmPc = "exit_free" => p # src
        /\ box[TASK_MM].source = TASK_MM /\ call[p] # EXIT
    <3>1. MmOK /\ LocalsOK /\ MarksOK
      BY <1>1 DEF IInv, CallsOK
    <3>2. p # NO_TASK
      BY <1>1, ProcFacts
    <3> QED
      BY <1>1, <1>9, <3>1, <3>2, ProcFacts, DoingFacts
         DEF MmOK, LocalsOK, MarksOK, FORK, WAIT, EXIT, EXEC
  <2>3. DescriptorsOK'
    BY <1>2, <2>1, <2>2, DescriptorsFrame DEF IInv, Unheard, ExitHeard
  <2>4. AnswerArrived'
    BY <1>2, <1>4, <2>1, <2>2, ProcFacts
       DEF IInv, AnswersOK, AnswerArrived, Runnable, RV!Running
  <2>5. ASSUME NEW q \in User PROVE ShapeOK(q)' /\ DueOK(q)'
    <3>1. ShapeOK(q) /\ DueOK(q)
      BY <1>1 DEF CallsOK
    <3>2. CASE q = p
      <4>1. ~Owed(q)' /\ ~Expecting(q)' /\ ~ExecEarly(q)'
        BY <1>2, <1>4, <1>9, <2>1, <2>2, <3>2, DoingFacts DEF Owed, Expecting, ExecEarly, BeforeReply
      <4>2. ShapeOK(q)'
        BY <1>1, <1>2, <1>4, <2>1, <3>2, DoingFacts DEF ShapeOK
      <4>3. DueOK(q)'
        BY <1>1, <1>2, <2>2, <3>2, <4>1 DEF DueOK
      <4> QED
        BY <4>2, <4>3
    <3>3. CASE q # p
      <4>1. (ExecEarly(q)' <=> ExecEarly(q)) /\ (Owed(q)' <=> Owed(q))
        BY <1>2, <1>4, <1>9, <2>1, <2>2, <3>3, DoingFacts DEF ExecEarly, Owed
      <4> QED
        BY <1>1, <1>2, <1>4, <2>1, <3>1, <3>3, <4>1, BystanderFrame
    <3> QED
      BY <3>2, <3>3
  <2>6. MmOK' /\ RequestTaken' /\ ReplyPending'
    BY <1>2, <2>1, <2>2, DoingFacts DEF MmOK, RequestTaken, ReplyPending
  <2>7. FsOK'
    BY <1>1, <1>2, <2>1, <2>2 DEF CallsOK, FsOK, FsIdle, AsksPc, HearsPc
  <2> QED
    BY <1>1, <1>3, <1>5, <1>6, <1>7, <2>3, <2>4, <2>5, <2>6, <2>7, Assembled DEF CallsOK
<1>10. CASE st[TASK_MM] # SendTo(p)
  <2>1. /\ st'[TASK_MM] = st[TASK_MM] /\ box'[TASK_MM] = box[TASK_MM]
        /\ st'[p] = RecvOf(TASK_MM) /\ box'[p].source = p
        /\ st'[TASK_FS] = st[TASK_FS] /\ box'[TASK_FS] = box[TASK_FS]
        /\ \A q \in User : q # p => st'[q] = st[q] /\ box'[q] = box[q]
    BY <1>1, <1>3, <1>10, ProcFacts DEF IInv, LifeTypeOK
  <2>3. DescriptorsOK'
    BY <1>2, <2>1, DescriptorsFrame DEF IInv, Unheard, ExitHeard
  <2>4. AnswerArrived'
    BY <1>2, <1>4, <2>1, ProcFacts, DoingFacts
       DEF IInv, AnswersOK, AnswerArrived, Runnable, RV!Running
  <2>5. ASSUME NEW q \in User PROVE ShapeOK(q)' /\ DueOK(q)'
    <3>1. ShapeOK(q) /\ DueOK(q) /\ (Owed(q)' <=> Owed(q))
      BY <1>1, <1>2, <2>1 DEF CallsOK, Owed
    <3>2. CASE q = p
      <4>1. Expecting(q) /\ Expecting(q)' /\ ~ExecEarly(q)
        BY <1>1, <1>4, <2>1, <1>10, <3>2, DoingFacts DEF Expecting, ExecEarly
      <4>2. ShapeOK(q)'
        BY <1>1, <1>2, <1>4, <2>1, <3>2, DoingFacts DEF ShapeOK
      <4>3. DueOK(q)'
        BY <1>1, <1>2, <2>1, <3>1, <3>2, <4>1 DEF DueOK
      <4> QED
        BY <4>2, <4>3
    <3>3. CASE q # p
      <4>1. ExecEarly(q)' <=> ExecEarly(q)
        BY <1>2, <1>4, <2>1, <3>3 DEF ExecEarly
      <4> QED
        BY <1>1, <1>2, <1>4, <2>1, <3>1, <3>3, <4>1, BystanderFrame
    <3> QED
      BY <3>2, <3>3
  <2>6. MmOK'
    <3>1. MmOK /\ (mmPc = "fork_reply" => child \in User)
      BY <1>1, ProcFacts DEF IInv, CallsOK, LocalsOK
    <3>2. \A q \in User : st[TASK_MM] = SendTo(q) => pc'[q] = pc[q]
      BY <1>4, <1>10
    <3> QED
      BY <1>2, <2>1, <3>1, <3>2 DEF MmOK
  <2>7. RequestTaken' /\ ReplyPending'
    BY <1>1, <1>2, <1>10, <2>1 DEF CallsOK, RequestTaken, ReplyPending
  <2>8. FsOK'
    BY <1>1, <1>2, <2>1 DEF CallsOK, FsOK, FsIdle, FsAsked, Asks, Request
  <2> QED
    BY <1>1, <1>3, <1>5, <1>6, <1>7, <2>3, <2>4, <2>5, <2>6, <2>7, <2>8, Assembled DEF CallsOK
<1> QED
  BY <1>9, <1>10

LEMMA ReturningIInv ==
  ASSUME IInv, NEW p \in User, Returning(p)
  PROVE  IInv'
<1>1. /\ Runs(p) /\ pc[p] = "answer" /\ ~stopped /\ marks[p] = {} /\ st[p] = Run
      /\ p \in Proc /\ p # TASK_MM /\ p # TASK_FS /\ TASK_MM \in Proc
      /\ ~Rereads(p) /\ CallsOK
  BY RunsFacts, ProcFacts, OutsideWindow DEF Returning, IInv
<1>2. UNCHANGED <<st, box, pend, stopped, call, forks, marks, p_parent, space, filp, fd_cnt,
                  mmPc, msgtype, src, child, reg, fsAt, crossed>>
  BY DEF Returning, ipc, table, mmVars, locals
<1>3. (\A x \in User : x # p => pc'[x] = pc[x]) /\ pc'[p] \in {"program", "spin"}
  BY <1>1, ProcFacts DEF IInv, LifeTypeOK, Returning
<1>4. LifeTypeOK'
  <2>1. pc' \in [Proc -> {"program", "sent", "answer", "spin"}]
    BY <1>1 DEF IInv, LifeTypeOK, Returning
  <2> QED
    BY <1>2, <2>1 DEF IInv, LifeTypeOK
<1>5. FamilyExact' /\ MarksOK' /\ MemoryOK'
  BY <1>2, FamilyFrame, MarksFrame, MemoryFrame DEF IInv, Dying
<1>6. LocalsOK'
  <2>1. mmPc = "fork_rest" => pc'[src] = pc[src] /\ pc'[child] = pc[child]
    BY <1>1, <1>3, NotReread, ProcFacts DEF IInv, LocalsOK, Handling
  <2>2. LocalsOK
    BY DEF IInv
  <2> QED
    BY <1>2, <2>1, <2>2 DEF LocalsOK, Handling, Zombies, Kids
<1>7. DescriptorsOK'
  BY <1>2, DescriptorsFrame DEF IInv, Unheard, ExitHeard
<1>8. AnswerArrived'
  BY <1>2, <1>3 DEF IInv, AnswersOK, AnswerArrived, Runnable, RV!Running
<1>9. ~Owed(p) /\ ~Expecting(p) /\ ~ExecEarly(p)
  BY <1>1, DoingFacts DEF CallsOK, DueOK, Expecting, ExecEarly
<1>10. ASSUME NEW q \in User PROVE ShapeOK(q)' /\ DueOK(q)'
  <2>1. ShapeOK(q) /\ DueOK(q) /\ (Owed(q)' <=> Owed(q))
    BY <1>1, <1>2 DEF CallsOK, Owed
  <2>2. CASE q = p
    <3>1. ~Owed(q)' /\ ~Expecting(q)'
      BY <1>3, <1>9, <2>1, <2>2 DEF Expecting
    <3>2. ShapeOK(q)'
      BY <1>1, <1>2, <1>3, <2>2, DoingFacts DEF ShapeOK
    <3>3. DueOK(q)'
      BY <1>1, <1>2, <1>9, <2>1, <2>2, <3>1 DEF DueOK
    <3> QED
      BY <3>2, <3>3
  <2>3. CASE q # p
    <3>1. ExecEarly(q)' <=> ExecEarly(q)
      BY <1>2, <1>3, <2>3 DEF ExecEarly
    <3> QED
      BY <1>1, <1>2, <1>3, <2>1, <2>3, <3>1, BystanderFrame
  <2> QED
    BY <2>2, <2>3
<1>11. MmOK'
  <2>1. MmOK /\ st[TASK_MM] # SendTo(p)
    BY <1>1, <1>9 DEF CallsOK, Owed
  <2> QED
    BY <1>2, <1>3, <2>1 DEF MmOK
<1>12. RequestTaken' /\ ReplyPending' /\ FsOK'
  BY <1>1, <1>2 DEF CallsOK, RequestTaken, ReplyPending, FsOK, FsIdle, FsAsked, Asks, Request
<1> QED
  BY <1>1, <1>2, <1>4, <1>5, <1>6, <1>7, <1>8, <1>10, <1>11, <1>12, Assembled DEF CallsOK

-----------------------------------------------------------------------------
(***************************************************************************)
(* Task FS.                                                                *)
(***************************************************************************)

\* The user processes do not notice what MM and FS say to each other.
LEMMA UsersUnaware ==
  ASSUME LifeTypeOK, CallsOK, UNCHANGED <<marks, p_parent, pc, call, mmPc, msgtype, src, child>>,
         mmPc \notin {"loop", "dispatch"},
         \A q \in User : /\ st'[q] = st[q] /\ box'[q] = box[q]
                         /\ st[TASK_MM] # SendTo(q) /\ st'[TASK_MM] # SendTo(q)
  PROVE  \A q \in User : ShapeOK(q)' /\ DueOK(q)'
<1> SUFFICES ASSUME NEW q \in User PROVE ShapeOK(q)' /\ DueOK(q)'
  OBVIOUS
<1>1. ShapeOK(q) /\ DueOK(q)
  BY DEF CallsOK
<1>2. (ExecEarly(q)' <=> ExecEarly(q)) /\ (Owed(q)' <=> Owed(q))
  BY DEF ExecEarly, Owed
<1> QED
  BY <1>1, <1>2, BystanderFrame

LEMMA FsReceivesIInv ==
  ASSUME IInv, FsReceives
  PROVE  IInv'
<1>1. /\ Runs(TASK_FS) /\ fsAt = "loop" /\ ~stopped /\ st[TASK_FS] = Run
      /\ TASK_FS # TASK_MM /\ TASK_MM \in Proc /\ TASK_FS \in Proc /\ CallsOK
  BY RunsFacts, ProcFacts DEF FsReceives, IInv
<1>2. /\ UNCHANGED <<pc, call, forks, marks, p_parent, space, filp, fd_cnt, mmPc, msgtype, src,
                     child, reg, crossed>>
      /\ fsAt' = "serve"
  BY DEF FsReceives, mem, table, mmVars, locals
<1>3. /\ UNCHANGED <<pend, stopped>>
      /\ \/ /\ st[TASK_MM] = SendTo(TASK_FS)
            /\ box' = [box EXCEPT ![TASK_FS] = box[TASK_MM]]
            /\ st' = [st EXCEPT ![TASK_MM] = Run]
         \/ /\ st[TASK_MM] # SendTo(TASK_FS)
            /\ box' = [box EXCEPT ![TASK_FS].source = TASK_FS]
            /\ st' = [st EXCEPT ![TASK_FS] = RecvOf(ANY)]
  BY <1>1, FsTakingOutcome DEF FsReceives
<1>4. LifeTypeOK'
  <2>1. /\ st' \in [Proc -> Doings] /\ box' \in [Proc -> Messages]
        /\ pend' = [x \in Proc |-> FALSE] /\ stopped' \in BOOLEAN
    BY <1>1, <1>3, ReceiveTypes DEF IInv
  <2> QED
    BY <1>2, <2>1 DEF IInv, LifeTypeOK, Messages
<1>5. FamilyExact' /\ MarksOK' /\ MemoryOK'
  BY <1>2, FamilyFrame, MarksFrame, MemoryFrame DEF IInv, Dying
<1>6. /\ \A q \in User : st'[q] = st[q] /\ box'[q] = box[q]
      /\ \/ /\ st[TASK_MM] = SendTo(TASK_FS) /\ box'[TASK_FS] = box[TASK_MM]
            /\ st'[TASK_MM] = Run /\ st'[TASK_FS] = Run
         \/ /\ st[TASK_MM] # SendTo(TASK_FS) /\ st'[TASK_FS] = RecvOf(ANY)
            /\ st'[TASK_MM] = st[TASK_MM] /\ box'[TASK_MM] = box[TASK_MM]
  BY <1>1, <1>3, ProcFacts DEF IInv, LifeTypeOK
<1>7. LocalsOK'
  <2>1. mmPc = "wait_store" => st'[src] = st[src]
    BY <1>6 DEF IInv, LocalsOK, Handling
  <2>2. Zombies(Kids(src))' = Zombies(Kids(src))
    BY <1>2 DEF Zombies, Kids
  <2> QED
    BY <1>2, <2>1, <2>2 DEF IInv, LocalsOK, Handling
<1>8. AnswerArrived'
  BY <1>2, <1>6 DEF IInv, AnswersOK, AnswerArrived, Runnable, RV!Running
<1>9. CASE st[TASK_MM] = SendTo(TASK_FS)
  <2>1. mmPc \in AsksPc /\ Asks(box[TASK_MM]) /\ st[TASK_FS] = Run
    BY <1>1, <1>9, FsCalledOutcome
  <2>2. DescriptorsOK'
    BY <1>2, <1>6, <1>9, <2>1, DoingFacts, DescriptorsFrame
       DEF IInv, Unheard, ExitHeard, AsksPc, AfterExit
  <2>3. \A q \in User : ShapeOK(q)' /\ DueOK(q)'
    <3>1. \A q \in User : st[TASK_MM] # SendTo(q) /\ st'[TASK_MM] # SendTo(q)
      BY <1>6, <1>9, ProcFacts, DoingFacts
    <3> QED
      BY <1>1, <1>2, <1>6, <2>1, <3>1, UsersUnaware DEF AsksPc, IInv
  <2>4. MmOK' /\ RequestTaken' /\ ReplyPending'
    BY <1>2, <1>6, <1>9, <2>1, DoingFacts DEF MmOK, RequestTaken, ReplyPending, AsksPc
  <2>5. FsOK'
    BY <1>2, <1>6, <1>9, <2>1, DoingFacts DEF FsOK, FsAsked, Asks, Request, AsksPc, HearsPc
  <2> QED
    BY <1>1, <1>3, <1>4, <1>5, <1>7, <1>8, <2>2, <2>3, <2>4, <2>5, Assembled DEF CallsOK
<1>10. CASE st[TASK_MM] # SendTo(TASK_FS)
  <2>1. /\ mmPc \notin AsksPc /\ st[TASK_MM] # RecvOf(TASK_FS)
    <3>1. mmPc \notin AsksPc
      BY <1>1, <1>10, DoingFacts DEF CallsOK, FsOK, FsAsked
    <3>2. mmPc \in HearsPc => st[TASK_MM] # RecvOf(TASK_FS)
      BY <1>1, DoingFacts DEF CallsOK, FsOK, FsAsked
    <3>3. TASK_FS # ANY
      BY ProcFacts
    <3> QED
      BY <1>1, <3>1, <3>2, <3>3, DoingFacts DEF CallsOK, MmOK
  <2>2. DescriptorsOK'
    BY <1>2, <1>6, <1>10, <2>1, DoingFacts, DescriptorsFrame
       DEF IInv, Unheard, ExitHeard, AsksPc
  <2>3. ASSUME NEW q \in User PROVE ShapeOK(q)' /\ DueOK(q)'
    <3>1. ShapeOK(q) /\ DueOK(q)
      BY <1>1 DEF CallsOK
    <3>2. /\ ExecEarly(q)' <=> ExecEarly(q)
          /\ Owed(q)' <=> Owed(q)
          /\ Expecting(q)' <=> Expecting(q)
      BY <1>2, <1>6, <1>10 DEF ExecEarly, Owed, Expecting
    <3>3. mmPc = "fork_mem" => st'[src] = st[src]
      BY <1>6 DEF IInv, LocalsOK, Handling
    <3>4. ShapeOK(q)'
      BY <1>2, <1>6, <3>1, <3>2 DEF ShapeOK
    <3>5. DueOK(q)'
      BY <1>2, <1>6, <3>1, <3>2, <3>3 DEF DueOK
    <3> QED
      BY <3>4, <3>5
  <2>4. MmOK' /\ RequestTaken' /\ ReplyPending'
    BY <1>1, <1>2, <1>6, <1>10 DEF CallsOK, MmOK, RequestTaken, ReplyPending
  <2>5. FsOK'
    BY <1>1, <1>2, <1>6, <1>10, <2>1, DoingFacts DEF CallsOK, FsOK, FsIdle
  <2> QED
    BY <1>1, <1>3, <1>4, <1>5, <1>7, <1>8, <2>2, <2>3, <2>4, <2>5, Assembled DEF CallsOK
<1> QED
  BY <1>9, <1>10

\* fs_fork() counts one more holder, fs_exit() one less.
LEMMA CountedFinite ==
  /\ IsFiniteSet(Counted)
  /\ \A p : p \notin Counted => Cardinality(Counted \cup {p}) = Cardinality(Counted) + 1
  /\ \A p : p \in Counted => Cardinality(Counted \ {p}) = Cardinality(Counted) - 1
<1>1. Counted \subseteq Proc
  BY DEF Counted
<1>2. IsFiniteSet(Counted)
  BY <1>1, ProcFinite, FS_Subset
<1> QED
  BY <1>2, FS_AddElement, FS_RemoveElement

LEMMA FsServesCounts ==
  ASSUME IInv, ~stopped, FsServes, Asks(box[TASK_FS]), mmPc \in AsksPc \cup HearsPc,
         fsAt = "serve", mmPc \in HearsPc => st[TASK_MM] = RecvOf(TASK_FS),
         ~Unheard', mmPc \in AsksPc => st[TASK_FS] = Run
  PROVE  DescriptorsOK' /\ filp' \in [Proc -> BOOLEAN] /\ fd_cnt' \in Nat
<1>1. /\ DescriptorsOK /\ filp \in [Proc -> BOOLEAN] /\ fd_cnt \in Nat
      /\ UNCHANGED <<marks, mmPc, src, child>> /\ LocalsOK /\ MarksOK
  BY DEF IInv, LifeTypeOK, FsServes, mmVars, locals
<1>2. /\ box[TASK_FS].type = msgtype /\ box[TASK_FS].PID = Request
      /\ mmPc \in ForkPc \cup ExitPc \cup ExecPc /\ src \in User
  BY <1>1 DEF Asks, AsksPc, HearsPc, ForkPc, ExitPc, ExecPc, LocalsOK, Handling
<1>3. Counted' = {p \in Proc : filp'[p]}
  BY DEF Counted
<1>4. fd_cnt = Cardinality(Counted)
  BY <1>1 DEF DescriptorsOK
<1>5. CASE mmPc \in ForkPc
  <2>1. msgtype = FORK /\ Unheard /\ child \in User /\ child \in Proc /\ ~ExitHeard'
    BY <1>1, <1>5, ProcFacts
       DEF LocalsOK, Unheard, ExitHeard, AsksPc, HearsPc, ForkPc, AfterExit
  <2>2. FsFork(child)
    BY <1>2, <2>1 DEF FsServes, Request, FORK, EXIT
  <2>3. filp' = filp /\ fd_cnt' = IF filp[child] THEN fd_cnt + 1 ELSE fd_cnt
    BY <2>2 DEF FsFork
  <2>4. child \notin Counted /\ Counted' = IF filp[child] THEN Counted \cup {child} ELSE Counted
    BY <1>3, <2>1, <2>3 DEF Counted
  <2>5. fd_cnt' = Cardinality(Counted')
    BY <1>4, <2>3, <2>4, CountedFinite
  <2> QED
    BY <1>1, <2>1, <2>3, <2>5 DEF DescriptorsOK
<1>6. CASE mmPc \in ExitPc
  <2>1. msgtype = EXIT /\ ~Unheard /\ src \in Proc
    BY <1>1, <1>2, <1>6, ProcFacts DEF LocalsOK, Unheard, ExitPc, AfterExit
  <2>2. FsExit(src)
    BY <1>2, <2>1 DEF FsServes, Request, EXIT, FORK
  <2>3. /\ filp' = [filp EXCEPT ![src] = FALSE]
        /\ fd_cnt' = IF filp[src] THEN fd_cnt - 1 ELSE fd_cnt
    BY <2>2 DEF FsExit
  <2>4. (src \in Counted <=> filp[src]) /\ Counted' = Counted \ {src}
    BY <1>1, <1>3, <2>1, <2>3 DEF Counted
  <2>5. filp' \in [Proc -> BOOLEAN] /\ fd_cnt' = Cardinality(Counted')
    <3>1. CASE filp[src]
      BY <1>1, <1>4, <2>3, <2>4, <3>1, CountedFinite
    <3>2. CASE ~filp[src]
      <4>1. Counted' = Counted
        BY <2>4, <3>2
      <4> QED
        BY <1>1, <1>4, <2>3, <3>2, <4>1
    <3> QED
      BY <3>1, <3>2
  <2>6. fd_cnt' \in Nat
    <3>1. Counted' \subseteq Proc
      BY <1>3
    <3>2. IsFiniteSet(Counted')
      BY <3>1, ProcFinite, FS_Subset
    <3> QED
      BY <2>5, <3>2, FS_CardinalityType
  <2> QED
    BY <1>1, <2>1, <2>3, <2>5, <2>6, ProcFacts DEF DescriptorsOK
<1>7. CASE mmPc \in ExecPc
  <2>1. msgtype = EXEC /\ ~Unheard /\ ~ExitHeard'
    BY <1>1, <1>7 DEF LocalsOK, Unheard, ExitHeard, ExecPc, AfterExit
  <2>2. UNCHANGED <<fd_cnt, filp>>
    BY <1>2, <2>1 DEF FsServes, EXEC, EXIT, FORK
  <2>3. Counted' = Counted
    BY <1>3, <2>1, <2>2 DEF Counted
  <2> QED
    BY <1>1, <2>1, <2>2, <2>3 DEF DescriptorsOK
<1> QED
  BY <1>2, <1>5, <1>6, <1>7

LEMMA FsServesIInv ==
  ASSUME IInv, FsServes
  PROVE  IInv'
<1>1. /\ Runs(TASK_FS) /\ fsAt = "serve" /\ ~stopped /\ st[TASK_FS] = Run
      /\ TASK_FS # TASK_MM /\ TASK_MM \in Proc /\ TASK_FS \in Proc /\ CallsOK /\ LifeTypeOK
  BY RunsFacts, ProcFacts DEF FsServes, IInv
<1>2. /\ UNCHANGED <<pc, call, forks, marks, p_parent, space, mmPc, msgtype, src, child, reg,
                     crossed>>
      /\ fsAt' = "loop"
  BY DEF FsServes, mem, mmVars, locals
<1> DEFINE m == Message(TASK_FS, SYSCALL_RET, box[TASK_FS].PID, 0)
<1>3. RV!Send(TASK_FS, box[TASK_FS].source, m)
  BY DEF FsServes
<1>4. m \in Messages
  BY <1>1, MessageType DEF LifeTypeOK
<1> HIDE DEF m
<1>5. /\ Asks(box[TASK_FS])
      /\ \/ /\ Delivers(TASK_FS, TASK_MM, m)
            /\ st[TASK_MM] = RecvOf(TASK_FS) /\ mmPc \in HearsPc
         \/ /\ Waits(TASK_FS, TASK_MM, m)
            /\ st[TASK_MM] = Run /\ mmPc \in AsksPc
  BY <1>1, <1>3, FsServingOutcome
<1>6. /\ \A q \in User : st'[q] = st[q] /\ box'[q] = box[q]
      /\ st'[TASK_MM] = Run
      /\ \/ mmPc \in HearsPc /\ st[TASK_MM] = RecvOf(TASK_FS) /\ st'[TASK_FS] = Run
         \/ mmPc \in AsksPc /\ st[TASK_MM] = Run /\ st'[TASK_FS] = SendTo(TASK_MM)
      /\ ~stopped'
  BY <1>1, <1>5, ProcFacts DEF LifeTypeOK, Delivers, Waits
<1>7. ~Unheard'
  BY <1>2, <1>6, DoingFacts DEF Unheard, AsksPc, HearsPc
<1>8. DescriptorsOK' /\ filp' \in [Proc -> BOOLEAN] /\ fd_cnt' \in Nat
  <2>1. /\ mmPc \in AsksPc \cup HearsPc
        /\ mmPc \in HearsPc => st[TASK_MM] = RecvOf(TASK_FS)
    BY <1>6 DEF AsksPc, HearsPc
  <2> QED
    BY <1>1, <1>5, <1>7, <2>1, FsServesCounts
<1>9. LifeTypeOK'
  <2>1. /\ st' \in [Proc -> Doings] /\ box' \in [Proc -> Messages]
        /\ pend' = [x \in Proc |-> FALSE] /\ stopped' \in BOOLEAN
    BY <1>1, <1>4, <1>5, SendTypes
  <2> QED
    BY <1>1, <1>2, <1>8, <2>1 DEF LifeTypeOK, Messages
<1>10. FamilyExact' /\ MarksOK' /\ MemoryOK'
  BY <1>2, FamilyFrame, MarksFrame, MemoryFrame DEF IInv, Dying
<1>11. LocalsOK'
  <2>1. mmPc # "wait_store"
    BY <1>6 DEF AsksPc, HearsPc
  <2> QED
    BY <1>2, <2>1 DEF IInv, LocalsOK, Handling
<1>12. AnswerArrived'
  BY <1>2, <1>6 DEF IInv, AnswersOK, AnswerArrived, Runnable, RV!Running
<1>13. \A q \in User : ShapeOK(q)' /\ DueOK(q)'
  <2>1. \A q \in User : st[TASK_MM] # SendTo(q) /\ st'[TASK_MM] # SendTo(q)
    BY <1>6, DoingFacts
  <2> QED
    BY <1>1, <1>2, <1>6, <2>1, UsersUnaware DEF AsksPc, HearsPc
<1>14. MmOK' /\ RequestTaken' /\ ReplyPending'
  BY <1>2, <1>6, DoingFacts DEF MmOK, RequestTaken, ReplyPending, AsksPc, HearsPc
<1>15. FsOK'
  BY <1>2, <1>6, DoingFacts DEF FsOK, FsIdle, AsksPc, HearsPc
<1> QED
  BY <1>6, <1>8, <1>9, <1>10, <1>11, <1>12, <1>13, <1>14, <1>15, Assembled DEF CallsOK

-----------------------------------------------------------------------------
(***************************************************************************)
(* Task MM.                                                                *)
(***************************************************************************)

\* The caller of exit() whose parent was waiting: it gets no answer.
Late(q) == q = src /\ mmPc \in {"exit_cleanup", "exit_free"}

LEMMA MmRuns ==
  ASSUME IInv, Runs(TASK_MM)
  PROVE  /\ ~stopped /\ st[TASK_MM] = Run /\ marks[TASK_MM] = {}
         /\ LifeTypeOK /\ MarksOK /\ LocalsOK /\ FamilyExact /\ MemoryOK /\ DescriptorsOK
         /\ AnswersOK /\ CallsOK /\ AnswerArrived
         /\ mmPc \notin AsksPc => FsIdle
         /\ \A q \in User : ShapeOK(q) /\ DueOK(q)
<1>1. ~stopped /\ st[TASK_MM] = Run /\ marks[TASK_MM] = {}
  BY RunsFacts, ProcFacts
<1>2. CallsOK
  BY <1>1 DEF IInv
<1>3. mmPc \notin AsksPc => FsIdle
  BY <1>1, <1>2, DoingFacts DEF CallsOK, FsOK
<1> QED
  BY <1>1, <1>2, <1>3 DEF IInv, CallsOK, AnswersOK

\* A step of MM alone: it runs on, and FS has not been asked anything.
LEMMA MmAlone ==
  ASSUME st'[TASK_MM] = Run, mmPc' \notin AsksPc, mmPc' # "dispatch",
         FsIdle, fsAt' = fsAt, st'[TASK_FS] = st[TASK_FS]
  PROVE  MmOK' /\ RequestTaken' /\ ReplyPending' /\ FsOK'
<1>1. FsIdle'
  BY DEF FsIdle
<1>2. \A x : Run # SendTo(x)
  BY DoingFacts
<1> QED
  BY <1>1, <1>2 DEF MmOK, RequestTaken, ReplyPending, FsOK

\* A user process that a step of MM does not touch.
LEMMA UserKept ==
  ASSUME NEW q \in User, ShapeOK(q), DueOK(q),
         st'[q] = st[q], pc'[q] = pc[q], call'[q] = call[q], box'[q] = box[q],
         marks'[q] = marks[q],
         Owed(q)' => Owed(q), Owed(q) \/ Late(q) => Owed(q)' \/ Late(q)',
         Late(q)' => Late(q), ExecEarly(q) => ExecEarly(q)',
         ~(mmPc = "fork_mem" /\ q = child), ~(mmPc' = "fork_mem" /\ q = child'),
         ~(mmPc' = "exec_reply" /\ q = src'),
         mmPc' \in {"exit_cleanup", "orphan_cleanup"} /\ q = p_parent'[child'] => call[q] = WAIT,
         mmPc' \in {"fork_fs", "fork_fsrecv", "fork_birth"} /\ q = child' => call[q] = FORK
  PROVE  ShapeOK(q)' /\ DueOK(q)'
<1>1. Expecting(q)' <=> Expecting(q)
  BY DEF Expecting
<1>2. ShapeOK(q)'
  BY DEF ShapeOK
<1>3. DueOK(q)'
  BY <1>1 DEF DueOK, Late
<1> QED
  BY <1>2, <1>3

LEMMA MmReceivesIInv ==
  ASSUME IInv, MmReceives
  PROVE  IInv'
<1>1. Runs(TASK_MM) /\ mmPc = "loop" /\ RV!Receive(TASK_MM, ANY)
  BY DEF MmReceives, At
<1>2. /\ ~stopped /\ st[TASK_MM] = Run /\ LifeTypeOK /\ MarksOK /\ LocalsOK /\ CallsOK
      /\ AnswerArrived /\ FsIdle /\ \A q \in User : ShapeOK(q) /\ DueOK(q)
  BY <1>1, MmRuns DEF AsksPc
<1>3. /\ UNCHANGED <<pc, call, forks, marks, p_parent, space, filp, fd_cnt, fsAt, crossed>>
      /\ mmPc' = "dispatch" /\ msgtype' = "none" /\ src' = TASK_MM /\ child' = TASK_MM
      /\ reg' = Run
  BY DEF MmReceives, MmGoto, KeepUsers, mem, table, Run
<1>4. /\ UNCHANGED <<pend, stopped>>
      /\ \/ \E s \in User : /\ st[s] = SendTo(TASK_MM)
                            /\ box' = [box EXCEPT ![TASK_MM] = box[s]]
                            /\ st' = [st EXCEPT ![s] = Run]
         \/ /\ box' = [box EXCEPT ![TASK_MM].source = TASK_MM]
            /\ st' = [st EXCEPT ![TASK_MM] = RecvOf(ANY)]
  BY <1>1, TakingOutcome
<1>5. LifeTypeOK'
  <2>1. /\ st' \in [Proc -> Doings] /\ box' \in [Proc -> Messages]
        /\ pend' = [x \in Proc |-> FALSE] /\ stopped' \in BOOLEAN
    BY <1>2, <1>4, ReceiveTypes, ProcFacts
  <2> QED
    BY <1>2, <1>3, <2>1, ProcFacts, DoingTypes DEF LifeTypeOK, Messages, MmPc
<1>6. FamilyExact' /\ MarksOK' /\ MemoryOK'
  BY <1>1, <1>3, FamilyFrame, MarksFrame, MemoryFrame DEF IInv, Dying
<1>7. DescriptorsOK'
  BY <1>1, <1>3, DescriptorsFrame DEF IInv, Unheard, ExitHeard, AfterExit
<1>8. LocalsOK'
  BY <1>2, <1>3 DEF LocalsOK, Handling, BeforeReply, ForkPc, ExitPc, WaitPc, ExecPc, AfterExit
<1>9. ASSUME NEW q \in User PROVE ~Owed(q) /\ ~Late(q) /\ ~ExecEarly(q)
  BY <1>1, <1>2, DoingFacts DEF Owed, Late, ExecEarly, BeforeReply
<1>10. CASE \E s \in User : /\ st[s] = SendTo(TASK_MM)
                            /\ box' = [box EXCEPT ![TASK_MM] = box[s]]
                            /\ st' = [st EXCEPT ![s] = Run]
  <2>1. PICK s \in User : /\ st[s] = SendTo(TASK_MM)
                          /\ box' = [box EXCEPT ![TASK_MM] = box[s]]
                          /\ st' = [st EXCEPT ![s] = Run]
    BY <1>10
  <2>2. /\ pc[s] = "sent" /\ box[s].source = s /\ box[s].type = call[s] /\ marks[s] = {}
    BY <1>2, <2>1, ProcFacts, DoingFacts DEF ShapeOK, LifeTypeOK
  <2>3. /\ st'[s] = Run /\ box'[TASK_MM] = box[s] /\ st'[TASK_MM] = Run
        /\ st'[TASK_FS] = st[TASK_FS]
        /\ \A q \in User : box'[q] = box[q] /\ (q # s => st'[q] = st[q])
    BY <1>2, <2>1, ProcFacts DEF LifeTypeOK
  <2>4. AnswerArrived'
    BY <1>2, <1>3, <2>2, <2>3 DEF AnswerArrived, Runnable, RV!Running
  <2>5. ASSUME NEW q \in User PROVE ShapeOK(q)' /\ DueOK(q)'
    <3>1. CASE q = s
      BY <1>2, <1>3, <2>2, <2>3, <3>1, DoingFacts
         DEF ShapeOK, DueOK, Owed, Expecting
    <3>2. CASE q # s
      <4>1. ~Owed(q)' /\ ~Late(q)'
        BY <1>3, <2>2, <2>3, <3>2, DoingFacts DEF Owed, Late, BeforeReply
      <4> QED
        BY <1>1, <1>2, <1>3, <1>9, <2>3, <3>2, <4>1, UserKept
    <3> QED
      BY <3>1, <3>2
  <2>6. MmOK' /\ RequestTaken' /\ ReplyPending'
    BY <1>3, <2>2, <2>3, DoingFacts DEF MmOK, RequestTaken, ReplyPending
  <2>7. FsOK'
    BY <1>2, <1>3, <2>3 DEF FsOK, FsIdle, AsksPc, HearsPc
  <2> QED
    BY <1>2, <1>4, <1>5, <1>6, <1>7, <1>8, <2>4, <2>5, <2>6, <2>7, Assembled DEF CallsOK
<1>11. CASE /\ box' = [box EXCEPT ![TASK_MM].source = TASK_MM]
            /\ st' = [st EXCEPT ![TASK_MM] = RecvOf(ANY)]
  <2>1. /\ st'[TASK_MM] = RecvOf(ANY) /\ st'[TASK_FS] = st[TASK_FS]
        /\ \A q \in User : box'[q] = box[q] /\ st'[q] = st[q]
    BY <1>2, <1>11, ProcFacts DEF LifeTypeOK
  <2>2. AnswerArrived'
    BY <1>2, <1>3, <2>1 DEF AnswerArrived, Runnable, RV!Running
  <2>3. ASSUME NEW q \in User PROVE ShapeOK(q)' /\ DueOK(q)'
    <3>1. ~Owed(q)' /\ ~Late(q)'
      BY <1>3, <2>1, DoingFacts DEF Owed, Late, BeforeReply
    <3> QED
      BY <1>1, <1>2, <1>3, <1>9, <2>1, <3>1, UserKept
  <2>4. MmOK' /\ RequestTaken' /\ ReplyPending'
    BY <1>3, <2>1, DoingFacts DEF MmOK, RequestTaken, ReplyPending
  <2>5. FsOK'
    BY <1>2, <1>3, <2>1 DEF FsOK, FsIdle, AsksPc, HearsPc
  <2> QED
    BY <1>2, <1>4, <1>5, <1>6, <1>7, <1>8, <2>2, <2>3, <2>4, <2>5, Assembled DEF CallsOK
<1> QED
  BY <1>4, <1>10, <1>11

\* switch (msgtype): the request becomes the handler's.
LEMMA DispatchIInv ==
  ASSUME IInv, Dispatch
  PROVE  IInv'
<1>1. Runs(TASK_MM) /\ mmPc = "dispatch"
  BY DEF Dispatch, At
<1>2. /\ ~stopped /\ st[TASK_MM] = Run /\ LifeTypeOK /\ MarksOK /\ LocalsOK /\ CallsOK
      /\ AnswerArrived /\ FsIdle /\ \A q \in User : ShapeOK(q) /\ DueOK(q)
  BY <1>1, MmRuns DEF AsksPc
<1>3. /\ UNCHANGED <<st, box, pend, stopped, pc, call, forks, marks, p_parent, space, filp, fd_cnt,
                     fsAt, crossed, child, reg>>
      /\ src' = box[TASK_MM].source /\ msgtype' = box[TASK_MM].type
  BY DEF Dispatch, KeepUsers, ipc, mem, table
<1>4. /\ src' \in User /\ src' \in Proc /\ msgtype' = call[src'] /\ msgtype' \in {FORK, EXIT, WAIT, EXEC}
  BY <1>1, <1>2, <1>3, ProcFacts DEF CallsOK, RequestTaken, LifeTypeOK
<1>5. \/ mmPc' = "fork_scan" /\ msgtype' = FORK
      \/ mmPc' = "exit_fs" /\ msgtype' = EXIT
      \/ mmPc' = "wait_scan" /\ msgtype' = WAIT
      \/ mmPc' = "exec_fs" /\ msgtype' = EXEC
  BY <1>4 DEF Dispatch, MmGoto, FORK, EXIT, WAIT, EXEC
<1>6. marks[src'] = {} /\ Expecting(src')
  <2>1. Owed(src')
    BY <1>1, <1>2, <1>3 DEF Owed
  <2> QED
    BY <1>1, <1>2, <1>4, <2>1 DEF DueOK, ExecEarly
<1>7. LifeTypeOK'
  BY <1>2, <1>3, <1>4, <1>5 DEF LifeTypeOK, MmPc
<1>8. FamilyExact' /\ MarksOK' /\ MemoryOK'
  BY <1>1, <1>3, FamilyFrame, MarksFrame, MemoryFrame DEF IInv, Dying
<1>9. DescriptorsOK'
  BY <1>1, <1>3, <1>5, DescriptorsFrame DEF IInv, Unheard, ExitHeard, AfterExit
<1>10. LocalsOK'
  BY <1>2, <1>3, <1>4, <1>5, <1>6
     DEF LocalsOK, Handling, BeforeReply, ForkPc, ExitPc, WaitPc, ExecPc, AfterExit
<1>11. AnswerArrived'
  BY <1>2, <1>3 DEF AnswerArrived, Runnable, RV!Running
<1>12. ASSUME NEW q \in User PROVE ShapeOK(q)' /\ DueOK(q)'
  <2>1. ~Late(q) /\ ~Late(q)' /\ ~ExecEarly(q) /\ (Owed(q)' <=> Owed(q))
    BY <1>1, <1>2, <1>3, <1>5, DoingFacts DEF Late, ExecEarly, Owed, BeforeReply
  <2> QED
    BY <1>1, <1>2, <1>3, <1>5, <2>1, UserKept
<1>13. MmOK' /\ RequestTaken' /\ ReplyPending' /\ FsOK'
  BY <1>2, <1>3, <1>5, MmAlone DEF AsksPc
<1> QED
  BY <1>2, <1>3, <1>7, <1>8, <1>9, <1>10, <1>11, <1>12, <1>13, Assembled DEF CallsOK

LEMMA ForkScanIInv ==
  ASSUME IInv, ForkScan
  PROVE  IInv'
<1>1. Runs(TASK_MM) /\ mmPc = "fork_scan"
  BY DEF ForkScan, At
<1>2. /\ ~stopped /\ st[TASK_MM] = Run /\ LifeTypeOK /\ MarksOK /\ LocalsOK /\ CallsOK
      /\ AnswerArrived /\ FsIdle /\ MemoryOK /\ \A q \in User : ShapeOK(q) /\ DueOK(q)
  BY <1>1, MmRuns DEF AsksPc
<1>3. UNCHANGED <<st, box, pend, stopped, call, forks, marks, p_parent, filp, fd_cnt, fsAt, crossed,
                  msgtype, src, reg>>
  BY DEF ForkScan, ipc
<1>4. /\ src \in User /\ src \in Proc /\ marks[src] = {} /\ msgtype = FORK /\ call[src] = FORK
      /\ Expecting(src)
  <2>1. src \in User /\ marks[src] = {} /\ msgtype = FORK /\ call[src] = msgtype /\ Owed(src)
    BY <1>1, <1>2 DEF LocalsOK, Handling, BeforeReply, ForkPc, Owed
  <2> QED
    BY <1>1, <1>2, <2>1, ProcFacts DEF DueOK, ExecEarly
<1>4a. space[src] = src
  BY <1>1, <1>2, <1>4 DEF MemoryOK, FREE_SLOT
<1>5. \/ mmPc' = "fork_full" /\ UNCHANGED <<child, pc, space>>
      \/ /\ mmPc' = "fork_rest" /\ child' \in Slot /\ marks[child'] = {FREE_SLOT}
         /\ pc' = [pc EXCEPT ![child'] = pc[src]]
         /\ space' = [space EXCEPT ![child'] = space[src]]
  <2>1. CASE Free = {}
    BY <2>1 DEF ForkScan, MmGoto
  <2>2. CASE Free # {}
    <3>1. Min(Free) \in Free
      <4>1. Free \subseteq Proc
        BY DEF Free
      <4> QED
        BY <2>2, <4>1, MinOf
    <3> DEFINE c == Min(Free)
    <3>2. /\ child' = c /\ pc' = [pc EXCEPT ![c] = pc[src]]
          /\ space' = [space EXCEPT ![c] = space[src]] /\ mmPc' = "fork_rest"
      BY <2>2 DEF ForkScan, MmGoto
    <3>3. c \in Free
      BY <3>1
    <3> HIDE DEF c
    <3>4. c \in Slot /\ marks[c] = {FREE_SLOT}
      BY <1>2, <3>3, ProcFacts DEF Free, MarksOK, WAITING, FREE_SLOT
    <3> QED
      BY <3>2, <3>4
  <2> QED
    BY <2>1, <2>2
<1>6. LifeTypeOK'
  BY <1>2, <1>3, <1>4, <1>5, ProcFacts DEF LifeTypeOK, MmPc
<1>7. FamilyExact' /\ MarksOK'
  BY <1>1, <1>3, FamilyFrame, MarksFrame DEF IInv, Dying
<1>8. MemoryOK'
  BY <1>1, <1>2, <1>3, <1>5, ProcFacts DEF MemoryOK, LifeTypeOK
<1>9. DescriptorsOK'
  BY <1>1, <1>3, <1>5, DescriptorsFrame DEF IInv, Unheard, ExitHeard, AfterExit
<1>10. \A q \in User : pc'[q] = pc[q] \/ (q = child' /\ marks[q] = {FREE_SLOT} /\ mmPc' = "fork_rest")
  BY <1>2, <1>5, ProcFacts DEF LifeTypeOK
<1>11. LocalsOK'
  <2>1. mmPc' = "fork_rest" => child' # src /\ pc'[child'] = pc'[src] /\ space'[child'] = src
    BY <1>2, <1>4, <1>4a, <1>5, ProcFacts DEF LifeTypeOK
  <2> QED
    BY <1>1, <1>2, <1>3, <1>4, <1>5, <2>1
       DEF LocalsOK, Handling, BeforeReply, ForkPc, ExitPc, WaitPc, ExecPc, AfterExit
<1>12. AnswerArrived'
  BY <1>2, <1>3, <1>10 DEF AnswerArrived, Runnable, RV!Running
<1>13. ASSUME NEW q \in User PROVE ShapeOK(q)' /\ DueOK(q)'
  <2>1. ~Late(q) /\ ~Late(q)' /\ ~ExecEarly(q) /\ (Owed(q)' <=> Owed(q))
    BY <1>1, <1>3, <1>5 DEF Late, ExecEarly, Owed, BeforeReply
  <2>2. CASE pc'[q] = pc[q]
    BY <1>1, <1>2, <1>3, <1>5, <2>1, <2>2, UserKept
  <2>3. CASE q = child' /\ marks[q] = {FREE_SLOT} /\ mmPc' = "fork_rest"
    <3>1. st'[q] = Run /\ marks'[q] = {FREE_SLOT} /\ ~Owed(q)'
      BY <1>2, <1>3, <2>1, <2>3 DEF ShapeOK, DueOK
    <3>2. ShapeOK(q)'
      BY <3>1, DoingFacts DEF ShapeOK
    <3> QED
      BY <2>1, <2>3, <3>1, <3>2 DEF DueOK, Late, WAITING, HANGING, FREE_SLOT
  <2> QED
    BY <1>10, <2>2, <2>3
<1>14. MmOK' /\ RequestTaken' /\ ReplyPending' /\ FsOK'
  BY <1>2, <1>3, <1>5, MmAlone DEF AsksPc
<1> QED
  BY <1>2, <1>3, <1>6, <1>7, <1>8, <1>9, <1>11, <1>12, <1>13, <1>14, Assembled DEF CallsOK

\* The second part of *p = proc_table[pid]: the child is there, but not heard of.
LEMMA ForkRestIInv ==
  ASSUME IInv, ForkRest
  PROVE  IInv'
<1>1. Runs(TASK_MM) /\ mmPc = "fork_rest"
  BY DEF ForkRest, At
<1>2. /\ ~stopped /\ st[TASK_MM] = Run /\ LifeTypeOK /\ MarksOK /\ LocalsOK /\ CallsOK
      /\ AnswerArrived /\ FsIdle /\ MemoryOK /\ DescriptorsOK /\ FamilyExact
      /\ \A q \in User : ShapeOK(q) /\ DueOK(q)
  BY <1>1, MmRuns DEF AsksPc
<1>3. /\ UNCHANGED <<box, pend, stopped, pc, call, forks, space, fd_cnt, fsAt, crossed,
                     msgtype, src, child, reg>>
      /\ mmPc' = "fork_mem"
  BY DEF ForkRest, MmGoto, KeepUsers, mem, locals
<1>4. /\ src \in User /\ src \in Proc /\ marks[src] = {} /\ msgtype = FORK /\ call[src] = FORK
      /\ child \in Slot /\ child \in User /\ child \in Proc /\ child # src
      /\ marks[child] = {FREE_SLOT} /\ pc[child] = pc[src] /\ Expecting(src)
      /\ child # TASK_MM /\ child # TASK_FS /\ child # PID_INIT
  <2>1. /\ src \in User /\ marks[src] = {} /\ msgtype = FORK /\ call[src] = msgtype /\ Owed(src)
        /\ child \in Slot /\ child # src /\ marks[child] = {FREE_SLOT} /\ pc[child] = pc[src]
    BY <1>1, <1>2 DEF LocalsOK, Handling, BeforeReply, ForkPc, Owed
  <2> QED
    BY <1>1, <1>2, <2>1, ProcFacts DEF DueOK, ExecEarly
<1>5. /\ \A x \in Proc : x # child => /\ marks'[x] = marks[x] /\ st'[x] = st[x]
                                      /\ filp'[x] = filp[x] /\ p_parent'[x] = p_parent[x]
      /\ marks'[child] = {} /\ st'[child] = st[src] /\ filp'[child] = filp[src]
      /\ p_parent'[child] = src
  BY <1>2, <1>4 DEF ForkRest, LifeTypeOK
<1>6. LifeTypeOK'
  BY <1>2, <1>3, <1>4 DEF LifeTypeOK, MmPc, ForkRest
<1>7. MarksOK'
  BY <1>2, <1>4, <1>5, ProcFacts DEF MarksOK
<1>8. FamilyExact'
  <2>1. FamilyKept'
    <3> SUFFICES ASSUME NEW c \in Slot, Taken(c)'
                 PROVE  p_parent'[c] \in User /\ Alive(p_parent[c])'
      BY DEF FamilyKept
    <3>1. CASE c = child
      BY <1>4, <1>5, <3>1 DEF Alive
    <3>2. CASE c # child
      <4>1. p_parent'[c] = p_parent[c] /\ p_parent[c] \in User /\ p_parent[c] \in Proc
            /\ (Alive(p_parent[c]) \/ Dying(p_parent[c]))
        BY <1>2, <1>5, <3>2, ProcFacts DEF FamilyExact, FamilyKept, Taken
      <4>2. ~Dying(p_parent[c])
        BY <1>1 DEF Dying
      <4> QED
        BY <1>5, <4>1, <4>2 DEF Alive
    <3> QED
      BY <3>1, <3>2
  <2>2. NoForgottenZombie'
    <3> SUFFICES ASSUME NEW c \in Slot, HANGING \in marks'[c]
                 PROVE  WAITING \notin marks'[p_parent'[c]]
      BY DEF NoForgottenZombie
    <3>1. c # child /\ HANGING \in marks[c] /\ p_parent'[c] = p_parent[c] /\ Taken(c)
      BY <1>5, ProcFacts DEF Taken, HANGING, FREE_SLOT
    <3>2. WAITING \notin marks[p_parent[c]] /\ p_parent[c] \in Proc
      BY <1>2, <3>1, ProcFacts DEF FamilyExact, NoForgottenZombie, FamilyKept
    <3> QED
      BY <1>5, <3>1, <3>2
  <2> QED
    BY <2>1, <2>2 DEF FamilyExact
<1>9. MemoryOK'
  <2>1. space[child] = src /\ (\A q \in User : marks[q] # {FREE_SLOT} => space[q] = q)
    BY <1>1, <1>2 DEF LocalsOK, MemoryOK
  <2> QED
    BY <1>3, <1>4, <1>5, <2>1, ProcFacts DEF MemoryOK
<1>10. DescriptorsOK'
  <2>1. ~filp[child] /\ ~Unheard /\ Unheard' /\ ~ExitHeard'
    BY <1>1, <1>2, <1>3, <1>4 DEF DescriptorsOK, Unheard, ExitHeard, AfterExit
  <2>2. Counted' = Counted
    BY <1>3, <1>5, <2>1 DEF Counted
  <2> QED
    BY <1>2, <1>3, <1>4, <1>5, <2>1, <2>2, ProcFacts DEF DescriptorsOK
<1>11. LocalsOK'
  BY <1>1, <1>2, <1>3, <1>4, <1>5
     DEF LocalsOK, Handling, BeforeReply, ForkPc, ExitPc, WaitPc, ExecPc, AfterExit
<1>12. AnswerArrived'
  BY <1>2, <1>3, <1>4, <1>5, ProcFacts, DoingFacts
     DEF AnswerArrived, Runnable, RV!Running, Expecting
<1>13. ASSUME NEW q \in User PROVE ShapeOK(q)' /\ DueOK(q)'
  <2>1. ~Late(q) /\ ~Late(q)' /\ ~ExecEarly(q)
    BY <1>1, <1>3 DEF Late, ExecEarly
  <2>2. CASE q # child
    <3>1. Owed(q)' <=> Owed(q)
      BY <1>1, <1>3, <1>4, <1>5, <2>2, ProcFacts DEF Owed, BeforeReply
    <3> QED
      BY <1>1, <1>2, <1>3, <1>5, <2>1, <2>2, <3>1, ProcFacts, UserKept
  <2>3. CASE q = child
    <3>1. Expecting(q)' /\ Owed(q)'
      BY <1>3, <1>4, <1>5, <2>3 DEF Expecting, Owed
    <3>2. ShapeOK(q)'
      BY <1>3, <1>4, <1>5, <2>3, DoingFacts DEF ShapeOK, Expecting
    <3>3. pc'[q] = pc'[src'] /\ st'[q] = st'[src']
      BY <1>3, <1>4, <1>5, <2>3
    <3> QED
      BY <1>3, <1>5, <2>1, <2>3, <3>1, <3>2, <3>3 DEF DueOK, Late
  <2> QED
    BY <2>2, <2>3
<1>14. MmOK' /\ RequestTaken' /\ ReplyPending' /\ FsOK'
  BY <1>2, <1>3, <1>4, <1>5, ProcFacts, MmAlone DEF AsksPc
<1> QED
  BY <1>2, <1>3, <1>6, <1>7, <1>8, <1>9, <1>10, <1>11, <1>12, <1>13, <1>14, Assembled DEF CallsOK

\* The copy of the image, and the child's LDT.
LEMMA ForkMemIInv ==
  ASSUME IInv, ForkMem
  PROVE  IInv'
<1>1. Runs(TASK_MM) /\ mmPc = "fork_mem"
  BY DEF ForkMem, At
<1>2. /\ ~stopped /\ st[TASK_MM] = Run /\ LifeTypeOK /\ MarksOK /\ LocalsOK /\ CallsOK
      /\ AnswerArrived /\ FsIdle /\ MemoryOK
      /\ \A q \in User : ShapeOK(q) /\ DueOK(q)
  BY <1>1, MmRuns DEF AsksPc
<1>3. /\ UNCHANGED <<st, pend, stopped, pc, forks, marks, p_parent, filp, fd_cnt, fsAt, crossed,
                     msgtype, src, child, reg>>
      /\ mmPc' = "fork_fs"
  BY DEF ForkMem, MmGoto, locals
<1>4. /\ src \in User /\ src \in Proc /\ call[src] = FORK
      /\ child \in Slot /\ child \in User /\ child \in Proc /\ child # src
      /\ marks[src] = {} /\ marks[child] = {} /\ Expecting(src) /\ Expecting(child)
      /\ child # PID_INIT
  <2>1. /\ src \in User /\ msgtype = FORK /\ call[src] = msgtype /\ Owed(src) /\ marks[src] = {}
        /\ child \in Slot /\ child # src /\ marks[child] = {} /\ Owed(child)
    BY <1>1, <1>2 DEF LocalsOK, Handling, BeforeReply, ForkPc, Owed
  <2> QED
    BY <1>1, <1>2, <2>1, ProcFacts DEF DueOK, ExecEarly
<1>5. /\ \A x \in Proc : x # child => /\ box'[x] = box[x] /\ call'[x] = call[x]
                                      /\ space'[x] = space[x]
      /\ box'[child] = box[src] /\ call'[child] = FORK /\ space'[child] = child
  BY <1>2, <1>4 DEF ForkMem, LifeTypeOK
<1>6. LifeTypeOK'
  <2>1. box' \in [Proc -> Messages] /\ call' \in [Proc -> {FORK, EXIT, WAIT, EXEC}]
        /\ space' \in [Proc -> Proc]
    BY <1>2, <1>4 DEF LifeTypeOK, ForkMem, Messages
  <2> QED
    BY <1>2, <1>3, <2>1 DEF LifeTypeOK, MmPc, Messages
<1>7. FamilyExact' /\ MarksOK'
  BY <1>1, <1>3, FamilyFrame, MarksFrame DEF IInv, Dying
<1>8. MemoryOK'
  BY <1>2, <1>3, <1>5, ProcFacts DEF MemoryOK
<1>9. DescriptorsOK'
  BY <1>1, <1>3, DescriptorsFrame DEF IInv, Unheard, ExitHeard, AfterExit
<1>10. LocalsOK'
  BY <1>1, <1>2, <1>3, <1>4, <1>5, ProcFacts
     DEF LocalsOK, Handling, BeforeReply, ForkPc, ExitPc, WaitPc, ExecPc, AfterExit
<1>11. AnswerArrived'
  BY <1>2, <1>3, <1>4, <1>5, ProcFacts, DoingFacts
     DEF AnswerArrived, Runnable, RV!Running, Expecting
<1>12. ASSUME NEW q \in User PROVE ShapeOK(q)' /\ DueOK(q)'
  <2>1. ~Late(q) /\ ~Late(q)' /\ ~ExecEarly(q) /\ (Owed(q)' <=> Owed(q))
    BY <1>1, <1>3 DEF Late, ExecEarly, Owed, BeforeReply
  <2>2. CASE q # child
    BY <1>1, <1>2, <1>3, <1>5, <2>1, <2>2, ProcFacts, UserKept
  <2>3. CASE q = child
    <3>1. Expecting(q)' /\ Owed(q)'
      BY <1>3, <1>4, <2>3 DEF Expecting, Owed
    <3>2. ShapeOK(q)'
      BY <1>3, <1>4, <2>3, DoingFacts DEF ShapeOK, Expecting
    <3>3. box'[q].source \in User
      BY <1>1, <1>2, <1>4, <1>5, <2>3 DEF DueOK, FREE_SLOT
    <3> QED
      BY <1>3, <1>4, <1>5, <2>1, <2>3, <3>1, <3>2, <3>3 DEF DueOK, Late, WAITING, HANGING
  <2> QED
    BY <2>2, <2>3
<1>13. MmOK' /\ RequestTaken' /\ ReplyPending' /\ FsOK'
  BY <1>2, <1>3, MmAlone DEF AsksPc
<1> QED
  BY <1>2, <1>3, <1>6, <1>7, <1>8, <1>9, <1>10, <1>11, <1>12, <1>13, Assembled DEF CallsOK

\* MM calls FS, in each of its handlers.
LEMMA AsksFsIInv ==
  ASSUME IInv, ForkAsksFs \/ ExitAsksFs \/ ExecAsksFs
  PROVE  IInv'
<1>1. /\ Runs(TASK_MM) /\ mmPc \in {"fork_fs", "exit_fs", "exec_fs"}
      /\ mmPc = "fork_fs" => mmPc' = "fork_fsrecv"
      /\ mmPc = "exit_fs" => mmPc' = "exit_fsrecv"
      /\ mmPc = "exec_fs" => mmPc' = "exec_fsrecv"
  BY DEF ForkAsksFs, ExitAsksFs, ExecAsksFs, AsksFs, At, MmGoto
<1>2. /\ ~stopped /\ st[TASK_MM] = Run /\ LifeTypeOK /\ MarksOK /\ LocalsOK /\ CallsOK
      /\ AnswerArrived /\ FsIdle /\ \A q \in User : ShapeOK(q) /\ DueOK(q)
  BY <1>1, MmRuns DEF AsksPc
<1>3. UNCHANGED <<pc, call, forks, marks, p_parent, space, filp, fd_cnt, fsAt, crossed,
                  msgtype, src, child, reg>>
  BY DEF ForkAsksFs, ExitAsksFs, ExecAsksFs, AsksFs, KeepUsers, mem, table, locals
<1>4. /\ mmPc = "fork_fs" => msgtype = FORK
      /\ mmPc = "exit_fs" => msgtype = EXIT
      /\ mmPc = "exec_fs" => msgtype = EXEC
      /\ src \in User
  BY <1>1, <1>2 DEF LocalsOK, ForkPc, ExitPc, ExecPc, Handling
<1> DEFINE m == Message(TASK_MM, msgtype, Request, 0)
<1>5. RV!Send(TASK_MM, TASK_FS, m)
  BY <1>1, <1>4 DEF ForkAsksFs, ExitAsksFs, ExecAsksFs, AsksFs, At, Request, FORK, EXIT, EXEC
<1>6. m \in Messages /\ Asks(m)
  <2>1. msgtype \in {FORK, EXIT, WAIT, EXEC, SYSCALL_RET} /\ Request \in Proc
    BY <1>1, <1>2, <1>4 DEF LifeTypeOK, Request
  <2> QED
    BY <2>1, MessageType, MessageFacts, ProcFacts DEF Asks
<1> HIDE DEF m
<1>7. \/ Delivers(TASK_MM, TASK_FS, m) /\ fsAt = "serve" /\ st[TASK_FS] = RecvOf(ANY)
      \/ Waits(TASK_MM, TASK_FS, m) /\ fsAt = "loop" /\ st[TASK_FS] = Run
  BY <1>1, <1>5, AskingOutcome DEF AsksPc, HearsPc
<1>8. /\ \A q \in User : st'[q] = st[q] /\ box'[q] = box[q]
      /\ st'[TASK_FS] = Run /\ box'[TASK_MM] = m /\ ~stopped'
      /\ \/ st'[TASK_MM] = Run /\ box'[TASK_FS] = m /\ fsAt' = "serve"
         \/ st'[TASK_MM] = SendTo(TASK_FS) /\ fsAt' = "loop"
  BY <1>2, <1>3, <1>7, ProcFacts DEF LifeTypeOK, Delivers, Waits
<1>9. LifeTypeOK'
  <2>1. /\ st' \in [Proc -> Doings] /\ box' \in [Proc -> Messages]
        /\ pend' = [x \in Proc |-> FALSE] /\ stopped' \in BOOLEAN
    BY <1>2, <1>6, <1>7, SendTypes, ProcFacts
  <2> QED
    BY <1>1, <1>2, <1>3, <2>1 DEF LifeTypeOK, MmPc, Messages
<1>10. FamilyExact' /\ MarksOK' /\ MemoryOK'
  BY <1>1, <1>3, FamilyFrame, MarksFrame, MemoryFrame DEF IInv, Dying
<1>11. DescriptorsOK'
  <2>1. Unheard' <=> Unheard
    BY <1>1, <1>8 DEF Unheard
  <2>2. ~ExitHeard'
    BY <1>1, <1>8, DoingFacts DEF ExitHeard, AfterExit
  <2> QED
    BY <1>3, <2>1, <2>2, DescriptorsFrame DEF IInv
<1>12. LocalsOK'
  BY <1>1, <1>2, <1>3
     DEF LocalsOK, Handling, BeforeReply, ForkPc, ExitPc, WaitPc, ExecPc, AfterExit
<1>13. AnswerArrived'
  BY <1>2, <1>3, <1>8 DEF AnswerArrived, Runnable, RV!Running
<1>14. ASSUME NEW q \in User PROVE ShapeOK(q)' /\ DueOK(q)'
  <2>1. st[TASK_MM] # SendTo(q) /\ st'[TASK_MM] # SendTo(q)
    BY <1>2, <1>8, ProcFacts, DoingFacts
  <2>2. ~Late(q) /\ ~Late(q)' /\ ~ExecEarly(q) /\ (Owed(q)' <=> Owed(q))
    BY <1>1, <1>3, <2>1 DEF Late, ExecEarly, Owed, BeforeReply
  <2>3. /\ ~(mmPc = "fork_mem" /\ q = child) /\ ~(mmPc' = "fork_mem" /\ q = child')
        /\ mmPc' \notin {"exit_cleanup", "orphan_cleanup", "exec_reply"}
        /\ mmPc' \in {"fork_fs", "fork_fsrecv", "fork_birth"} /\ q = child' => call[q] = FORK
    BY <1>1, <1>2, <1>3 DEF DueOK
  <2> QED
    BY <1>2, <1>3, <1>8, <2>2, <2>3, UserKept
<1>15. MmOK' /\ RequestTaken' /\ ReplyPending'
  BY <1>1, <1>8, ProcFacts, DoingFacts DEF MmOK, RequestTaken, ReplyPending, AsksPc
<1>16. FsOK'
  <2>1. mmPc' \in AsksPc /\ mmPc' \notin HearsPc
    BY <1>1 DEF AsksPc, HearsPc
  <2>2. Asks(box[TASK_MM])' /\ (fsAt' = "serve" => FsAsked')
    BY <1>3, <1>6, <1>8, DoingFacts DEF Asks, Request, FsAsked
  <2> QED
    BY <1>8, <2>1, <2>2 DEF FsOK
<1> QED
  BY <1>8, <1>9, <1>10, <1>11, <1>12, <1>13, <1>14, <1>15, <1>16, Assembled DEF CallsOK

\* ... and takes its answer, or waits for it.
LEMMA HearsFsIInv ==
  ASSUME IInv, ForkHearsFs \/ ExitHearsFs \/ ExecHearsFs
  PROVE  IInv'
<1>1. /\ Runs(TASK_MM) /\ mmPc \in AsksPc /\ RV!Receive(TASK_MM, TASK_FS)
      /\ mmPc = "fork_fsrecv" => mmPc' = "fork_birth"
      /\ mmPc = "exit_fsrecv" => mmPc' = "exit_mark"
      /\ mmPc = "exec_fsrecv" => mmPc' = "exec_regs"
  BY DEF ForkHearsFs, ExitHearsFs, ExecHearsFs, HearsFs, At, MmGoto, AsksPc
<1>2. /\ ~stopped /\ st[TASK_MM] = Run /\ LifeTypeOK /\ MarksOK /\ LocalsOK /\ CallsOK
      /\ AnswerArrived /\ \A q \in User : ShapeOK(q) /\ DueOK(q)
  BY <1>1, MmRuns
<1>3. UNCHANGED <<pc, call, forks, marks, p_parent, space, filp, fd_cnt, fsAt, crossed,
                  msgtype, src, child, reg>>
  BY DEF ForkHearsFs, ExitHearsFs, ExecHearsFs, HearsFs, KeepUsers, mem, table, locals
<1>4. /\ UNCHANGED <<pend, stopped>>
      /\ \/ /\ st[TASK_FS] = SendTo(TASK_MM) /\ fsAt = "loop"
            /\ box' = [box EXCEPT ![TASK_MM] = box[TASK_FS]]
            /\ st' = [st EXCEPT ![TASK_FS] = Run]
         \/ /\ FsAsked
            /\ box' = [box EXCEPT ![TASK_MM].source = TASK_MM]
            /\ st' = [st EXCEPT ![TASK_MM] = RecvOf(TASK_FS)]
  BY <1>1, HearingOutcome
<1>5. /\ \A q \in User : st'[q] = st[q] /\ box'[q] = box[q]
      /\ \/ /\ st[TASK_FS] = SendTo(TASK_MM) /\ fsAt = "loop"
            /\ st'[TASK_MM] = Run /\ st'[TASK_FS] = Run
         \/ /\ FsAsked /\ st'[TASK_MM] = RecvOf(TASK_FS) /\ st'[TASK_FS] = st[TASK_FS]
            /\ box'[TASK_FS] = box[TASK_FS]
  BY <1>2, <1>4, ProcFacts DEF LifeTypeOK
<1>6. LifeTypeOK'
  <2>1. /\ st' \in [Proc -> Doings] /\ box' \in [Proc -> Messages]
        /\ pend' = [x \in Proc |-> FALSE] /\ stopped' \in BOOLEAN
    BY <1>2, <1>4, ReceiveTypes, ProcFacts
  <2> QED
    BY <1>1, <1>2, <1>3, <2>1 DEF LifeTypeOK, MmPc, Messages, AsksPc
<1>7. FamilyExact' /\ MarksOK' /\ MemoryOK'
  BY <1>1, <1>3, FamilyFrame, MarksFrame, MemoryFrame DEF IInv, Dying, AsksPc
<1>8. DescriptorsOK'
  <2>1. Unheard' <=> Unheard
    BY <1>1, <1>2, <1>3, <1>5, DoingFacts DEF Unheard, AsksPc, FsAsked
  <2>2. ExitHeard' => ExitHeard
    BY <1>1, <1>5, DoingFacts DEF ExitHeard, AfterExit, AsksPc
  <2> QED
    BY <1>3, <2>1, <2>2, DescriptorsFrame DEF IInv
<1>9. LocalsOK'
  BY <1>1, <1>2, <1>3
     DEF LocalsOK, Handling, BeforeReply, ForkPc, ExitPc, WaitPc, ExecPc, AfterExit, AsksPc
<1>10. AnswerArrived'
  BY <1>2, <1>3, <1>5 DEF AnswerArrived, Runnable, RV!Running
<1>11. ASSUME NEW q \in User PROVE ShapeOK(q)' /\ DueOK(q)'
  <2>1. st[TASK_MM] # SendTo(q) /\ st'[TASK_MM] # SendTo(q)
    BY <1>2, <1>5, ProcFacts, DoingFacts
  <2>2. ~Late(q) /\ ~Late(q)' /\ ~ExecEarly(q) /\ (Owed(q)' <=> Owed(q))
    BY <1>1, <1>3, <2>1 DEF Late, ExecEarly, Owed, BeforeReply, AsksPc
  <2>3. /\ ~(mmPc = "fork_mem" /\ q = child) /\ ~(mmPc' = "fork_mem" /\ q = child')
        /\ mmPc' \notin {"exit_cleanup", "orphan_cleanup", "exec_reply"}
        /\ mmPc' \in {"fork_fs", "fork_fsrecv", "fork_birth"} /\ q = child' => call[q] = FORK
    BY <1>1, <1>2, <1>3 DEF DueOK, AsksPc
  <2> QED
    BY <1>2, <1>3, <1>5, <2>2, <2>3, UserKept
<1>12. MmOK' /\ RequestTaken' /\ ReplyPending'
  BY <1>1, <1>5, ProcFacts, DoingFacts DEF MmOK, RequestTaken, ReplyPending, AsksPc, HearsPc
<1>13. FsOK'
  <2>1. mmPc' \in HearsPc /\ mmPc' \notin AsksPc
    BY <1>1 DEF AsksPc, HearsPc
  <2>2. (FsAsked /\ box'[TASK_FS] = box[TASK_FS] /\ st'[TASK_FS] = st[TASK_FS]) => FsAsked'
    BY <1>3 DEF FsAsked, Asks, Request
  <2> QED
    BY <1>3, <1>5, <2>1, <2>2 DEF FsOK, FsIdle
<1> QED
  BY <1>2, <1>4, <1>6, <1>7, <1>8, <1>9, <1>10, <1>11, <1>12, <1>13, Assembled DEF CallsOK

\* The answers MM gives: to whom, where, and what is known of the caller.
Answering ==
  ForkBirth \/ ForkReplies \/ ForkFails \/ ExitCleanup \/ OrphanCleanup \/ WaitCleanup
    \/ WaitReplies \/ ExecReplies \/ ExecFails

Answers(t, pid) ==
  \/ /\ mmPc = "fork_birth" /\ mmPc' = "fork_reply"
     /\ t = child /\ t # src /\ call[t] = FORK
  \/ /\ mmPc \in {"fork_reply", "fork_full", "wait_nobody", "exec_reply", "exec_fail"}
     /\ mmPc' = "loop" /\ t = src /\ msgtype \in {FORK, WAIT, EXEC}
     /\ msgtype \in {WAIT, EXEC} => pid = NO_TASK
     /\ mmPc # "exec_reply" => call[t] = msgtype
     /\ mmPc = "exec_reply" => msgtype = EXEC
  \/ /\ \/ mmPc = "exit_cleanup" /\ mmPc' = "exit_free" /\ child = src
        \/ mmPc = "orphan_cleanup" /\ mmPc' = "orphan_free"
        \/ mmPc = "wait_cleanup" /\ mmPc' = "wait_free" /\ t = src
     /\ t = p_parent[child] /\ t # child /\ pid = child /\ call[t] = WAIT

LEMMA AnsweringWhom ==
  ASSUME IInv, Answering
  PROVE  /\ Runs(TASK_MM)
         /\ UNCHANGED <<pc, call, forks, marks, p_parent, space, filp, fd_cnt, fsAt, crossed,
                        msgtype, src, child, reg>>
         /\ \E t \in User, pid \in Proc \cup {NO_TASK, 0}, ret \in {0, -1} :
              /\ RV!Send(TASK_MM, t, Message(TASK_MM, SYSCALL_RET, pid, ret))
              /\ Owed(t) /\ Answers(t, pid)
<1> USE DEF Replies, At, MmGoto
<1>1. Runs(TASK_MM)
  BY DEF Answering, ForkBirth, ForkReplies, ForkFails, ExitCleanup, OrphanCleanup, WaitCleanup,
         WaitReplies, ExecReplies, ExecFails
<1>2. UNCHANGED <<pc, call, forks, marks, p_parent, space, filp, fd_cnt, fsAt, crossed,
                  msgtype, src, child, reg>>
  BY DEF Answering, ForkBirth, ForkReplies, ForkFails, ExitCleanup, OrphanCleanup, WaitCleanup,
         WaitReplies, ExecReplies, ExecFails, KeepUsers, mem, table, locals
<1>3. /\ LifeTypeOK /\ MarksOK /\ LocalsOK /\ FamilyExact /\ \A q \in User : ShapeOK(q) /\ DueOK(q)
  BY <1>1, MmRuns
<1>4. Handling => src \in User
  BY <1>3 DEF LocalsOK
<1>5. CASE ForkBirth
  <2>1. /\ mmPc = "fork_birth" /\ mmPc' = "fork_reply"
        /\ RV!Send(TASK_MM, child, Message(TASK_MM, SYSCALL_RET, 0, 0))
    BY <1>5 DEF ForkBirth
  <2>2. child \in User /\ child # src /\ Owed(child)
    BY <1>3, <2>1, ProcFacts DEF LocalsOK, Owed
  <2>3. call[child] = FORK
    BY <1>3, <2>1, <2>2 DEF DueOK
  <2> QED
    BY <1>1, <1>2, <2>1, <2>2, <2>3 DEF Answers
<1>6. CASE ForkReplies \/ ForkFails
  <2>1. PICK pid \in Proc \cup {NO_TASK, 0}, ret \in {0, -1} :
          /\ mmPc \in {"fork_reply", "fork_full"} /\ mmPc' = "loop"
          /\ RV!Send(TASK_MM, src, Message(TASK_MM, SYSCALL_RET, pid, ret))
    BY <1>3, <1>6 DEF ForkReplies, ForkFails, LifeTypeOK
  <2>2. msgtype = FORK /\ src \in User /\ call[src] = msgtype /\ Owed(src)
    BY <1>3, <2>1 DEF LocalsOK, ForkPc, Handling, Owed, BeforeReply
  <2>3. Answers(src, pid)
    BY <2>1, <2>2 DEF Answers, FORK, WAIT, EXEC
  <2> QED
    BY <1>1, <1>2, <2>1, <2>2, <2>3
<1>7. CASE WaitReplies
  <2>1. /\ mmPc = "wait_nobody" /\ mmPc' = "loop"
        /\ RV!Send(TASK_MM, src, Message(TASK_MM, SYSCALL_RET, NO_TASK, 0))
    BY <1>7 DEF WaitReplies
  <2>2. msgtype = WAIT /\ src \in User /\ call[src] = msgtype /\ Owed(src)
    BY <1>3, <2>1 DEF LocalsOK, WaitPc, Handling, Owed, BeforeReply
  <2>3. Answers(src, NO_TASK)
    BY <2>1, <2>2 DEF Answers
  <2> QED
    BY <1>1, <1>2, <2>1, <2>2, <2>3
<1>8. CASE ExecReplies \/ ExecFails
  <2>1. PICK ret \in {0, -1} :
          /\ mmPc \in {"exec_reply", "exec_fail"} /\ mmPc' = "loop"
          /\ RV!Send(TASK_MM, src, Message(TASK_MM, SYSCALL_RET, NO_TASK, ret))
    BY <1>8 DEF ExecReplies, ExecFails
  <2>2. /\ msgtype = EXEC /\ src \in User /\ Owed(src)
        /\ mmPc # "exec_reply" => call[src] = msgtype
    BY <1>3, <2>1 DEF LocalsOK, ExecPc, Handling, Owed, BeforeReply
  <2>3. Answers(src, NO_TASK)
    BY <2>1, <2>2 DEF Answers, EXEC, WAIT
  <2> QED
    BY <1>1, <1>2, <2>1, <2>2, <2>3
<1>9. CASE ExitCleanup \/ OrphanCleanup \/ WaitCleanup
  <2>1. /\ \/ mmPc = "exit_cleanup" /\ mmPc' = "exit_free"
           \/ mmPc = "orphan_cleanup" /\ mmPc' = "orphan_free"
           \/ mmPc = "wait_cleanup" /\ mmPc' = "wait_free"
        /\ RV!Send(TASK_MM, p_parent[child], Message(TASK_MM, SYSCALL_RET, child, 0))
    BY <1>9 DEF ExitCleanup, OrphanCleanup, WaitCleanup
  <2> DEFINE t == p_parent[child]
  <2>2. /\ t \in User /\ Owed(t) /\ t # child /\ child \in Proc
        /\ mmPc = "exit_cleanup" => child = src
        /\ mmPc = "wait_cleanup" => t = src
    <3>1. CASE mmPc = "exit_cleanup"
      <4>1. child = src /\ t \in User
        BY <1>3, <3>1 DEF LocalsOK
      <4>2. child \in Slot
        BY <1>3, <4>1, ProcFacts DEF MarksOK, LifeTypeOK
      <4> QED
        BY <1>3, <3>1, <4>1, <4>2, ProcFacts DEF MarksOK, Owed
    <3>2. CASE mmPc = "orphan_cleanup"
      BY <1>3, <3>2, ProcFacts DEF LocalsOK, Owed, MarksOK
    <3>3. CASE mmPc = "wait_cleanup"
      BY <1>3, <1>4, <3>3, ProcFacts DEF LocalsOK, Owed, BeforeReply, MarksOK, Handling
    <3> QED
      BY <2>1, <3>1, <3>2, <3>3
  <2>3. call[t] = WAIT
    <3>1. CASE mmPc = "wait_cleanup"
      BY <1>3, <2>2, <3>1 DEF LocalsOK, Handling, WaitPc
    <3>2. CASE mmPc \in {"exit_cleanup", "orphan_cleanup"}
      BY <1>3, <2>2, <3>2 DEF DueOK
    <3> QED
      BY <2>1, <3>1, <3>2
  <2>4. Answers(t, child)
    BY <2>1, <2>2, <2>3 DEF Answers
  <2> QED
    BY <1>1, <1>2, <2>1, <2>2, <2>4
<1> QED
  BY <1>5, <1>6, <1>7, <1>8, <1>9 DEF Answering

\* An answer is delivered, or MM waits for a caller that is on its way to its
\* RECEIVE; only exec() can find its caller in a SEND to MM.
LEMMA AnsweringIInv ==
  ASSUME IInv, Answering
  PROVE  IInv'
<1>1. /\ Runs(TASK_MM)
      /\ UNCHANGED <<pc, call, forks, marks, p_parent, space, filp, fd_cnt, fsAt, crossed,
                     msgtype, src, child, reg>>
  BY AnsweringWhom
<1>2. PICK t \in User, pid \in Proc \cup {NO_TASK, 0}, ret \in {0, -1} :
        /\ RV!Send(TASK_MM, t, Message(TASK_MM, SYSCALL_RET, pid, ret))
        /\ Owed(t) /\ Answers(t, pid)
  BY AnsweringWhom
<1> DEFINE m == Message(TASK_MM, SYSCALL_RET, pid, ret)
<1>3. /\ ~stopped /\ st[TASK_MM] = Run /\ LifeTypeOK /\ MarksOK /\ LocalsOK /\ CallsOK
      /\ AnswerArrived /\ FsIdle /\ AnswersOK
      /\ \A q \in User : ShapeOK(q) /\ DueOK(q)
  BY <1>1, <1>2, MmRuns DEF AsksPc, Answers
<1>4. m \in Messages /\ m.source = TASK_MM /\ m.PID = pid
  <2>1. TASK_MM \in Proc /\ SYSCALL_RET \in {FORK, EXIT, WAIT, EXEC, SYSCALL_RET}
    BY ProcFacts
  <2>2. m \in Messages
    BY <2>1, MessageType
  <2> QED
    BY <2>2, MessageFacts
<1>5. /\ marks[t] = {}
      /\ \/ Panics /\ mmPc = "exec_reply" /\ msgtype = EXEC /\ st[t] = SendTo(TASK_MM)
         \/ /\ Delivers(TASK_MM, t, m) /\ st[t] = RecvOf(TASK_MM)
            /\ pc[t] = "answer" \/ (pc[t] = "program" /\ mmPc = "exec_reply" /\ t = src)
         \/ /\ Waits(TASK_MM, t, m) /\ st[t] = Run
            /\ pc[t] = "sent" \/ (pc[t] = "program" /\ mmPc = "exec_reply" /\ t = src)
  BY <1>1, <1>2, ReplyOutcome
<1> HIDE DEF m
<1>6. /\ st'[TASK_FS] = st[TASK_FS] /\ t \in Proc /\ t # TASK_MM
      /\ \A q \in User : q # t => st'[q] = st[q] /\ box'[q] = box[q]
  BY <1>3, <1>5, ProcFacts DEF LifeTypeOK, Delivers, Waits, Panics
<1>7. LifeTypeOK'
  <2>1. /\ st' \in [Proc -> Doings] /\ box' \in [Proc -> Messages]
        /\ pend' = [x \in Proc |-> FALSE] /\ stopped' \in BOOLEAN
    BY <1>3, <1>4, <1>5, <1>6, SendTypes, ProcFacts
  <2> QED
    BY <1>1, <1>2, <1>3, <2>1 DEF LifeTypeOK, MmPc, Messages, Answers
<1>8. FamilyExact' /\ MarksOK' /\ MemoryOK'
  BY <1>1, <1>2, FamilyFrame, MarksFrame, MemoryFrame DEF IInv, Dying, Answers
<1>9. DescriptorsOK'
  <2>1. ~Unheard /\ ~Unheard'
    BY <1>2, <1>3, DoingFacts DEF Unheard, Answers
  <2>2. ExitHeard' => ExitHeard
    BY <1>2 DEF ExitHeard, AfterExit, Answers
  <2> QED
    BY <1>1, <2>1, <2>2, DescriptorsFrame DEF IInv
<1>10. LocalsOK'
  BY <1>1, <1>2, <1>3
     DEF LocalsOK, Handling, BeforeReply, ForkPc, ExitPc, WaitPc, ExecPc, AfterExit, Answers
<1>11. CASE Panics /\ mmPc = "exec_reply" /\ msgtype = EXEC /\ st[t] = SendTo(TASK_MM)
  <2>1. mmPc' = "loop" /\ t = src /\ UNCHANGED <<st, box>> /\ stopped'
    BY <1>2, <1>11 DEF Answers, Panics
  <2>2. AnswerArrived'
    BY <1>1, <1>3, <2>1 DEF AnswerArrived, Runnable, RV!Running
  <2>3. \A q \in User : AnswerDue(q) => q = src
    BY <1>11 DEF AnswerDue, Newborn
  <2>4. NobodyHangs'
    BY <1>1, <1>3, <1>11, <2>1, <2>3, DoingFacts
       DEF AnswersOK, NobodyHangs, RecvOf
  <2> QED
    BY <1>1, <1>7, <1>8, <1>9, <1>10, <1>11, <2>1, <2>2, <2>4 DEF IInv, AnswersOK
<1>12. ASSUME NEW q \in User, q # t, ~stopped',
              st'[TASK_MM] = Run \/ st'[TASK_MM] = SendTo(t)
       PROVE  ShapeOK(q)' /\ DueOK(q)'
  <2>1. st[TASK_MM] # SendTo(q) /\ st'[TASK_MM] # SendTo(q)
    BY <1>3, <1>12, DoingFacts
  <2>2. Owed(q)' => Owed(q)
    BY <1>1, <1>2, <1>12, <2>1 DEF Owed, BeforeReply, Answers
  <2>3. Owed(q) \/ Late(q) => Owed(q)' \/ Late(q)'
    BY <1>1, <1>2, <1>12, <2>1 DEF Owed, BeforeReply, Late, Answers
  <2>4. (Late(q)' => Late(q)) /\ ~ExecEarly(q)
    BY <1>1, <1>2, <1>12, <2>1 DEF Late, Answers, ExecEarly
  <2>5. /\ mmPc # "fork_mem"
        /\ mmPc' \notin {"fork_mem", "fork_fs", "fork_fsrecv", "fork_birth", "exit_cleanup",
                         "orphan_cleanup", "exec_reply"}
    BY <1>2 DEF Answers
  <2> QED
    BY <1>1, <1>3, <1>6, <1>12, <2>2, <2>3, <2>4, <2>5, UserKept
<1>13. ~stopped' => AnswerArrived'
  <2>1. \A q \in User : q = t \/ (Runnable(q)' <=> Runnable(q))
    BY <1>1, <1>6 DEF Runnable, RV!Running
  <2>2. pc[t] = "answer" /\ ~stopped' /\ st'[t].op = "run"
          => box'[t].source = TASK_MM /\ call[t] # EXIT
    <3>1. SUFFICES ASSUME pc[t] = "answer", ~stopped', st'[t].op = "run"
                   PROVE  box'[t].source = TASK_MM /\ call[t] # EXIT
      OBVIOUS
    <3>2. Delivers(TASK_MM, t, m)
      BY <1>5, <3>1 DEF Panics
    <3>3. box'[t] = m
      BY <1>3, <1>6, <3>2 DEF Delivers, LifeTypeOK
    <3>4. mmPc # "exec_reply" \/ t # src
      BY <1>3, <1>5, <3>1, <3>2, DoingFacts DEF DueOK, ExecEarly
    <3> QED
      BY <1>2, <1>4, <3>3, <3>4 DEF Answers, EXIT, FORK, WAIT, EXEC
  <2> QED
    BY <1>1, <1>3, <1>6, <2>1, <2>2 DEF AnswerArrived, Runnable, RV!Running
<1>14. CASE /\ Delivers(TASK_MM, t, m) /\ st[t] = RecvOf(TASK_MM)
            /\ pc[t] = "answer" \/ (pc[t] = "program" /\ mmPc = "exec_reply" /\ t = src)
  <2>1. st'[TASK_MM] = Run /\ st'[t] = Run /\ ~stopped'
    BY <1>3, <1>6, <1>14, ProcFacts DEF Delivers, LifeTypeOK
  <2>2. ShapeOK(t)' /\ DueOK(t)'
    <3>1. ~Owed(t)' /\ ~Late(t)' /\ ~Expecting(t)'
      BY <1>1, <1>2, <1>14, <2>1, DoingFacts DEF Owed, BeforeReply, Late, Expecting, Answers
    <3>2. ShapeOK(t)'
      BY <1>1, <1>5, <1>14, <2>1, DoingFacts DEF ShapeOK
    <3>3. mmPc' \notin {"fork_mem", "fork_fs", "fork_fsrecv", "fork_birth", "exit_cleanup",
                        "orphan_cleanup", "exec_reply"}
      BY <1>2 DEF Answers
    <3> QED
      BY <1>1, <1>5, <3>1, <3>2, <3>3 DEF DueOK, Late
  <2>3. MmOK' /\ RequestTaken' /\ ReplyPending' /\ FsOK'
    BY <1>1, <1>2, <1>3, <1>6, <2>1, MmAlone DEF AsksPc, Answers
  <2> QED
    BY <1>7, <1>8, <1>9, <1>10, <1>12, <1>13, <2>1, <2>2, <2>3, Assembled DEF CallsOK
<1>15. CASE /\ Waits(TASK_MM, t, m) /\ st[t] = Run
            /\ pc[t] = "sent" \/ (pc[t] = "program" /\ mmPc = "exec_reply" /\ t = src)
  <2>1. /\ st'[TASK_MM] = SendTo(t) /\ st'[t] = Run /\ box'[t] = box[t] /\ box'[TASK_MM] = m
        /\ ~stopped'
    BY <1>3, <1>6, <1>15, ProcFacts DEF Waits, LifeTypeOK
  <2>2. /\ t = src /\ mmPc = "exec_reply" => ExecEarly(t)
        /\ ExecEarly(t) => pc[t] = "program"
        /\ pc[t] = "program" => mmPc = "exec_reply" /\ t = src
    BY <1>3, <1>15, DoingFacts DEF DueOK, ExecEarly
  <2>3. ShapeOK(t)' /\ DueOK(t)'
    <3>1. Owed(t)' /\ ~Late(t)'
      BY <1>1, <1>2, <2>1 DEF Owed, Late, Answers
    <3>2. Expecting(t)' <=> Expecting(t)
      BY <1>1, <1>15, <2>1 DEF Expecting
    <3>3. Expecting(t)' \/ ExecEarly(t)'
      <4>1. CASE pc[t] = "sent"
        BY <1>1, <2>1, <4>1 DEF Expecting
      <4>2. CASE pc[t] = "program"
        <5>1. mmPc' = "loop" /\ msgtype = EXEC
          BY <1>2, <2>2, <4>2 DEF Answers
        <5> QED
          BY <1>1, <2>1, <2>2, <4>2, <5>1 DEF ExecEarly
      <4> QED
        BY <1>15, <4>1, <4>2
    <3>4. ShapeOK(t)'
      BY <1>1, <1>5, <1>15, <2>1, DoingFacts DEF ShapeOK
    <3>5. /\ mmPc # "fork_mem"
          /\ mmPc' \notin {"fork_mem", "fork_fs", "fork_fsrecv", "fork_birth", "exit_cleanup",
                           "orphan_cleanup", "exec_reply"}
      BY <1>2 DEF Answers
    <3> QED
      BY <1>1, <1>3, <1>5, <2>1, <3>1, <3>2, <3>3, <3>4, <3>5 DEF DueOK, Late
  <2>4. MmOK'
    BY <1>1, <1>2, <1>3, <1>4, <1>15, <2>1, <2>2 DEF MmOK, Answers
  <2>5. RequestTaken' /\ ReplyPending'
    BY <1>2, <2>1, DoingFacts DEF RequestTaken, ReplyPending, Answers
  <2>6. FsOK'
    BY <1>1, <1>2, <1>3, <1>6 DEF FsOK, FsIdle, AsksPc, HearsPc, Answers
  <2> QED
    BY <1>7, <1>8, <1>9, <1>10, <1>12, <1>13, <2>1, <2>3, <2>4, <2>5, <2>6, Assembled DEF CallsOK
<1> QED
  BY <1>5, <1>11, <1>14, <1>15

\* exit() finds a waiting parent, or leaves a zombie.
LEMMA ExitMarkIInv ==
  ASSUME IInv, ExitMark
  PROVE  IInv'
<1>1. Runs(TASK_MM) /\ mmPc = "exit_mark"
  BY DEF ExitMark, At
<1>2. /\ ~stopped /\ st[TASK_MM] = Run /\ LifeTypeOK /\ MarksOK /\ LocalsOK /\ CallsOK
      /\ AnswerArrived /\ FsIdle /\ MemoryOK /\ DescriptorsOK /\ FamilyExact
      /\ \A q \in User : ShapeOK(q) /\ DueOK(q)
  BY <1>1, MmRuns DEF AsksPc
<1>3. /\ UNCHANGED <<st, box, pend, stopped, pc, call, forks, p_parent, space, filp, fd_cnt, fsAt, crossed,
                     msgtype, src, reg>>
      /\ child' = src
  BY DEF ExitMark, KeepUsers, ipc, mem
<1> DEFINE par == p_parent[src]
<1>4. /\ src \in User /\ src \in Proc /\ marks[src] = {} /\ msgtype = EXIT /\ call[src] = EXIT
      /\ Owed(src) /\ Expecting(src) /\ src \in Slot /\ ~filp[src]
  <2>1. src \in User /\ marks[src] = {} /\ msgtype = EXIT /\ call[src] = msgtype /\ Owed(src)
    BY <1>1, <1>2 DEF LocalsOK, Handling, BeforeReply, ExitPc, Owed
  <2>2. Expecting(src)
    BY <1>1, <1>2, <2>1 DEF DueOK, ExecEarly
  <2>3. src # PID_INIT
    BY <1>2, <2>1 DEF LocalsOK, FORK, WAIT, EXIT
  <2>4. ~filp[src]
    BY <1>1, <1>2 DEF DescriptorsOK, ExitHeard
  <2> QED
    BY <2>1, <2>2, <2>3, <2>4, ProcFacts
<1>5. /\ par \in User /\ par \in Proc /\ par # src
      /\ marks[par] \in {{}, {WAITING}}
  <2>1. par \in User /\ par # src /\ (Alive(par) \/ Dying(par))
    BY <1>2, <1>4 DEF FamilyExact, FamilyKept, Taken, MarksOK
  <2>2. Alive(par)
    BY <2>1 DEF Dying
  <2> QED
    BY <1>2, <2>1, <2>2, ProcFacts DEF Alive, MarksOK, WAITING, HANGING, FREE_SLOT
<1>6. \/ /\ WAITING \in marks[par] /\ mmPc' = "exit_cleanup"
         /\ marks' = [marks EXCEPT ![par] = marks[par] \ {WAITING}]
      \/ /\ WAITING \notin marks[par] /\ mmPc' = "exit_orphans"
         /\ marks' = [marks EXCEPT ![src] = marks[src] \cup {HANGING}]
  BY DEF ExitMark, MmGoto
<1> HIDE DEF par
<1>7. \/ /\ marks[par] = {WAITING} /\ mmPc' = "exit_cleanup" /\ marks'[par] = {}
         /\ \A x \in Proc : x # par => marks'[x] = marks[x]
      \/ /\ marks[par] = {} /\ mmPc' = "exit_orphans" /\ marks'[src] = {HANGING}
         /\ \A x \in Proc : x # src => marks'[x] = marks[x]
  BY <1>2, <1>4, <1>5, <1>6 DEF LifeTypeOK
<1>8. p_parent[src] = par
  BY DEF par
<1>9. LifeTypeOK'
  <2>1. marks' \in [Proc -> SUBSET {WAITING, HANGING, FREE_SLOT}]
    BY <1>2, <1>4, <1>5, <1>6 DEF LifeTypeOK
  <2> QED
    BY <1>2, <1>3, <1>4, <1>7, <2>1 DEF LifeTypeOK, MmPc
<1>10. MarksOK'
  BY <1>2, <1>3, <1>4, <1>5, <1>7, ProcFacts DEF MarksOK
<1>11. FamilyExact'
  <2>1. FamilyKept'
    <3> SUFFICES ASSUME NEW c \in Slot, Taken(c)'
                 PROVE  p_parent[c] \in User /\ (Alive(p_parent[c])' \/ Dying(p_parent[c])')
      BY <1>3 DEF FamilyKept
    <3>1. Taken(c)
      BY <1>4, <1>5, <1>7, ProcFacts DEF Taken, WAITING, FREE_SLOT
    <3>2. p_parent[c] \in User /\ p_parent[c] \in Proc /\ (Alive(p_parent[c]) \/ Dying(p_parent[c]))
      BY <1>2, <3>1, ProcFacts DEF FamilyExact, FamilyKept
    <3>3. CASE p_parent[c] = src
      BY <1>3, <1>7, <3>2, <3>3 DEF Dying
    <3>4. CASE p_parent[c] # src
      <4>1. Alive(p_parent[c])
        BY <3>2, <3>4 DEF Dying
      <4>2. marks'[p_parent[c]] \subseteq marks[p_parent[c]]
        BY <1>7, <3>2, <3>4
      <4>3. marks'[p_parent[c]] \cap {HANGING, FREE_SLOT} = {}
        BY <4>1, <4>2 DEF Alive
      <4> QED
        BY <1>3, <3>2, <4>3 DEF Alive
    <3> QED
      BY <3>2, <3>3, <3>4
  <2>2. NoForgottenZombie'
    <3> SUFFICES ASSUME NEW c \in Slot, HANGING \in marks'[c], WAITING \in marks'[p_parent[c]]
                 PROVE  FALSE
      BY <1>3 DEF NoForgottenZombie
    <3>1. c \in Proc
      BY ProcFacts
    <3>2. CASE HANGING \in marks[c]
      <4>1. Taken(c) /\ WAITING \notin marks[p_parent[c]]
        BY <1>2, <3>2 DEF FamilyExact, NoForgottenZombie, Taken, HANGING, FREE_SLOT
      <4>2. p_parent[c] \in Proc
        BY <1>2, <4>1, ProcFacts DEF FamilyExact, FamilyKept
      <4> QED
        BY <1>7, <4>1, <4>2 DEF WAITING, HANGING
    <3>3. CASE HANGING \notin marks[c]
      <4>1. c = src /\ marks[par] = {} /\ marks'[par] = marks[par]
        BY <1>5, <1>7, <3>1, <3>3
      <4> QED
        BY <1>8, <4>1
    <3> QED
      BY <3>2, <3>3
  <2> QED
    BY <2>1, <2>2 DEF FamilyExact
<1>12. MemoryOK'
  BY <1>1, <1>2, <1>3, <1>4, <1>5, <1>7, ProcFacts DEF MemoryOK, WAITING, FREE_SLOT
<1>13. DescriptorsOK'
  <2>1. ~Unheard /\ ~Unheard'
    BY <1>1, <1>7 DEF Unheard
  <2>2. Counted' = Counted
    BY <1>3, <2>1 DEF Counted
  <2>3. \A p \in User : marks'[p] \in {{HANGING}, {FREE_SLOT}} => ~filp[p]
    BY <1>2, <1>4, <1>5, <1>7, ProcFacts DEF DescriptorsOK, HANGING, FREE_SLOT
  <2> QED
    BY <1>2, <1>3, <1>4, <2>2, <2>3 DEF DescriptorsOK
<1>14. LocalsOK'
  BY <1>1, <1>2, <1>3, <1>4, <1>5, <1>7, <1>8
     DEF LocalsOK, Handling, BeforeReply, ForkPc, ExitPc, WaitPc, ExecPc, AfterExit
<1>15. AnswerArrived'
  <2>1. \A q \in User : Runnable(q)' /\ pc[q] = "answer" => Runnable(q) \/ q = par
    BY <1>3, <1>4, <1>7, ProcFacts DEF Runnable, RV!Running
  <2>2. marks[par] = {WAITING} => st[par].op # "run" \/ pc[par] # "answer"
    BY <1>2, <1>5, DoingFacts DEF DueOK, Expecting
  <2> QED
    BY <1>2, <1>3, <1>4, <1>7, <2>1, <2>2, ProcFacts DEF AnswerArrived, Runnable, RV!Running
<1>16. ASSUME NEW q \in User PROVE ShapeOK(q)' /\ DueOK(q)'
  <2>1. Expecting(q)' <=> Expecting(q)
    BY <1>3 DEF Expecting
  <2>2. (Owed(q) <=> q = src) /\ ~Late(q) /\ ~ExecEarly(q) /\ (Late(q)' => q = src)
    BY <1>1, <1>2, <1>3, DoingFacts DEF Owed, Late, ExecEarly, BeforeReply
  <2>3. Owed(q)' <=> mmPc' = "exit_cleanup" /\ q = par
    BY <1>2, <1>3, <1>7, <1>8, DoingFacts DEF Owed, BeforeReply
  <2>4. CASE q = src
    <3>1. ShapeOK(q)'
      BY <1>2, <1>3, <1>4, <1>5, <1>7, <2>2, <2>4, DoingFacts
         DEF ShapeOK, Expecting, HANGING, FREE_SLOT
    <3>2. mmPc' = "exit_cleanup" => marks'[q] = {} /\ q # par
      BY <1>4, <1>5, <1>7, <2>4
    <3>3. mmPc' = "exit_orphans" => marks'[q] = {HANGING}
      BY <1>7, <2>4
    <3> QED
      BY <1>1, <1>2, <1>3, <1>4, <1>5, <1>7, <1>8, <2>1, <2>3, <2>4, <3>1, <3>2, <3>3
         DEF DueOK, WAITING, HANGING, FREE_SLOT
  <2>5. CASE q = par /\ marks[par] = {WAITING}
    <3>1. Expecting(q) /\ call[q] = WAIT /\ marks'[q] = {} /\ mmPc' = "exit_cleanup"
      BY <1>2, <1>7, <2>5 DEF DueOK, WAITING
    <3>2. ShapeOK(q)'
      BY <1>2, <1>3, <1>7, <2>2, <2>5, <3>1, DoingFacts DEF ShapeOK, WAITING, FREE_SLOT, Expecting
    <3>3. box[q].source \in User
      BY <1>1, <1>2, <2>5, <3>1 DEF DueOK, WAITING, FREE_SLOT
    <3>4. q # src
      BY <1>5, <2>5
    <3> QED
      BY <1>3, <2>1, <2>3, <2>5, <3>1, <3>2, <3>3, <3>4 DEF DueOK
  <2>6. CASE q # src /\ ~(q = par /\ marks[par] = {WAITING})
    <3>1. marks'[q] = marks[q] /\ ~Owed(q)' /\ ~Late(q)'
      BY <1>7, <2>2, <2>3, <2>6, ProcFacts DEF WAITING
    <3>2. /\ mmPc' \notin {"fork_mem", "fork_fs", "fork_fsrecv", "fork_birth", "exec_reply"}
          /\ ~(mmPc' \in {"exit_cleanup", "orphan_cleanup"} /\ q = p_parent'[child'])
      BY <1>3, <1>7, <1>8, <2>6 DEF WAITING
    <3> QED
      BY <1>1, <1>2, <1>3, <2>2, <2>6, <3>1, <3>2, UserKept
  <2> QED
    BY <2>4, <2>5, <2>6
<1>17. MmOK' /\ RequestTaken' /\ ReplyPending' /\ FsOK'
  BY <1>2, <1>3, <1>7, MmAlone DEF AsksPc
<1> QED
  BY <1>2, <1>3, <1>9, <1>10, <1>11, <1>12, <1>13, <1>14, <1>15, <1>16, <1>17, Assembled DEF CallsOK

\* p_flags = FREE_SLOT, for the exited child of a process that has been told.
LEMMA FreesIInv ==
  ASSUME IInv, ExitFrees \/ OrphanFrees \/ WaitFrees
  PROVE  IInv'
<1>1. /\ Runs(TASK_MM)
      /\ \/ mmPc = "exit_free" /\ mmPc' = "exit_orphans"
         \/ mmPc = "orphan_free" /\ mmPc' = "exit_orphans"
         \/ mmPc = "wait_free" /\ mmPc' = "loop"
      /\ marks' = [marks EXCEPT ![child] = {FREE_SLOT}]
      /\ st' = [st EXCEPT ![child] = Run]
  BY DEF ExitFrees, OrphanFrees, WaitFrees, Frees, At, MmGoto, Run
<1>2. /\ ~stopped /\ st[TASK_MM] = Run /\ LifeTypeOK /\ MarksOK /\ LocalsOK /\ CallsOK
      /\ AnswerArrived /\ FsIdle /\ MemoryOK /\ DescriptorsOK /\ FamilyExact
      /\ \A q \in User : ShapeOK(q) /\ DueOK(q)
  BY <1>1, MmRuns DEF AsksPc
<1>3. UNCHANGED <<box, pend, stopped, pc, call, forks, p_parent, space, filp, fd_cnt, fsAt, crossed,
                  msgtype, src, child, reg>>
  BY DEF ExitFrees, OrphanFrees, WaitFrees, Frees, KeepUsers, mem, locals
<1>4. /\ child \in Slot /\ child \in User /\ child \in Proc
      /\ child # TASK_MM /\ child # TASK_FS /\ child # PID_INIT
      /\ \/ mmPc = "exit_free" /\ child = src
         \/ mmPc # "exit_free" /\ marks[child] = {HANGING} /\ child # src
      /\ ~filp[child] /\ src \in User /\ src \in Proc
  <2>1. child \in Slot
    <3>1. CASE mmPc = "exit_free"
      <4>1. child \in Proc /\ p_parent[child] \in User
        BY <1>2, <3>1 DEF LocalsOK, LifeTypeOK
      <4> QED
        BY <1>2, <4>1, ProcFacts DEF MarksOK
    <3>2. CASE mmPc # "exit_free"
      BY <1>1, <1>2, <3>2 DEF LocalsOK
    <3> QED
      BY <3>1, <3>2
  <2>2. \/ mmPc = "exit_free" /\ child = src
        \/ mmPc # "exit_free" /\ marks[child] = {HANGING} /\ child # src
    BY <1>1, <1>2 DEF LocalsOK
  <2>3. ~filp[child]
    BY <1>2, <2>1, <2>2, ProcFacts DEF DescriptorsOK, ExitHeard, AfterExit
  <2> QED
    BY <1>1, <1>2, <2>1, <2>2, <2>3, ProcFacts DEF LocalsOK, Handling
<1>5. /\ \A x \in Proc : x # child => marks'[x] = marks[x] /\ st'[x] = st[x]
      /\ marks'[child] = {FREE_SLOT} /\ st'[child] = Run
  BY <1>1, <1>2, <1>4 DEF LifeTypeOK
<1>6. LifeTypeOK'
  BY <1>1, <1>2, <1>3, <1>4, DoingTypes DEF LifeTypeOK, MmPc
<1>7. MarksOK'
  BY <1>2, <1>3, <1>4, <1>5, ProcFacts DEF MarksOK
<1>8. FamilyExact'
  <2>1. ASSUME NEW c \in Slot, c # child, Taken(c)
        PROVE  p_parent[c] \in User /\ (Alive(p_parent[c])' \/ Dying(p_parent[c])')
    <3>1. p_parent[c] \in User /\ p_parent[c] \in Proc /\ (Alive(p_parent[c]) \/ Dying(p_parent[c]))
      BY <1>2, <2>1, ProcFacts DEF FamilyExact, FamilyKept
    <3>2. Dying(p_parent[c]) => Dying(p_parent[c])'
      BY <1>1, <1>3 DEF Dying
    <3>3. Alive(p_parent[c]) /\ p_parent[c] = child => Dying(p_parent[c])'
      BY <1>1, <1>3, <1>4 DEF Alive, Dying
    <3>4. Alive(p_parent[c]) /\ p_parent[c] # child => Alive(p_parent[c])'
      BY <1>3, <1>5, <3>1 DEF Alive
    <3> QED
      BY <3>1, <3>2, <3>3, <3>4
  <2>2. FamilyKept'
    BY <1>3, <1>5, <2>1, ProcFacts DEF FamilyKept, Taken
  <2>3. NoForgottenZombie'
    <3> SUFFICES ASSUME NEW c \in Slot, HANGING \in marks'[c], WAITING \in marks'[p_parent[c]]
                 PROVE  FALSE
      BY <1>3 DEF NoForgottenZombie
    <3>1. c # child /\ HANGING \in marks[c] /\ Taken(c)
      BY <1>5, ProcFacts DEF Taken, HANGING, FREE_SLOT
    <3>2. WAITING \notin marks[p_parent[c]] /\ p_parent[c] \in Proc
      BY <1>2, <3>1, ProcFacts DEF FamilyExact, NoForgottenZombie, FamilyKept
    <3> QED
      BY <1>5, <3>2 DEF WAITING, FREE_SLOT
  <2> QED
    BY <2>2, <2>3 DEF FamilyExact
<1>9. MemoryOK'
  BY <1>1, <1>2, <1>3, <1>5, ProcFacts DEF MemoryOK
<1>10. DescriptorsOK'
  <2>1. ~Unheard /\ ~Unheard' /\ (ExitHeard' => ExitHeard)
    BY <1>1 DEF Unheard, ExitHeard, AfterExit
  <2>2. Counted' = Counted
    BY <1>3, <2>1 DEF Counted
  <2> QED
    BY <1>2, <1>3, <1>4, <1>5, <2>1, <2>2, ProcFacts DEF DescriptorsOK
<1>11. LocalsOK'
  BY <1>1, <1>2, <1>3, <1>4, <1>5
     DEF LocalsOK, Handling, BeforeReply, ForkPc, ExitPc, WaitPc, ExecPc, AfterExit
<1>12. AnswerArrived'
  BY <1>2, <1>3, <1>5, ProcFacts DEF AnswerArrived, Runnable, RV!Running
<1>13. ASSUME NEW q \in User PROVE ShapeOK(q)' /\ DueOK(q)'
  <2>1. ~Owed(q) /\ ~Owed(q)' /\ ~ExecEarly(q) /\ ~Late(q)'
    BY <1>1, <1>2, <1>3, <1>4, <1>5, ProcFacts, DoingFacts
       DEF Owed, Late, ExecEarly, BeforeReply
  <2>2. CASE q = child
    <3>1. ShapeOK(q)'
      BY <1>5, <2>2, DoingFacts DEF ShapeOK
    <3> QED
      BY <1>1, <1>5, <2>1, <2>2, <3>1 DEF DueOK, Late, WAITING, HANGING, FREE_SLOT
  <2>3. CASE q # child
    <3>1. ~Late(q)
      BY <1>1, <1>4, <2>3 DEF Late
    <3> QED
      BY <1>1, <1>2, <1>3, <1>5, <2>1, <2>3, <3>1, ProcFacts, UserKept
  <2> QED
    BY <2>2, <2>3
<1>14. MmOK' /\ RequestTaken' /\ ReplyPending' /\ FsOK'
  BY <1>1, <1>2, <1>3, <1>4, <1>5, ProcFacts, MmAlone DEF AsksPc
<1> QED
  BY <1>2, <1>3, <1>6, <1>7, <1>8, <1>9, <1>10, <1>11, <1>12, <1>13, <1>14, Assembled DEF CallsOK

\* The children of the caller of exit() get a new parent; a waiting INIT is
\* told of the first zombie among them.
LEMMA Adoption ==
  ASSUME IInv, ExitOrphans
  PROVE  \E moved \in SUBSET Kids(src) :
           /\ p_parent' = [i \in Proc |-> IF i \in moved THEN PID_INIT ELSE p_parent[i]]
           /\ \/ /\ moved = Kids(src) /\ mmPc' = "loop" /\ UNCHANGED <<marks, child>>
                 /\ WAITING \in marks[PID_INIT] => Zombies(Kids(src)) = {}
              \/ /\ mmPc' = "orphan_cleanup" /\ marks[PID_INIT] = {WAITING}
                 /\ marks' = [marks EXCEPT ![PID_INIT] = {}]
                 /\ child' \in moved /\ HANGING \in marks[child']
<1>1. IInv /\ Runs(TASK_MM)
  BY DEF ExitOrphans, At
<1>2. LifeTypeOK /\ MarksOK
  BY <1>1, MmRuns
<1> DEFINE told == IF WAITING \in marks[PID_INIT] THEN Zombies(Kids(src)) ELSE {}
           c == Min(told)
<1>3. CASE told = {}
  <2>1. /\ p_parent' = [i \in Proc |-> IF i \in Kids(src) THEN PID_INIT ELSE p_parent[i]]
        /\ mmPc' = "loop" /\ UNCHANGED <<marks, child>>
    BY <1>3 DEF ExitOrphans, MmGoto
  <2>2. WAITING \in marks[PID_INIT] => Zombies(Kids(src)) = {}
    BY <1>3
  <2> QED
    BY <2>1, <2>2
<1>4. CASE told # {}
  <2>1. told \subseteq Kids(src) /\ Kids(src) \subseteq Proc
    BY DEF Zombies, Kids
  <2>2. c \in told
    BY <1>4, <2>1, MinOf
  <2> DEFINE moved == {i \in Kids(src) : i <= c}
  <2>3. /\ p_parent' = [i \in Proc |-> IF i \in moved THEN PID_INIT ELSE p_parent[i]]
        /\ mmPc' = "orphan_cleanup" /\ child' = c
        /\ marks' = [marks EXCEPT ![PID_INIT] = marks[PID_INIT] \ {WAITING}]
    BY <1>4 DEF ExitOrphans, MmGoto
  <2>4. marks[PID_INIT] = {WAITING}
    BY <1>2, <1>4 DEF MarksOK
  <2>5. marks' = [marks EXCEPT ![PID_INIT] = {}]
    <3>1. marks[PID_INIT] \ {WAITING} = {}
      BY <2>4
    <3> QED
      BY <2>3, <3>1
  <2>6. told = Zombies(Kids(src))
    BY <1>4
  <2> HIDE DEF c, told
  <2>7. c \in Nat /\ c \in Kids(src) /\ HANGING \in marks[c]
    BY <2>1, <2>2, <2>6, ProcFacts DEF Zombies
  <2>8. c \in moved
    BY <2>7
  <2>9. moved \in SUBSET Kids(src)
    OBVIOUS
  <2> HIDE DEF moved
  <2> QED
    BY <2>3, <2>4, <2>5, <2>7, <2>8, <2>9
<1> QED
  BY <1>3, <1>4

LEMMA ExitOrphansIInv ==
  ASSUME IInv, ExitOrphans
  PROVE  IInv'
<1>1. Runs(TASK_MM) /\ mmPc = "exit_orphans"
  BY DEF ExitOrphans, At
<1>2. /\ ~stopped /\ st[TASK_MM] = Run /\ LifeTypeOK /\ MarksOK /\ LocalsOK /\ CallsOK
      /\ AnswerArrived /\ FsIdle /\ MemoryOK /\ DescriptorsOK /\ FamilyExact
      /\ \A q \in User : ShapeOK(q) /\ DueOK(q)
  BY <1>1, MmRuns DEF AsksPc
<1>3. UNCHANGED <<st, box, pend, stopped, pc, call, forks, space, filp, fd_cnt, fsAt, crossed,
                  msgtype, src, reg>>
  BY DEF ExitOrphans, KeepUsers, ipc, mem
<1>4. PICK moved \in SUBSET Kids(src) :
        /\ p_parent' = [i \in Proc |-> IF i \in moved THEN PID_INIT ELSE p_parent[i]]
        /\ \/ /\ moved = Kids(src) /\ mmPc' = "loop" /\ UNCHANGED <<marks, child>>
              /\ WAITING \in marks[PID_INIT] => Zombies(Kids(src)) = {}
           \/ /\ mmPc' = "orphan_cleanup" /\ marks[PID_INIT] = {WAITING}
              /\ marks' = [marks EXCEPT ![PID_INIT] = {}]
              /\ child' \in moved /\ HANGING \in marks[child']
  BY Adoption
<1>5. /\ src \in User /\ src \in Proc /\ marks[src] \in {{HANGING}, {FREE_SLOT}} /\ msgtype = EXIT
      /\ call[src] = EXIT /\ PID_INIT \in Proc /\ PID_INIT # TASK_MM /\ PID_INIT # TASK_FS
      /\ src # PID_INIT
  BY <1>1, <1>2, ProcFacts
     DEF LocalsOK, MarksOK, Handling, ExitPc, AfterExit, HANGING, FREE_SLOT, WAITING
<1>6. /\ moved \subseteq Slot /\ moved \subseteq Proc
      /\ \A i \in moved : p_parent[i] = src /\ i # src /\ p_parent'[i] = PID_INIT
      /\ \A i \in Proc : i \notin moved => p_parent'[i] = p_parent[i]
  <2>1. \A i \in Kids(src) : i \in Slot /\ p_parent[i] = src /\ i # src /\ i \in Proc
    BY <1>2, <1>5, ProcFacts DEF Kids, MarksOK
  <2> QED
    BY <1>4, <2>1
<1>7. \/ /\ mmPc' = "loop" /\ marks' = marks /\ child' = child /\ moved = Kids(src)
         /\ WAITING \in marks[PID_INIT] => Zombies(Kids(src)) = {}
      \/ /\ mmPc' = "orphan_cleanup" /\ marks[PID_INIT] = {WAITING} /\ marks'[PID_INIT] = {}
         /\ \A x \in Proc : x # PID_INIT => marks'[x] = marks[x]
         /\ child' \in Slot /\ child' # src /\ p_parent'[child'] = PID_INIT
         /\ child' \in Proc /\ marks[child'] = {HANGING}
  <2>1. \A c \in Slot : HANGING \in marks[c] => marks[c] = {HANGING}
    BY <1>2, ProcFacts DEF MarksOK, HANGING, FREE_SLOT, WAITING
  <2> QED
    BY <1>2, <1>4, <1>5, <1>6, <2>1 DEF LifeTypeOK
<1>8. LifeTypeOK'
  <2>1. marks' \in [Proc -> SUBSET {WAITING, HANGING, FREE_SLOT}]
    BY <1>2, <1>4, <1>5 DEF LifeTypeOK
  <2>2. p_parent' \in [Proc -> User \cup {NO_TASK}]
    BY <1>2, <1>4, ProcFacts DEF LifeTypeOK
  <2> QED
    BY <1>2, <1>3, <1>7, <2>1, <2>2 DEF LifeTypeOK, MmPc
<1>9. MarksOK'
  <2>1. \A p \in Proc : marks'[p] = marks[p] \/ (p = PID_INIT /\ marks'[p] = {})
    BY <1>7
  <2>2. \A p \in Proc \ Slot : p_parent'[p] = NO_TASK
    BY <1>2, <1>6 DEF MarksOK
  <2>3. \A c \in Slot : p_parent'[c] # c
    BY <1>2, <1>6, ProcFacts DEF MarksOK
  <2> QED
    BY <1>2, <1>5, <2>1, <2>2, <2>3, ProcFacts DEF MarksOK
<1>10. FamilyExact'
  <2>1. FamilyKept'
    <3> SUFFICES ASSUME NEW c \in Slot, Taken(c)'
                 PROVE  p_parent'[c] \in User /\ (Alive(p_parent[c])' \/ Dying(p_parent[c])')
      BY DEF FamilyKept
    <3>1. Taken(c) /\ c \in Proc
      BY <1>7, ProcFacts DEF Taken
    <3>2. CASE c \in moved
      <4>1. marks'[PID_INIT] \in {{}, {WAITING}}
        BY <1>2, <1>7 DEF MarksOK
      <4> QED
        BY <1>6, <3>2, <4>1, ProcFacts DEF Alive, WAITING, HANGING, FREE_SLOT
    <3>3. CASE c \notin moved
      <4>1. /\ p_parent'[c] = p_parent[c] /\ p_parent[c] \in User /\ p_parent[c] \in Proc
            /\ Alive(p_parent[c]) \/ Dying(p_parent[c])
        BY <1>2, <1>6, <3>1, <3>3, ProcFacts DEF FamilyExact, FamilyKept
      <4>2. CASE p_parent[c] = src
        <5>1. mmPc' = "orphan_cleanup"
          BY <1>7, <3>1, <3>3, <4>2 DEF Kids
        <5> QED
          BY <1>3, <4>1, <4>2, <5>1 DEF Dying
      <4>3. CASE p_parent[c] # src
        <5>1. Alive(p_parent[c])
          BY <4>1, <4>3 DEF Dying
        <5>2. marks'[p_parent[c]] = marks[p_parent[c]] \/ marks'[p_parent[c]] = {}
          BY <1>7, <4>1
        <5> QED
          BY <4>1, <5>1, <5>2 DEF Alive
      <4> QED
        BY <4>2, <4>3
    <3> QED
      BY <3>2, <3>3
  <2>2. NoForgottenZombie'
    <3> SUFFICES ASSUME NEW c \in Slot, HANGING \in marks'[c], WAITING \in marks'[p_parent'[c]]
                 PROVE  FALSE
      BY DEF NoForgottenZombie
    <3>1. HANGING \in marks[c] /\ c \in Proc /\ Taken(c) /\ WAITING \notin marks[p_parent[c]]
      BY <1>2, <1>7, ProcFacts DEF FamilyExact, NoForgottenZombie, Taken, HANGING, FREE_SLOT
    <3>2. CASE c \in moved
      BY <1>6, <1>7, <3>1, <3>2 DEF Zombies
    <3>3. CASE c \notin moved
      <4>1. p_parent'[c] = p_parent[c] /\ p_parent[c] \in Proc
        BY <1>2, <1>6, <3>1, <3>3, ProcFacts DEF FamilyExact, FamilyKept
      <4> QED
        BY <1>7, <3>1, <4>1
    <3> QED
      BY <3>2, <3>3
  <2> QED
    BY <2>1, <2>2 DEF FamilyExact
<1>11. MemoryOK'
  BY <1>1, <1>2, <1>3, <1>7, ProcFacts DEF MemoryOK, WAITING, FREE_SLOT
<1>12. DescriptorsOK'
  <2>1. ~Unheard /\ ~Unheard' /\ ExitHeard
    BY <1>1, <1>7 DEF Unheard, ExitHeard, AfterExit
  <2>2. Counted' = Counted
    BY <1>3, <2>1 DEF Counted
  <2>3. \A p \in User : marks'[p] \in {{HANGING}, {FREE_SLOT}} => ~filp[p]
    BY <1>2, <1>7, ProcFacts DEF DescriptorsOK
  <2> QED
    BY <1>2, <1>3, <2>1, <2>2, <2>3 DEF DescriptorsOK
<1>13. LocalsOK'
  <2>1. marks'[src] = marks[src]
    BY <1>5, <1>7
  <2>2. mmPc' = "orphan_cleanup" => marks'[child'] = {HANGING}
    BY <1>7, ProcFacts
  <2> QED
    BY <1>1, <1>2, <1>3, <1>5, <1>7, <2>1, <2>2
       DEF LocalsOK, Handling, BeforeReply, ForkPc, ExitPc, WaitPc, ExecPc, AfterExit
<1>14. AnswerArrived'
  <2>1. marks[PID_INIT] = {WAITING} => st[PID_INIT].op # "run" \/ pc[PID_INIT] # "answer"
    BY <1>2, ProcFacts, DoingFacts DEF DueOK, Expecting
  <2> QED
    BY <1>2, <1>3, <1>7, <2>1, ProcFacts DEF AnswerArrived, Runnable, RV!Running
<1>15. ASSUME NEW q \in User PROVE ShapeOK(q)' /\ DueOK(q)'
  <2>1. ~Owed(q) /\ ~ExecEarly(q) /\ ~Late(q) /\ ~Late(q)'
    BY <1>1, <1>2, <1>7, DoingFacts DEF Owed, Late, ExecEarly, BeforeReply
  <2>2. Owed(q)' <=> mmPc' = "orphan_cleanup" /\ q = PID_INIT
    BY <1>2, <1>3, <1>7, DoingFacts DEF Owed, BeforeReply
  <2>3. CASE q = PID_INIT /\ mmPc' = "orphan_cleanup"
    <3>1. Expecting(q) /\ call[q] = WAIT /\ marks'[q] = {} /\ marks[q] = {WAITING}
      BY <1>2, <1>7, <2>3 DEF DueOK
    <3>2. ShapeOK(q)' /\ Expecting(q)'
      BY <1>2, <1>3, <3>1, DoingFacts DEF ShapeOK, WAITING, FREE_SLOT, Expecting
    <3>3. box[q].source \in User
      BY <1>1, <1>2, <3>1 DEF DueOK, WAITING, FREE_SLOT
    <3> QED
      BY <1>3, <2>1, <2>2, <2>3, <3>1, <3>2, <3>3 DEF DueOK, Late
  <2>4. CASE ~(q = PID_INIT /\ mmPc' = "orphan_cleanup")
    <3>1. marks'[q] = marks[q]
      BY <1>7, <2>4, ProcFacts
    <3>2. ~(mmPc' \in {"exit_cleanup", "orphan_cleanup"} /\ q = p_parent'[child'])
      BY <1>7, <2>4
    <3> QED
      BY <1>1, <1>2, <1>3, <1>7, <2>1, <2>2, <2>4, <3>1, <3>2, UserKept
  <2> QED
    BY <2>3, <2>4
<1>16. MmOK' /\ RequestTaken' /\ ReplyPending' /\ FsOK'
  BY <1>2, <1>3, <1>7, MmAlone DEF AsksPc
<1> QED
  BY <1>2, <1>3, <1>8, <1>9, <1>10, <1>11, <1>12, <1>13, <1>14, <1>15, <1>16, Assembled DEF CallsOK

\* wait() finds a zombie, or a child to wait for, or no child.
LEMMA WaitScanIInv ==
  ASSUME IInv, WaitScan
  PROVE  IInv'
<1>1. Runs(TASK_MM) /\ mmPc = "wait_scan"
  BY DEF WaitScan, At
<1>2. /\ ~stopped /\ st[TASK_MM] = Run /\ LifeTypeOK /\ MarksOK /\ LocalsOK /\ CallsOK
      /\ AnswerArrived /\ FsIdle /\ \A q \in User : ShapeOK(q) /\ DueOK(q)
  BY <1>1, MmRuns DEF AsksPc
<1>3. UNCHANGED <<st, box, pend, stopped, pc, call, forks, marks, p_parent, space, filp, fd_cnt,
                  fsAt, crossed, msgtype, src>>
  BY DEF WaitScan, KeepUsers, ipc, mem, table
<1>4. /\ src \in User /\ src \in Proc /\ marks[src] = {} /\ msgtype = WAIT /\ call[src] = WAIT
  BY <1>1, <1>2, ProcFacts DEF LocalsOK, Handling, BeforeReply, WaitPc
<1>5. \/ /\ mmPc' = "wait_cleanup" /\ child' \in Slot /\ marks[child'] = {HANGING}
         /\ p_parent[child'] = src /\ child' # src /\ reg' = reg
      \/ /\ mmPc' = "wait_store" /\ Zombies(Kids(src)) = {} /\ reg' = st[src] /\ child' = child
      \/ mmPc' = "wait_nobody" /\ UNCHANGED <<child, reg>>
  <2>1. CASE Zombies(Kids(src)) # {}
    <3> DEFINE c == Min(Zombies(Kids(src)))
    <3>1. child' = c /\ mmPc' = "wait_cleanup" /\ reg' = reg
      BY <2>1 DEF WaitScan, MmGoto
    <3>2. c \in Zombies(Kids(src))
      <4>1. Zombies(Kids(src)) \subseteq Proc
        BY DEF Zombies, Kids
      <4> QED
        BY <2>1, <4>1, MinOf
    <3> HIDE DEF c
    <3>3. c \in Proc /\ p_parent[c] = src /\ HANGING \in marks[c]
      BY <3>2 DEF Zombies, Kids
    <3>4. c \in Slot
      BY <1>2, <1>4, <3>3, ProcFacts DEF MarksOK
    <3>5. marks[c] = {HANGING}
      BY <1>2, <3>3, <3>4, ProcFacts DEF MarksOK, HANGING, WAITING, FREE_SLOT
    <3> QED
      BY <1>4, <3>1, <3>3, <3>4, <3>5
  <2>2. CASE Zombies(Kids(src)) = {}
    BY <2>2 DEF WaitScan, MmGoto
  <2> QED
    BY <2>1, <2>2
<1>6. LifeTypeOK'
  BY <1>2, <1>3, <1>4, <1>5, ProcFacts DEF LifeTypeOK, MmPc
<1>7. FamilyExact' /\ MarksOK' /\ MemoryOK'
  BY <1>1, <1>3, FamilyFrame, MarksFrame, MemoryFrame DEF IInv, Dying
<1>8. DescriptorsOK'
  BY <1>1, <1>3, <1>5, DescriptorsFrame DEF IInv, Unheard, ExitHeard, AfterExit
<1>9. LocalsOK'
  <2>1. Zombies(Kids(src))' = Zombies(Kids(src))
    BY <1>3 DEF Zombies, Kids
  <2> QED
    BY <1>1, <1>2, <1>3, <1>4, <1>5, <2>1
       DEF LocalsOK, Handling, BeforeReply, ForkPc, ExitPc, WaitPc, ExecPc, AfterExit
<1>10. AnswerArrived'
  BY <1>2, <1>3 DEF AnswerArrived, Runnable, RV!Running
<1>11. ASSUME NEW q \in User PROVE ShapeOK(q)' /\ DueOK(q)'
  <2>1. ~Late(q) /\ ~Late(q)' /\ ~ExecEarly(q) /\ (Owed(q)' <=> Owed(q))
    BY <1>1, <1>2, <1>3, <1>5, DoingFacts DEF Late, ExecEarly, Owed, BeforeReply
  <2> QED
    BY <1>1, <1>2, <1>3, <1>5, <2>1, UserKept
<1>12. MmOK' /\ RequestTaken' /\ ReplyPending' /\ FsOK'
  BY <1>2, <1>3, <1>5, MmAlone DEF AsksPc
<1> QED
  BY <1>2, <1>3, <1>6, <1>7, <1>8, <1>9, <1>10, <1>11, <1>12, Assembled DEF CallsOK

\* p_flags |= WAITING: what is written back is what was read.
LEMMA WaitStoreIInv ==
  ASSUME IInv, WaitStore
  PROVE  IInv'
<1>1. Runs(TASK_MM) /\ mmPc = "wait_store" /\ mmPc' = "loop"
  BY DEF WaitStore, At, MmGoto
<1>2. /\ ~stopped /\ st[TASK_MM] = Run /\ LifeTypeOK /\ MarksOK /\ LocalsOK /\ CallsOK
      /\ AnswerArrived /\ FsIdle /\ MemoryOK /\ DescriptorsOK /\ FamilyExact
      /\ \A q \in User : ShapeOK(q) /\ DueOK(q)
  BY <1>1, MmRuns DEF AsksPc
<1>3. UNCHANGED <<box, pend, stopped, pc, call, forks, p_parent, space, filp, fd_cnt,
                  fsAt, crossed, msgtype, src, child, reg>>
  BY DEF WaitStore, KeepUsers, mem, locals
<1>4. /\ src \in User /\ src \in Proc /\ marks[src] = {} /\ msgtype = WAIT /\ call[src] = WAIT
      /\ Zombies(Kids(src)) = {} /\ reg = st[src] /\ Owed(src) /\ Expecting(src)
      /\ src # TASK_MM /\ src # TASK_FS
  <2>1. /\ src \in User /\ marks[src] = {} /\ msgtype = WAIT /\ call[src] = msgtype /\ Owed(src)
        /\ Zombies(Kids(src)) = {} /\ reg = st[src]
    BY <1>1, <1>2 DEF LocalsOK, Handling, BeforeReply, WaitPc, Owed
  <2> QED
    BY <1>1, <1>2, <2>1, ProcFacts DEF DueOK, ExecEarly
<1>5. /\ st' = st /\ marks'[src] = {WAITING}
      /\ \A x \in Proc : x # src => marks'[x] = marks[x]
  BY <1>2, <1>4 DEF WaitStore, LifeTypeOK
<1>6. LifeTypeOK'
  <2>1. marks' \in [Proc -> SUBSET {WAITING, HANGING, FREE_SLOT}]
    BY <1>2, <1>4 DEF WaitStore, LifeTypeOK
  <2> QED
    BY <1>1, <1>2, <1>3, <1>5, <2>1 DEF LifeTypeOK, MmPc
<1>7. MarksOK'
  BY <1>2, <1>3, <1>4, <1>5, ProcFacts DEF MarksOK
<1>8. FamilyExact'
  <2>1. FamilyKept'
    <3> SUFFICES ASSUME NEW c \in Slot, Taken(c)'
                 PROVE  p_parent[c] \in User /\ Alive(p_parent[c])'
      BY <1>3 DEF FamilyKept
    <3>1. Taken(c) /\ ~Dying(p_parent[c])
      BY <1>1, <1>4, <1>5, ProcFacts DEF Taken, Dying, FREE_SLOT
    <3>2. p_parent[c] \in User /\ p_parent[c] \in Proc /\ Alive(p_parent[c])
      BY <1>2, <3>1, ProcFacts DEF FamilyExact, FamilyKept
    <3> QED
      BY <1>3, <1>5, <3>2 DEF Alive, WAITING, HANGING, FREE_SLOT
  <2>2. NoForgottenZombie'
    <3> SUFFICES ASSUME NEW c \in Slot, HANGING \in marks'[c], WAITING \in marks'[p_parent[c]]
                 PROVE  FALSE
      BY <1>3 DEF NoForgottenZombie
    <3>1. HANGING \in marks[c] /\ c \in Proc /\ Taken(c) /\ WAITING \notin marks[p_parent[c]]
      BY <1>2, <1>5, ProcFacts
         DEF FamilyExact, NoForgottenZombie, Taken, HANGING, FREE_SLOT, WAITING
    <3>2. p_parent[c] \in Proc /\ p_parent[c] # src
      BY <1>2, <1>4, <3>1, ProcFacts DEF FamilyExact, FamilyKept, Zombies, Kids
    <3> QED
      BY <1>5, <3>1, <3>2
  <2> QED
    BY <2>1, <2>2 DEF FamilyExact
<1>9. MemoryOK'
  BY <1>1, <1>2, <1>3, <1>4, <1>5, ProcFacts DEF MemoryOK, FREE_SLOT
<1>10. DescriptorsOK'
  <2>1. ~Unheard /\ ~Unheard' /\ ~ExitHeard'
    BY <1>1 DEF Unheard, ExitHeard, AfterExit
  <2>2. Counted' = Counted
    BY <1>3, <2>1 DEF Counted
  <2> QED
    BY <1>2, <1>3, <1>5, <2>1, <2>2, ProcFacts DEF DescriptorsOK, WAITING, HANGING, FREE_SLOT
<1>11. LocalsOK'
  BY <1>1, <1>2, <1>3
     DEF LocalsOK, Handling, BeforeReply, ForkPc, ExitPc, WaitPc, ExecPc, AfterExit
<1>12. AnswerArrived'
  BY <1>2, <1>3, <1>5, ProcFacts DEF AnswerArrived, Runnable, RV!Running
<1>13. ASSUME NEW q \in User PROVE ShapeOK(q)' /\ DueOK(q)'
  <2>1. /\ ~Owed(q)' /\ ~Late(q) /\ ~Late(q)' /\ ~ExecEarly(q) /\ (Owed(q) <=> q = src)
        /\ (Expecting(q)' <=> Expecting(q))
    BY <1>1, <1>2, <1>3, <1>5, DoingFacts DEF Late, ExecEarly, Owed, BeforeReply, Expecting
  <2>2. CASE q = src
    <3>1. ShapeOK(q)'
      BY <1>2, <1>3, <1>4, <1>5, <2>1, <2>2, DoingFacts
         DEF ShapeOK, Expecting, WAITING, FREE_SLOT
    <3>2. box[q].source \in User
      BY <1>1, <1>2, <1>4, <2>2 DEF DueOK, FREE_SLOT
    <3> QED
      BY <1>1, <1>3, <1>4, <1>5, <2>1, <2>2, <3>1, <3>2 DEF DueOK
  <2>3. CASE q # src
    BY <1>1, <1>2, <1>3, <1>5, <2>1, <2>3, ProcFacts, UserKept
  <2> QED
    BY <2>2, <2>3
<1>14. MmOK' /\ RequestTaken' /\ ReplyPending' /\ FsOK'
  BY <1>1, <1>2, <1>3, <1>5, MmAlone DEF AsksPc
<1> QED
  BY <1>2, <1>3, <1>6, <1>7, <1>8, <1>9, <1>10, <1>11, <1>12, <1>13, <1>14, Assembled DEF CallsOK

\* exec() changes its caller's registers, and only then answers it.
LEMMA ExecRegsIInv ==
  ASSUME IInv, ExecRegs
  PROVE  IInv'
<1>1. Runs(TASK_MM) /\ mmPc = "exec_regs"
  BY DEF ExecRegs, At
<1>2. /\ ~stopped /\ st[TASK_MM] = Run /\ LifeTypeOK /\ MarksOK /\ LocalsOK /\ CallsOK
      /\ AnswerArrived /\ FsIdle /\ \A q \in User : ShapeOK(q) /\ DueOK(q)
  BY <1>1, MmRuns DEF AsksPc
<1>3. UNCHANGED <<st, box, pend, stopped, call, forks, marks, p_parent, space, filp, fd_cnt,
                  fsAt, crossed, msgtype, src, child, reg>>
  BY DEF ExecRegs, ipc, table, locals
<1>4. /\ src \in User /\ src \in Proc /\ marks[src] = {} /\ msgtype = EXEC /\ call[src] = EXEC
      /\ Owed(src) /\ Expecting(src)
  <2>1. src \in User /\ marks[src] = {} /\ msgtype = EXEC /\ call[src] = msgtype /\ Owed(src)
    BY <1>1, <1>2 DEF LocalsOK, Handling, BeforeReply, ExecPc, Owed
  <2> QED
    BY <1>1, <1>2, <2>1, ProcFacts DEF DueOK, ExecEarly
<1>5. \/ /\ mmPc' = "exec_reply" /\ pc'[src] = "program"
         /\ \A x \in Proc : x # src => pc'[x] = pc[x]
      \/ mmPc' = "exec_fail" /\ pc' = pc
  BY <1>2, <1>4 DEF ExecRegs, MmGoto, LifeTypeOK
<1>6. LifeTypeOK'
  <2>1. pc' \in [Proc -> {"program", "sent", "answer", "spin"}]
    BY <1>2, <1>4 DEF ExecRegs, LifeTypeOK
  <2> QED
    BY <1>2, <1>3, <1>5, <2>1 DEF LifeTypeOK, MmPc
<1>7. FamilyExact' /\ MarksOK' /\ MemoryOK'
  BY <1>1, <1>3, FamilyFrame, MarksFrame, MemoryFrame DEF IInv, Dying
<1>8. DescriptorsOK'
  BY <1>1, <1>3, <1>5, DescriptorsFrame DEF IInv, Unheard, ExitHeard, AfterExit
<1>9. LocalsOK'
  BY <1>1, <1>2, <1>3, <1>4, <1>5
     DEF LocalsOK, Handling, BeforeReply, ForkPc, ExitPc, WaitPc, ExecPc, AfterExit
<1>10. AnswerArrived'
  BY <1>2, <1>3, <1>4, <1>5, ProcFacts DEF AnswerArrived, Runnable, RV!Running
<1>11. ASSUME NEW q \in User PROVE ShapeOK(q)' /\ DueOK(q)'
  <2>1. ~Late(q) /\ ~Late(q)' /\ ~ExecEarly(q) /\ (Owed(q)' <=> Owed(q)) /\ (Owed(q) <=> q = src)
    BY <1>1, <1>2, <1>3, <1>5, DoingFacts DEF Late, ExecEarly, Owed, BeforeReply
  <2>2. CASE q = src /\ mmPc' = "exec_reply"
    <3>1. pc'[q] = "program" /\ st[q] \in {Run, RecvOf(TASK_MM)}
      BY <1>4, <1>5, <2>2 DEF Expecting
    <3>2. ExecEarly(q)' /\ ~Expecting(q)'
      BY <1>3, <1>4, <2>2, <3>1 DEF ExecEarly, Expecting
    <3>3. ShapeOK(q)'
      BY <1>3, <1>4, <2>2, <3>1, <3>2, DoingFacts DEF ShapeOK, FREE_SLOT
    <3> QED
      BY <1>3, <1>4, <2>1, <2>2, <3>2, <3>3 DEF DueOK, Late, WAITING, HANGING
  <2>3. CASE ~(q = src /\ mmPc' = "exec_reply")
    <3>1. pc'[q] = pc[q]
      BY <1>5, <2>3, ProcFacts
    <3> QED
      BY <1>1, <1>2, <1>3, <1>5, <2>1, <2>3, <3>1, UserKept
  <2> QED
    BY <2>2, <2>3
<1>12. MmOK' /\ RequestTaken' /\ ReplyPending' /\ FsOK'
  BY <1>2, <1>3, <1>5, MmAlone DEF AsksPc
<1> QED
  BY <1>2, <1>3, <1>6, <1>7, <1>8, <1>9, <1>10, <1>11, <1>12, Assembled DEF CallsOK

-----------------------------------------------------------------------------
(***************************************************************************)
(* The invariant holds, and what follows from it.                          *)
(***************************************************************************)

LEMMA InitIInv ==
  ASSUME LifeInit
  PROVE  IInv
<1>1. /\ \A p \in Proc : /\ st[p] = Run /\ box[p] = Message(p, SYSCALL_RET, NO_TASK, 0)
                         /\ marks[p] = IF p \in Slot THEN {FREE_SLOT} ELSE {}
                         /\ p_parent[p] = NO_TASK /\ space[p] = p
                         /\ filp[p] = (p = PID_INIT) /\ pc[p] = "program" /\ call[p] = WAIT
      /\ ~stopped /\ fd_cnt = 1 /\ mmPc = "loop" /\ fsAt = "loop" /\ msgtype = "none"
      /\ src = TASK_MM /\ child = TASK_MM /\ reg = Run /\ crossed = FALSE
  BY DEF LifeInit, Run
<1>2. LifeTypeOK
  <2>1. \A p \in Proc : Message(p, SYSCALL_RET, NO_TASK, 0) \in Messages
    BY MessageType
  <2>2. box \in [Proc -> Messages]
    BY <2>1 DEF LifeInit
  <2>3. st \in [Proc -> Doings]
    BY DoingTypes DEF LifeInit, Run
  <2>4. marks \in [Proc -> SUBSET {WAITING, HANGING, FREE_SLOT}]
    BY DEF LifeInit
  <2>5. /\ p_parent \in [Proc -> User \cup {NO_TASK}] /\ space \in [Proc -> Proc]
        /\ filp \in [Proc -> BOOLEAN] /\ pc \in [Proc -> {"program", "sent", "answer", "spin"}]
        /\ call \in [Proc -> {FORK, EXIT, WAIT, EXEC}]
        /\ pend = [p \in Proc |-> FALSE] /\ stopped \in BOOLEAN
    BY DEF LifeInit
  <2>6. forks \in 0 .. InitForks /\ fd_cnt \in Nat
    BY ProcAssumption DEF LifeInit
  <2>7. reg \in Doings /\ src \in Proc /\ child \in Proc
    BY <1>1, ProcFacts, DoingTypes
  <2> QED
    BY <1>1, <2>2, <2>3, <2>4, <2>5, <2>6, <2>7 DEF LifeTypeOK, Messages, MmPc
<1>3. MarksOK
  BY <1>1, ProcFacts DEF MarksOK
<1>4. LocalsOK
  BY <1>1, ProcFacts
     DEF LocalsOK, Handling, BeforeReply, ForkPc, ExitPc, WaitPc, ExecPc, AfterExit
<1>5. FamilyExact /\ MemoryOK
  <2>1. \A c \in Slot : marks[c] = {FREE_SLOT}
    BY <1>1, ProcFacts
  <2>2. HANGING \notin {FREE_SLOT}
    BY DEF HANGING, FREE_SLOT
  <2>3. FamilyKept /\ NoForgottenZombie
    BY <2>1, <2>2 DEF FamilyKept, NoForgottenZombie, Taken
  <2> QED
    BY <1>1, <2>3, ProcFacts DEF FamilyExact, MemoryOK
<1>6. DescriptorsOK
  <2>1. ~Unheard /\ ~ExitHeard
    BY <1>1 DEF Unheard, ExitHeard, AfterExit
  <2>2. Counted = {PID_INIT}
    BY <1>1, <2>1, ProcFacts, ZenonT(60) DEF Counted
  <2>3. Cardinality(Counted) = 1
    BY <2>2, FS_Singleton
  <2> QED
    BY <1>1, <2>1, <2>3, ProcFacts, ZenonT(60) DEF DescriptorsOK, HANGING, FREE_SLOT
<1>7. AnswerArrived
  BY <1>1, ProcFacts DEF AnswerArrived
<1>8. NobodyHangs
  BY <1>1, ProcFacts, DoingFacts DEF NobodyHangs, RecvOf
<1>9. ASSUME NEW p \in User PROVE ShapeOK(p) /\ DueOK(p)
  <2>1. ~Owed(p) /\ ~Expecting(p) /\ ~ExecEarly(p)
    BY <1>1, ProcFacts, DoingFacts DEF Owed, Expecting, ExecEarly, BeforeReply
  <2> QED
    BY <1>1, <2>1, ProcFacts, DoingFacts DEF ShapeOK, DueOK, WAITING, HANGING, FREE_SLOT
<1>10. MmOK /\ RequestTaken /\ ReplyPending /\ FsOK
  BY <1>1, ProcFacts, DoingFacts DEF MmOK, RequestTaken, ReplyPending, FsOK, FsIdle, AsksPc, HearsPc
<1> QED
  BY <1>1, <1>2, <1>3, <1>4, <1>5, <1>6, <1>7, <1>8, <1>9, <1>10
     DEF IInv, CallsOK, AnswersOK

LEMMA MmStepIInv ==
  ASSUME IInv, MmStep
  PROVE  IInv'
<1>1. ASSUME Answering PROVE IInv'
  BY <1>1, AnsweringIInv
<1>2. ASSUME ForkAsksFs \/ ExitAsksFs \/ ExecAsksFs PROVE IInv'
  BY <1>2, AsksFsIInv
<1>3. ASSUME ForkHearsFs \/ ExitHearsFs \/ ExecHearsFs PROVE IInv'
  BY <1>3, HearsFsIInv
<1>4. ASSUME ExitFrees \/ OrphanFrees \/ WaitFrees PROVE IInv'
  BY <1>4, FreesIInv
<1>5. ASSUME ForkScan \/ ForkRest \/ ForkMem PROVE IInv'
  BY <1>5, ForkScanIInv, ForkRestIInv, ForkMemIInv
<1>6. ASSUME ExitMark \/ ExitOrphans \/ WaitScan \/ WaitStore PROVE IInv'
  BY <1>6, ExitMarkIInv, ExitOrphansIInv, WaitScanIInv, WaitStoreIInv
<1>7. ASSUME MmReceives \/ Dispatch \/ ExecRegs PROVE IInv'
  BY <1>7, MmReceivesIInv, DispatchIInv, ExecRegsIInv
<1> QED
  BY <1>1, <1>2, <1>3, <1>4, <1>5, <1>6, <1>7 DEF MmStep, Answering

LEMMA NextIInv ==
  ASSUME IInv, [LifeNext]_lifeVars, ~crossed'
  PROVE  IInv'
<1>1. ASSUME NEW p \in User, Calling(p) \/ Awaiting(p) \/ Returning(p) PROVE IInv'
  BY <1>1, CallingIInv, AwaitingIInv, ReturningIInv
<1>2. CASE FsStep
  BY <1>2, FsReceivesIInv, FsServesIInv DEF FsStep
<1>3. CASE MmStep
  BY <1>3, MmStepIInv
<1>4. CASE UNCHANGED lifeVars
  <2>1. UNCHANGED <<st, box, pend, stopped, pc, call, forks, marks, p_parent, space, filp, fd_cnt,
                    mmPc, msgtype, src, child, reg, fsAt, crossed>>
    BY <1>4 DEF lifeVars, ipc, mem, table, mmVars, locals
  <2> USE <2>1
  <2>2. FamilyExact' /\ MarksOK' /\ MemoryOK' /\ LifeTypeOK' /\ LocalsOK'
    BY FamilyFrame, MarksFrame, MemoryFrame
       DEF IInv, Dying, LifeTypeOK, LocalsOK, Handling, Zombies, Kids
  <2>3. DescriptorsOK'
    BY DescriptorsFrame DEF IInv, Unheard, ExitHeard
  <2>4. AnswerArrived' /\ NobodyHangs'
    BY DEF IInv, AnswersOK, AnswerArrived, NobodyHangs, AnswerDue, Newborn, Runnable,
           RV!Running
  <2>5. ASSUME NEW q \in User, ShapeOK(q), DueOK(q) PROVE ShapeOK(q)' /\ DueOK(q)'
    BY <2>5 DEF ShapeOK, DueOK, Owed, Expecting, ExecEarly
  <2>6. CallsOK => CallsOK'
    BY <2>5 DEF CallsOK, MmOK, RequestTaken, ReplyPending, FsOK, FsIdle, FsAsked, Asks, Request
  <2> QED
    BY <2>2, <2>3, <2>4, <2>6 DEF IInv, AnswersOK
<1> QED
  BY <1>1, <1>2, <1>3, <1>4 DEF LifeNext

\* No step takes crossed back.
LEMMA CrossedStays ==
  ASSUME [LifeNext]_lifeVars, ~crossed'
  PROVE  ~crossed
BY DEF LifeNext, Calling, Awaiting, Returning, FsStep, FsReceives, FsServes, MmStep, KeepUsers,
       MmReceives, Dispatch, ForkScan, ForkRest, ForkMem, ForkAsksFs, ForkHearsFs, ForkBirth,
       ForkReplies, ForkFails, ExitAsksFs, ExitHearsFs, ExitMark, ExitCleanup, ExitFrees,
       ExitOrphans, OrphanCleanup, OrphanFrees, WaitScan, WaitCleanup, WaitFrees, WaitStore,
       WaitReplies, ExecAsksFs, ExecHearsFs, ExecRegs, ExecReplies, ExecFails, AsksFs, HearsFs,
       Replies, Frees, lifeVars

LEMMA SpecIInv ==
  LifeSpec => [](crossed \/ IInv)
<1>1. LifeInit => IInv
  BY InitIInv
<1>2. (crossed \/ IInv) /\ [LifeNext]_lifeVars => (crossed \/ IInv)'
  BY NextIInv, CrossedStays
<1> QED
  BY <1>1, <1>2, PTL DEF LifeSpec

\* Until a call is crossed, every variable keeps to its type: MM and FS send
\* each other and their callers only the five messages, and the table holds
\* only processes.
THEOREM TypesKept ==
  LifeSpec => [](crossed \/ LifeTypeOK)
<1>1. IInv => LifeTypeOK
  BY DEF IInv
<1> QED
  BY <1>1, SpecIInv, PTL

\* Whoever blocks for MM's answer is being served, and whoever goes on behind
\* its RECEIVE has MM's answer in its buffer (mm/main.c:67-70,
\* mm/forkexit.c:129, 229, 279).  The interleavings of the system calls of MM,
\* FS and any number of processes that lose an answer are those in which a
\* RECEIVE falls between MM's load and its store of p_flags
\* (mm/forkexit.c:51, 272), and no others.
THEOREM NoAnswerIsLost ==
  LifeSpec => []CallersAnswered
<1>1. crossed \/ IInv => CallersAnswered
  BY DEF IInv, CallersAnswered, AnswersOK
<1> QED
  BY <1>1, SpecIInv, PTL

\* The kernel's DEADLOCK panic (kernel/proc.c:263) is met only where MM
\* answers an exec() whose caller already runs, and calls MM, in its new
\* program (mm/exec.c:101-108, mm/main.c:67-70), or after a crossed call.
THEOREM OnlyExecMeetsDeadlock ==
  LifeSpec => []OnlyExecPanics
<1>1. crossed \/ IInv => OnlyExecPanics
  BY DEF IInv, OnlyExecPanics
<1> QED
  BY <1>1, SpecIInv, PTL

\* Until a call is crossed, no process and no zombie is left without a living
\* parent that can wait for it, and no zombie is overlooked by a parent that
\* waits (mm/forkexit.c:192-210, 257-273).
THEOREM FamilyIsKept ==
  LifeSpec => [](crossed \/ FamilyExact)
<1>1. IInv => FamilyExact
  BY DEF IInv
<1> QED
  BY <1>1, SpecIInv, PTL

\* Until a call is crossed, every process runs in its own memory but the
\* newborn that asks for the answer that starts it, and the shared descriptor
\* is counted once for each process that holds it (mm/forkexit.c:106-119,
\* fs/main.c:571-603).
THEOREM HoldingsAreCounted ==
  LifeSpec => [](crossed \/ HoldingsExact)
<1>1. ASSUME IInv PROVE OwnMemory
  <2> SUFFICES ASSUME NEW p \in User, Runs(p)
               PROVE  \/ space[p] = p
                      \/ p = child /\ mmPc = "fork_mem" /\ space[p] = src /\ pc[p] = "sent"
    BY DEF OwnMemory
  <2>1. ~stopped /\ marks[p] = {} /\ st[p] = Run /\ MemoryOK
    BY <1>1, RunsFacts, ProcFacts DEF IInv
  <2>2. space[p] = p \/ (p = child /\ mmPc = "fork_mem" /\ space[p] = src)
    BY <2>1 DEF MemoryOK, FREE_SLOT
  <2>3. ASSUME p = child, mmPc = "fork_mem" PROVE pc[p] = "sent"
    <3>1. Owed(p) /\ DueOK(p) /\ LocalsOK
      BY <1>1, <2>1, <2>3 DEF IInv, CallsOK, Owed
    <3>2. ~ExecEarly(p)
      BY <2>3 DEF ExecEarly
    <3> QED
      BY <2>1, <3>1, <3>2, DoingFacts DEF DueOK, Expecting
  <2> QED
    BY <2>2, <2>3
<1>2. ASSUME IInv PROVE DescriptorCounted
  <2> SUFFICES ASSUME ~ForkHalfDone PROVE fd_cnt = Cardinality({p \in Proc : filp[p]})
    BY DEF DescriptorCounted
  <2>1. ~Unheard
    BY DoingFacts DEF ForkHalfDone, Unheard, Runnable, RV!Running, RecvOf, RV!Blocked
  <2>2. Counted = {p \in Proc : filp[p]}
    BY <2>1 DEF Counted
  <2> QED
    BY <1>2, <2>2 DEF IInv, DescriptorsOK
<1>3. IInv => HoldingsExact
  BY <1>1, <1>2 DEF HoldingsExact
<1> QED
  BY <1>3, SpecIInv, PTL

-----------------------------------------------------------------------------
\* Who writes into a user process's buffer, and what.
Reported(c, p) == p_parent[c] = p /\ Exited(c)

LEMMA AnswerReports ==
  ASSUME IInv, Answering, NEW p \in User, call[p] = WAIT, box'[p] # box[p]
  PROVE  box'[p].PID = NO_TASK \/ Reported(box'[p].PID, p)
<1>1. PICK t \in User, pid \in Proc \cup {NO_TASK, 0}, ret \in {0, -1} :
        /\ RV!Send(TASK_MM, t, Message(TASK_MM, SYSCALL_RET, pid, ret))
        /\ Owed(t) /\ Answers(t, pid)
  BY AnsweringWhom
<1> DEFINE m == Message(TASK_MM, SYSCALL_RET, pid, ret)
<1>2. Runs(TASK_MM) /\ LocalsOK /\ LifeTypeOK
  BY AnsweringWhom, MmRuns
<1>3. m.PID = pid
  BY MessageFacts
<1>4. Panics \/ Delivers(TASK_MM, t, m) \/ Waits(TASK_MM, t, m)
  BY <1>1, <1>2, ReplyOutcome
<1> HIDE DEF m
<1>5. t = p /\ box'[p].PID = pid
  BY <1>2, <1>3, <1>4, ProcFacts DEF Panics, Delivers, Waits, LifeTypeOK
<1>6. CASE pid = NO_TASK
  BY <1>5, <1>6
<1>7. CASE pid # NO_TASK
  <2>1. /\ pid = child /\ p = p_parent[child]
        /\ \/ mmPc = "exit_cleanup" /\ child = src
           \/ mmPc \in {"orphan_cleanup", "wait_cleanup"}
    BY <1>1, <1>5, <1>7 DEF Answers, FORK, WAIT, EXEC
  <2>2. mmPc \in {"orphan_cleanup", "wait_cleanup"} => marks[child] = {HANGING}
    BY <1>2 DEF LocalsOK
  <2> QED
    BY <1>5, <2>1, <2>2 DEF Reported, Exited
<1> QED
  BY <1>6, <1>7

LEMMA TakenReports ==
  ASSUME IInv, NEW p \in User, Awaiting(p), call[p] = WAIT, box'[p].source = TASK_MM
  PROVE  box'[p].PID = NO_TASK \/ Reported(box'[p].PID, p)
<1>1. /\ Runs(p) /\ pc[p] = "sent" /\ ~stopped /\ LifeTypeOK /\ LocalsOK /\ p \in Proc /\ p # TASK_MM
      /\ CallsOK
  BY RunsFacts, ProcFacts DEF Awaiting, IInv
<1>2. st[TASK_MM] = SendTo(p) /\ box'[p] = box[TASK_MM]
  BY <1>1, AwaitingOutcome DEF Awaiting, LifeTypeOK
<1>3. \/ box[TASK_MM].PID = NO_TASK
      \/ /\ box[TASK_MM].PID = child /\ p_parent[child] = p
         /\ mmPc \in {"exit_free", "orphan_free", "wait_free"}
  <2>1. MmOK
    BY <1>1 DEF CallsOK
  <2>2. \A x : st[TASK_MM] = SendTo(x) => x = p
    BY <1>2, DoingFacts
  <2>3. TASK_FS # p
    BY ProcFacts
  <2> QED
    BY <1>1, <1>2, <2>1, <2>2, <2>3, DoingFacts DEF MmOK, FORK, WAIT, EXEC
<1>4. mmPc = "exit_free" => child = src
  BY <1>1 DEF LocalsOK
<1>5. mmPc \in {"orphan_free", "wait_free"} => marks[child] = {HANGING}
  BY <1>1 DEF LocalsOK
<1> QED
  BY <1>2, <1>3, <1>4, <1>5 DEF Reported, Exited

\* Nobody else writes there, but a fork(), which copies the request of the
\* child's parent.
LEMMA BufferKept ==
  ASSUME IInv, LifeNext, ~Answering, NEW p \in User, ~Awaiting(p), box'[p] # box[p]
  PROVE  box'[p].source # TASK_MM
<1>1. ASSUME NEW q \in User, Calling(q) PROVE box'[p].source # TASK_MM
  <2>1. PICK type \in MayCall(q) : RV!Send(q, TASK_MM, Message(q, type, NO_TASK, 0))
    BY <1>1 DEF Calling
  <2> DEFINE m == Message(q, type, NO_TASK, 0)
  <2>2. Runs(q) /\ pc[q] = "program" /\ LifeTypeOK /\ m.source = q
    BY <1>1, MessageFacts DEF Calling, IInv
  <2>3. Panics \/ Delivers(q, TASK_MM, m) \/ Waits(q, TASK_MM, m)
    BY <2>1, <2>2, CallingOutcome
  <2> HIDE DEF m
  <2> QED
    BY <2>2, <2>3, ProcFacts DEF Panics, Delivers, Waits, LifeTypeOK
<1>2. ASSUME NEW q \in User, Awaiting(q) PROVE FALSE
  <2>1. Runs(q) /\ q # p /\ LifeTypeOK
    BY <1>2 DEF Awaiting, IInv
  <2> QED
    BY <1>2, <2>1, AwaitingOutcome, ProcFacts DEF Awaiting, LifeTypeOK
<1>3. ASSUME NEW q \in User, Returning(q) PROVE FALSE
  BY <1>3 DEF Returning, ipc
<1>4. CASE FsReceives
  <2>1. LifeTypeOK /\ Runs(TASK_FS)
    BY <1>4 DEF IInv, FsReceives
  <2> QED
    BY <1>4, <2>1, FsTakingOutcome, ProcFacts DEF FsReceives, LifeTypeOK
<1>5. CASE FsServes
  <2> DEFINE m == Message(TASK_FS, SYSCALL_RET, box[TASK_FS].PID, 0)
  <2>1. LifeTypeOK /\ Runs(TASK_FS) /\ fsAt = "serve" /\ RV!Send(TASK_FS, box[TASK_FS].source, m)
    BY <1>5 DEF IInv, FsServes
  <2> HIDE DEF m
  <2>2. Delivers(TASK_FS, TASK_MM, m) \/ Waits(TASK_FS, TASK_MM, m)
    BY <2>1, FsServingOutcome
  <2> QED
    BY <2>1, <2>2, ProcFacts DEF Delivers, Waits, LifeTypeOK
<1>6. CASE MmReceives
  <2>1. LifeTypeOK /\ Runs(TASK_MM) /\ mmPc = "loop" /\ RV!Receive(TASK_MM, ANY)
    BY <1>6 DEF IInv, MmReceives, At
  <2> QED
    BY <2>1, TakingOutcome, ProcFacts DEF LifeTypeOK
<1>7. CASE ForkAsksFs \/ ExitAsksFs \/ ExecAsksFs
  <2>1. PICK m : RV!Send(TASK_MM, TASK_FS, m)
    BY <1>7 DEF ForkAsksFs, ExitAsksFs, ExecAsksFs, AsksFs
  <2>2. LifeTypeOK /\ Runs(TASK_MM) /\ mmPc \notin AsksPc \cup HearsPc
    BY <1>7 DEF IInv, ForkAsksFs, ExitAsksFs, ExecAsksFs, AsksFs, At, AsksPc, HearsPc
  <2>3. Delivers(TASK_MM, TASK_FS, m) \/ Waits(TASK_MM, TASK_FS, m)
    BY <2>1, <2>2, AskingOutcome
  <2> QED
    BY <2>2, <2>3, ProcFacts DEF Delivers, Waits, LifeTypeOK
<1>8. CASE ForkHearsFs \/ ExitHearsFs \/ ExecHearsFs
  <2>1. LifeTypeOK /\ Runs(TASK_MM) /\ mmPc \in AsksPc /\ RV!Receive(TASK_MM, TASK_FS)
    BY <1>8 DEF IInv, ForkHearsFs, ExitHearsFs, ExecHearsFs, HearsFs, At, AsksPc
  <2> QED
    BY <2>1, HearingOutcome, ProcFacts DEF LifeTypeOK
<1>9. CASE ForkMem
  <2>1. /\ Runs(TASK_MM) /\ mmPc = "fork_mem" /\ box' = [box EXCEPT ![child] = box[src]]
    BY <1>9 DEF ForkMem, At
  <2>2. /\ LifeTypeOK /\ LocalsOK /\ \A q \in User : ShapeOK(q) /\ DueOK(q)
    BY <2>1, MmRuns
  <2>3. p = child /\ box'[p] = box[src] /\ child # src /\ src \in User /\ marks[src] = {}
    BY <2>1, <2>2, ProcFacts DEF LifeTypeOK, LocalsOK, Handling, BeforeReply
  <2>4. Expecting(src)
    BY <2>1, <2>2, <2>3 DEF DueOK, Owed, BeforeReply, ExecEarly
  <2>5. box[src].source \in User
    BY <2>1, <2>2, <2>3, <2>4 DEF DueOK, FREE_SLOT
  <2> QED
    BY <2>3, <2>5, ProcFacts
<1>10. CASE \/ Dispatch \/ ForkScan \/ ForkRest \/ ExitMark \/ ExitFrees \/ ExitOrphans
            \/ OrphanFrees \/ WaitScan \/ WaitFrees \/ WaitStore \/ ExecRegs
  BY <1>10 DEF Dispatch, ForkScan, ForkRest, ExitMark, ExitFrees, ExitOrphans, OrphanFrees,
               WaitScan, WaitFrees, WaitStore, ExecRegs, Frees, ipc
<1> QED
  BY <1>1, <1>2, <1>3, <1>4, <1>5, <1>6, <1>7, <1>8, <1>9, <1>10
     DEF LifeNext, FsStep, MmStep, Answering

\* Until a call is crossed, what wait() reports is a child of its caller that
\* has exited and whose slot is not free yet, or that there is none
\* (mm/forkexit.c:192-210, 223-281, lib/wait.c:32).
THEOREM WaitReportsTheExited ==
  LifeSpec => [][crossed' \/ ReportsExited]_lifeVars
<1>1. ASSUME crossed \/ IInv, [LifeNext]_lifeVars PROVE [crossed' \/ ReportsExited]_lifeVars
  <2> SUFFICES ASSUME LifeNext, ~crossed', NEW p \in User, call[p] = WAIT, box'[p] # box[p],
                      box'[p].source = TASK_MM
               PROVE  box'[p].PID = NO_TASK \/ Reported(box'[p].PID, p)
    BY <1>1 DEF Reported, ReportsExited
  <2>1. IInv /\ (Answering \/ Awaiting(p))
    BY <1>1, BufferKept, CrossedStays
  <2> QED
    BY <2>1, AnswerReports, TakenReports
<1> QED
  BY <1>1, SpecIInv, PTL DEF LifeSpec
=============================================================================
