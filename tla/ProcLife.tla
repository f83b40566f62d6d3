------------------------------ MODULE ProcLife ------------------------------
(***************************************************************************)
(* The life of a process in 25-osfs11: fork, wait, exec and exit as task   *)
(* MM (mm/main.c, mm/forkexit.c, mm/exec.c), task FS (fs/main.c) and the   *)
(* library stubs (lib/fork.c, wait.c, exec.c, exit.c) carry them out       *)
(* together, on top of the kernel's sendrec() (module Rendezvous).         *)
(*                                                                         *)
(* A library stub calls send_recv(BOTH), which is two system calls: MM may *)
(* take a request before its caller has asked for the answer.  MM edits    *)
(* the process table from ring 1 with interrupts on, so that the clock may *)
(* take the processor away from it anywhere: a statement that reads        *)
(* p_flags and writes it back, and the copy of a table entry, are each two *)
(* steps here.  When the caller itself blocks between the two (its RECEIVE *)
(* is the second half of send_recv(BOTH)), MM writes back what it read     *)
(* before: crossed says that this has happened.                            *)
(*                                                                         *)
(* st[p] holds SENDING and RECEIVING with their partner, marks[p] the other *)
(* bits of p_flags; p is runnable iff both are empty.                      *)
(***************************************************************************)
EXTENDS Integers, FiniteSets, FiniteSetsExt

CONSTANTS
  TASK_FS, TASK_MM,
  PID_INIT,     \* INIT (a keyword of TLC)
  Slot,         \* the table entries that are free at boot
  ANY, INTERRUPT, NO_TASK,
  InitForks,    \* the shells Init() forks before it waits for ever
  Calls         \* what the programs in the slots may call

User == Slot \cup {PID_INIT}
Proc == User \cup {TASK_FS, TASK_MM}

WAITING   == "WAITING"
HANGING   == "HANGING"
FREE_SLOT == "FREE_SLOT"

FORK == "FORK"
EXIT == "EXIT"
WAIT == "WAIT"
EXEC == "EXEC"
SYSCALL_RET == "SYSCALL_RET"

ASSUME ProcAssumption ==
  /\ Slot \subseteq Nat /\ IsFiniteSet(Slot)
  /\ {TASK_FS, TASK_MM, PID_INIT} \subseteq Nat \ Slot
  /\ Cardinality({TASK_FS, TASK_MM, PID_INIT}) = 3
  /\ {ANY, INTERRUPT, NO_TASK} \cap Proc = {}
  /\ InitForks \in Nat
  /\ Calls \in [Slot -> SUBSET {FORK, EXIT, WAIT, EXEC}]

VARIABLES
  st, box, pend, stopped,     \* see Rendezvous
  marks,       \* WAITING, HANGING, FREE_SLOT in p_flags
  p_parent,
  space,      \* the process whose memory the LDT of p maps
  filp,       \* p holds the shared descriptor Init() opened
  fd_cnt,     \* its f_desc_table[].fd_cnt
  pc,         \* p's saved registers: in its "program", past the "sent" call,
              \* past the "answer", or spinning in assertion_failure ("spin")
  call,       \* the request p's stub is working on
  forks,      \* children Init() has forked
  mmPc, msgtype, src,         \* MM: where it is, the request, its caller,
  child, reg,                 \* the entry it works on, p_flags as loaded
  fsAt,
  crossed     \* (history) a RECEIVE fell between MM's load and its store

ipc  == <<st, box, pend, stopped>>
mem  == <<pc, call, forks>>
table == <<marks, p_parent, space, filp>>
locals == <<msgtype, src, child, reg>>
mmVars == <<mmPc, locals>>
lifeVars == <<ipc, mem, table, fd_cnt, mmVars, fsAt, crossed>>

RV == INSTANCE Rendezvous WITH
        HardInt  <- NO_TASK,
        SendTo   <- [p \in Proc |-> Proc \ {p}],
        RecvFrom <- [p \in Proc |-> {ANY}],
        IntTask  <- {},
        Types    <- {FORK, EXIT, WAIT, EXEC, SYSCALL_RET}

Message(from, type, pid, ret) ==
  [source |-> from, type |-> type, PID |-> pid, RETVAL |-> ret]

\* p_flags == 0
Runnable(p) == RV!Running(p) /\ marks[p] = {}

Runs(p) == ~stopped /\ Runnable(p)

\* MM has read the entry of its caller and not yet written what it read: the
\* registers of *p = proc_table[pid] are copied and p_flags is not, or
\* p_flags is loaded and not stored.
Rereads(p) == p = src /\ mmPc \in {"fork_rest", "wait_store"}

-----------------------------------------------------------------------------
\* The library stubs.

MayCall(p) == IF p # PID_INIT THEN Calls[p]
              ELSE IF forks < InitForks THEN {FORK} ELSE {WAIT}

\* send_recv(BOTH, TASK_MM, &msg), first half.
Calling(p) ==
  /\ Runs(p) /\ pc[p] = "program"
  /\ \E type \in MayCall(p) :
       /\ RV!Send(p, TASK_MM, Message(p, type, NO_TASK, 0))
       /\ call' = [call EXCEPT ![p] = type]
       /\ forks' = IF p = PID_INIT /\ type = FORK THEN forks + 1 ELSE forks
  /\ pc' = [pc EXCEPT ![p] = "sent"]
  /\ UNCHANGED <<table, fd_cnt, mmVars, fsAt, crossed>>

\* Second half.
Awaiting(p) ==
  /\ Runs(p) /\ pc[p] = "sent"
  /\ RV!Receive(p, TASK_MM)
  /\ pc' = [pc EXCEPT ![p] = "answer"]
  /\ crossed' = (crossed \/ Rereads(p))
  /\ UNCHANGED <<call, forks, table, fd_cnt, mmVars, fsAt>>

\* The asserts of the stubs; a process that fails one spins for ever.
Accepted(p) == /\ call[p] # WAIT => box[p].type = SYSCALL_RET
               /\ call[p] = FORK => box[p].RETVAL = 0

Returning(p) ==
  /\ Runs(p) /\ pc[p] = "answer"
  /\ pc' = [pc EXCEPT ![p] = IF Accepted(p) THEN "program" ELSE "spin"]
  /\ UNCHANGED <<ipc, call, forks, table, fd_cnt, mmVars, fsAt, crossed>>

-----------------------------------------------------------------------------
\* TASK FS, as far as MM needs it: fs_fork() and fs_exit().

FsReceives ==
  /\ Runs(TASK_FS) /\ fsAt = "loop"
  /\ RV!Receive(TASK_FS, ANY)
  /\ fsAt' = "serve"
  /\ UNCHANGED <<mem, table, fd_cnt, mmVars, crossed>>

\* Mutation: the fork is not counted.
FsForkUncounted(p) == UNCHANGED <<fd_cnt, filp>>

FsFork(p) == /\ fd_cnt' = IF filp[p] THEN fd_cnt + 1 ELSE fd_cnt
             /\ UNCHANGED filp

FsExit(p) == /\ fd_cnt' = IF filp[p] THEN fd_cnt - 1 ELSE fd_cnt
             /\ filp' = [filp EXCEPT ![p] = FALSE]

FsServes ==
  /\ Runs(TASK_FS) /\ fsAt = "serve"
  /\ LET m == box[TASK_FS] IN
     /\ CASE m.type = FORK -> FsFork(m.PID)
          [] m.type = EXIT -> FsExit(m.PID)
          [] OTHER -> UNCHANGED <<fd_cnt, filp>>
     /\ RV!Send(TASK_FS, m.source, Message(TASK_FS, SYSCALL_RET, m.PID, 0))
  /\ fsAt' = "loop"
  /\ UNCHANGED <<mem, marks, p_parent, space, mmVars, crossed>>

-----------------------------------------------------------------------------
\* TASK MM.  At(l): MM runs and is at l.

At(l)   == Runs(TASK_MM) /\ mmPc = l
MmGoto(l) == mmPc' = l
KeepUsers == UNCHANGED <<mem, fd_cnt, fsAt, crossed>>

\* (The handlers' local variables are gone.)
MmReceives ==
  /\ At("loop")
  /\ RV!Receive(TASK_MM, ANY)
  /\ MmGoto("dispatch")
  /\ msgtype' = "none" /\ src' = TASK_MM /\ child' = TASK_MM /\ reg' = RV!Run
  /\ UNCHANGED table /\ KeepUsers

\* switch (msgtype); do_fork looks for a free slot, do_exit and do_exec first
\* call FS.
Dispatch ==
  /\ At("dispatch")
  /\ src' = box[TASK_MM].source
  /\ msgtype' = box[TASK_MM].type
  /\ MmGoto(CASE msgtype' = FORK -> "fork_scan"
            [] msgtype' = EXIT -> "exit_fs"
            [] msgtype' = WAIT -> "wait_scan"
            [] msgtype' = EXEC -> "exec_fs")
  /\ UNCHANGED <<ipc, table, child, reg>> /\ KeepUsers

\* send_recv(BOTH, TASK_FS, ...) on behalf of pid: two system calls.
AsksFs(here, type, pid, next) ==
  /\ At(here)
  /\ RV!Send(TASK_MM, TASK_FS, Message(TASK_MM, type, pid, 0))
  /\ MmGoto(next)
  /\ UNCHANGED <<locals, table>> /\ KeepUsers

HearsFs(here, next) ==
  /\ At(here)
  /\ RV!Receive(TASK_MM, TASK_FS)
  /\ MmGoto(next)
  /\ UNCHANGED <<locals, table>> /\ KeepUsers

\* The SYSCALL_RET that ends a call of p.
Replies(here, p, pid, ret, next) ==
  /\ At(here)
  /\ RV!Send(TASK_MM, p, Message(TASK_MM, SYSCALL_RET, pid, ret))
  /\ MmGoto(next)
  /\ UNCHANGED <<locals, table>> /\ KeepUsers

\* --- do_fork ---

Free == {p \in Proc : RV!Running(p) /\ marks[p] = {FREE_SLOT}}

\* *p = proc_table[pid], which starts with the registers and the LDT.
ForkScan ==
  /\ At("fork_scan")
  /\ IF Free = {}
     THEN /\ MmGoto("fork_full")
          /\ UNCHANGED <<child, pc, space>>
     ELSE /\ child' = Min(Free)
          /\ pc' = [pc EXCEPT ![Min(Free)] = pc[src]]
          /\ space' = [space EXCEPT ![Min(Free)] = space[src]]
          /\ MmGoto("fork_rest")
  /\ UNCHANGED <<ipc, call, forks, marks, p_parent, filp, msgtype, src, reg, fd_cnt, fsAt, crossed>>

\* ... and goes on with p_flags, the partners and filp.
ForkRest ==
  /\ At("fork_rest")
  /\ marks' = [marks EXCEPT ![child] = marks[src]]
  /\ st' = [st EXCEPT ![child] = st[src]]
  /\ filp' = [filp EXCEPT ![child] = filp[src]]
  /\ p_parent' = [p_parent EXCEPT ![child] = src]
  /\ MmGoto("fork_mem")
  /\ UNCHANGED <<box, pend, stopped, space, locals>> /\ KeepUsers

\* Mutation: the child keeps its parent's LDT.
ForkMemSharedLdt ==
  /\ At("fork_mem")
  /\ box' = [box EXCEPT ![child] = box[src]]
  /\ call' = [call EXCEPT ![child] = call[src]]
  /\ MmGoto("fork_fs")
  /\ UNCHANGED <<st, pend, stopped, pc, forks, table, locals, fd_cnt, fsAt, crossed>>

\* phys_copy of the image (with the stub's variables) and the child's LDT.
ForkMem ==
  /\ At("fork_mem")
  /\ space' = [space EXCEPT ![child] = child]
  /\ box' = [box EXCEPT ![child] = box[src]]
  /\ call' = [call EXCEPT ![child] = call[src]]
  /\ MmGoto("fork_fs")
  /\ UNCHANGED <<st, pend, stopped, pc, forks, marks, p_parent, filp, locals,
                 fd_cnt, fsAt, crossed>>

ForkAsksFs  == AsksFs("fork_fs", FORK, child, "fork_fsrecv")
ForkHearsFs == HearsFs("fork_fsrecv", "fork_birth")

\* Mutation: the child is sent no message.
ForkBirthForgotten == /\ At("fork_birth") /\ MmGoto("fork_reply")
                      /\ UNCHANGED <<ipc, table, locals>> /\ KeepUsers

ForkBirth   == Replies("fork_birth", child, 0, 0, "fork_reply")
ForkReplies == Replies("fork_reply", src, child, 0, "loop")
ForkFails   == Replies("fork_full", src, NO_TASK, -1, "loop")

\* --- do_exit ---

ExitAsksFs  == AsksFs("exit_fs", EXIT, src, "exit_fsrecv")
ExitHearsFs == HearsFs("exit_fsrecv", "exit_mark")

\* Mutation: p_flags = 0 instead of p_flags &= ~WAITING.
ExitMarkClearsAll ==
  /\ At("exit_mark")
  /\ IF WAITING \in marks[p_parent[src]]
     THEN /\ marks' = [marks EXCEPT ![p_parent[src]] = {}]
          /\ st' = [st EXCEPT ![p_parent[src]] = RV!Run]
          /\ MmGoto("exit_cleanup")
     ELSE /\ marks' = [marks EXCEPT ![src] = @ \cup {HANGING}]
          /\ MmGoto("exit_orphans")
          /\ UNCHANGED st
  /\ child' = src
  /\ UNCHANGED <<box, pend, stopped, p_parent, space, filp, msgtype, src, reg>> /\ KeepUsers

\* The parent is WAITING: clear that and clean up; otherwise become a zombie.
ExitMark ==
  /\ At("exit_mark")
  /\ IF WAITING \in marks[p_parent[src]]
     THEN /\ marks' = [marks EXCEPT ![p_parent[src]] = @ \ {WAITING}]
          /\ MmGoto("exit_cleanup")
     ELSE /\ marks' = [marks EXCEPT ![src] = @ \cup {HANGING}]
          /\ MmGoto("exit_orphans")
  /\ child' = src
  /\ UNCHANGED <<ipc, p_parent, space, filp, msgtype, src, reg>> /\ KeepUsers

\* cleanup(): send_recv(SEND, proc->p_parent, ...), ...
ExitCleanup   == Replies("exit_cleanup", p_parent[child], child, 0, "exit_free")
OrphanCleanup == Replies("orphan_cleanup", p_parent[child], child, 0, "orphan_free")
WaitCleanup   == Replies("wait_cleanup", p_parent[child], child, 0, "wait_free")

\* ... proc->p_flags = FREE_SLOT.
Frees(here, next) ==
  /\ At(here)
  /\ marks' = [marks EXCEPT ![child] = {FREE_SLOT}]
  /\ st' = [st EXCEPT ![child] = RV!Run]
  /\ MmGoto(next)
  /\ UNCHANGED <<box, pend, stopped, p_parent, space, filp, locals>>
  /\ KeepUsers

ExitFrees   == Frees("exit_free", "exit_orphans")
OrphanFrees == Frees("orphan_free", "exit_orphans")
WaitFrees   == Frees("wait_free", "loop")

Kids(p) == {i \in Proc : p_parent[i] = p}

\* Mutation: free slots count as zombies.
ZombiesOrFree(S) == {i \in S : marks[i] # {} /\ marks[i] # {WAITING}}

Zombies(S) == {i \in S : HANGING \in marks[i]}

\* Mutation: a waiting INIT is not told of an adopted zombie.
ExitOrphansUntold ==
  /\ At("exit_orphans") /\ MmGoto("loop")
  /\ p_parent' = [i \in Proc |-> IF i \in Kids(src) THEN PID_INIT ELSE p_parent[i]]
  /\ UNCHANGED <<ipc, marks, space, filp, locals>> /\ KeepUsers

\* The loop over the caller's children, up to the first zombie that a WAITING
\* PID_INIT can be told of.  (Nobody else writes what it reads.)
ExitOrphans ==
  /\ At("exit_orphans")
  /\ LET told == IF WAITING \in marks[PID_INIT] THEN Zombies(Kids(src)) ELSE {}
         moved == IF told = {} THEN Kids(src) ELSE {i \in Kids(src) : i <= Min(told)}
     IN
     /\ p_parent' = [i \in Proc |-> IF i \in moved THEN PID_INIT ELSE p_parent[i]]
     /\ IF told = {}
        THEN /\ MmGoto("loop")
             /\ UNCHANGED <<marks, child>>
        ELSE /\ child' = Min(told)
             /\ marks' = [marks EXCEPT ![PID_INIT] = @ \ {WAITING}]
             /\ MmGoto("orphan_cleanup")
  /\ UNCHANGED <<ipc, space, filp, msgtype, src, reg>> /\ KeepUsers

\* --- do_wait ---

WaitScan ==
  /\ At("wait_scan")
  /\ IF Zombies(Kids(src)) # {}
     THEN /\ child' = Min(Zombies(Kids(src)))
          /\ MmGoto("wait_cleanup")
          /\ UNCHANGED reg
     ELSE IF Kids(src) # {}
     THEN /\ reg' = st[src]
          /\ MmGoto("wait_store")
          /\ UNCHANGED child
     ELSE /\ MmGoto("wait_nobody")
          /\ UNCHANGED <<child, reg>>
  /\ UNCHANGED <<ipc, msgtype, src, table>> /\ KeepUsers

\* proc_table[pid].p_flags |= WAITING, second half: all of p_flags is written.
WaitStore ==
  /\ At("wait_store")
  /\ marks' = [marks EXCEPT ![src] = {WAITING}]
  /\ st' = [st EXCEPT ![src] = reg]
  /\ MmGoto("loop")
  /\ UNCHANGED <<box, pend, stopped, p_parent, space, filp, locals>>
  /\ KeepUsers

\* Mutation: task_mm replies once more (reply = 0 left out).
WaitRepliesTwice == Replies("wait_nobody", src, NO_TASK, 0, "fork_reply")

WaitReplies == Replies("wait_nobody", src, NO_TASK, 0, "loop")

\* --- do_exec ---

ExecAsksFs  == AsksFs("exec_fs", EXEC, src, "exec_fsrecv")
ExecHearsFs == HearsFs("exec_fsrecv", "exec_regs")

\* The new image and its entry point, unless stat() or open() failed.
ExecRegs ==
  /\ At("exec_regs")
  /\ \/ /\ pc' = [pc EXCEPT ![src] = "program"]
        /\ MmGoto("exec_reply")
     \/ /\ MmGoto("exec_fail")
        /\ UNCHANGED pc
  /\ UNCHANGED <<ipc, call, forks, table, locals, fd_cnt, fsAt, crossed>>

ExecReplies == Replies("exec_reply", src, NO_TASK, 0, "loop")
ExecFails   == Replies("exec_fail", src, NO_TASK, -1, "loop")

-----------------------------------------------------------------------------
MmStep ==
  \/ MmReceives \/ Dispatch
  \/ ForkScan \/ ForkRest \/ ForkMem \/ ForkAsksFs \/ ForkHearsFs
  \/ ForkBirth \/ ForkReplies \/ ForkFails
  \/ ExitAsksFs \/ ExitHearsFs \/ ExitMark \/ ExitCleanup \/ ExitFrees
  \/ ExitOrphans \/ OrphanCleanup \/ OrphanFrees
  \/ WaitScan \/ WaitCleanup \/ WaitFrees \/ WaitStore \/ WaitReplies
  \/ ExecAsksFs \/ ExecHearsFs \/ ExecRegs \/ ExecReplies \/ ExecFails

FsStep == FsReceives \/ FsServes

LifeInit ==
  /\ st = [p \in Proc |-> RV!Run]
  /\ box = [p \in Proc |-> Message(p, SYSCALL_RET, NO_TASK, 0)]
  /\ pend = [p \in Proc |-> FALSE]
  /\ stopped = FALSE
  /\ marks = [p \in Proc |-> IF p \in Slot THEN {FREE_SLOT} ELSE {}]
  /\ p_parent = [p \in Proc |-> NO_TASK]
  /\ space = [p \in Proc |-> p]
  /\ filp = [p \in Proc |-> p = PID_INIT]
  /\ fd_cnt = 1
  /\ pc = [p \in Proc |-> "program"]
  /\ call = [p \in Proc |-> WAIT]
  /\ forks = 0
  /\ mmPc = "loop" /\ fsAt = "loop"
  /\ msgtype = "none" /\ src = TASK_MM /\ child = TASK_MM /\ reg = RV!Run
  /\ crossed = FALSE

LifeNext == \/ \E p \in User : Calling(p) \/ Awaiting(p) \/ Returning(p)
        \/ FsStep
        \/ MmStep

LifeSpec == LifeInit /\ [][LifeNext]_lifeVars

-----------------------------------------------------------------------------
\* Properties.

MmPc == {"loop", "dispatch", "fork_scan", "fork_rest", "fork_mem", "fork_fs",
         "fork_fsrecv", "fork_birth", "fork_reply", "fork_full", "exit_fs",
         "exit_fsrecv", "exit_mark", "exit_cleanup", "exit_free", "exit_orphans",
         "orphan_cleanup", "orphan_free", "wait_scan", "wait_cleanup", "wait_free",
         "wait_store", "wait_nobody", "exec_fs", "exec_fsrecv", "exec_regs",
         "exec_reply", "exec_fail"}

Doings == [op : {"run", "send", "recv"}, peer : Proc \cup {ANY, NO_TASK}]

LifeTypeOK ==
  /\ st \in [Proc -> Doings]
  /\ box \in [Proc -> [source : Proc, type : {FORK, EXIT, WAIT, EXEC, SYSCALL_RET},
                       PID : Proc \cup {NO_TASK, 0}, RETVAL : {0, -1}]]
  /\ pend = [p \in Proc |-> FALSE] /\ stopped \in BOOLEAN
  /\ marks \in [Proc -> SUBSET {WAITING, HANGING, FREE_SLOT}]
  /\ p_parent \in [Proc -> User \cup {NO_TASK}]
  /\ space \in [Proc -> Proc] /\ filp \in [Proc -> BOOLEAN] /\ fd_cnt \in Nat
  /\ pc \in [Proc -> {"program", "sent", "answer", "spin"}]
  /\ call \in [Proc -> {FORK, EXIT, WAIT, EXEC}] /\ forks \in 0 .. InitForks
  /\ mmPc \in MmPc /\ msgtype \in {"none", FORK, EXIT, WAIT, EXEC} /\ src \in Proc /\ child \in Proc /\ reg \in Doings
  /\ fsAt \in {"loop", "serve"} /\ crossed \in BOOLEAN

Alive(p)  == marks[p] \cap {HANGING, FREE_SLOT} = {}
Taken(c)  == marks[c] # {FREE_SLOT}
Newborn(c) == c = child /\ mmPc \in {"fork_rest", "fork_mem", "fork_fs",
                                     "fork_fsrecv", "fork_birth"}
Dying(p)  == p = src /\ mmPc \in {"exit_mark", "exit_cleanup", "exit_free", "exit_orphans",
                                  "orphan_cleanup", "orphan_free"}

\* Every process and every zombie in the slots has a living parent that can
\* wait for it, except while do_exit() is at work on that parent: nobody is
\* left behind by the loop that makes PID_INIT the parent (forkexit.c:201-210).
FamilyKept ==
  \A c \in Slot : Taken(c) =>
    /\ p_parent[c] \in User
    /\ Alive(p_parent[c]) \/ Dying(p_parent[c])

\* A parent in wait() and its zombie never coexist: whichever comes second,
\* the exit, the wait or the adoption by PID_INIT, finds the other
\* (forkexit.c:192, 204, 262).
NoForgottenZombie ==
  \A c \in Slot : HANGING \in marks[c] => WAITING \notin marks[p_parent[c]]

\* Who blocks for MM's answer is being served: an answer is on its way
\* (otherwise the process would hang for ever).  A parent in wait() has
\* WAITING set instead.
AnswerDue(p) ==
  \/ mmPc = "dispatch" /\ box[TASK_MM].source = p
  \/ mmPc \notin {"loop", "dispatch"} /\ p = src
  \/ Newborn(p)
  \/ mmPc \in {"exit_cleanup", "orphan_cleanup"} /\ p = p_parent[child]

NobodyHangs ==
  \A p \in User : st[p] = RV!Blocked("recv", TASK_MM) /\ marks[p] = {} => AnswerDue(p)

\* A process that goes on behind its RECEIVE has MM's message, not its own
\* request, in the buffer (lib/wait.c:32: "@return  PID of the terminated
\* child."); and nobody comes back from exit().
AnswerArrived ==
  \A p \in User : Runnable(p) /\ pc[p] = "answer" =>
                    box[p].source = TASK_MM /\ call[p] # EXIT

\* What wait() reports is a child of the caller that has exited and whose
\* slot is not free yet.
Exited(c) == HANGING \in marks[c] \/ (c = src /\ c = child /\ mmPc \in {"exit_cleanup", "exit_free"})

ReportsExited ==
  \A p \in User :
    call[p] = WAIT /\ box'[p] # box[p] /\ box'[p].source = TASK_MM
      => \/ box'[p].PID = NO_TASK
         \/ p_parent[box'[p].PID] = p /\ Exited(box'[p].PID)

WaitReportsExited == [][ReportsExited]_lifeVars

\* Whoever runs, runs in its own memory (forkexit.c:106-113: the child's LDT).
\* The child of a caller that has not asked for its answer yet is runnable
\* before it has its LDT: all it can do in its parent's memory is to ask for
\* the answer that starts it.
OwnMemory ==
  \A p \in User : Runs(p) =>
    \/ space[p] = p
    \/ p = child /\ mmPc = "fork_mem" /\ space[p] = src /\ pc[p] = "sent"

\* The shared descriptor is counted once for every process that holds it,
\* whenever no fork is half done: FS hears of each fork and exit exactly once.
ForkHalfDone == \/ mmPc \in {"fork_mem", "fork_fs", "fork_fsrecv"}
                \/ mmPc = "fork_birth" /\ ~Runnable(TASK_MM)

DescriptorCounted == ~ForkHalfDone => fd_cnt = Cardinality({p \in Proc : filp[p]})

\* MM, FS and their callers never send to each other in a circle: the
\* kernel's DEADLOCK panic (proc.c:263) does not happen.
NoPanic == ~stopped

\* The one exception: MM answering an exec() whose caller already runs its
\* new program.  (A crossed caller runs without its answer, and may meet MM
\* in the same way.)
OnlyExecPanics == stopped => msgtype = EXEC \/ crossed

\* What the comments say and the code does not do.

\* do_wait() replies with an error to a caller without children
\* (forkexit.c:249): WAITING means there is a child to wait for.
WaitingHasChild ==
  \A p \in User : WAITING \in marks[p] => \E c \in Kids(p) : Taken(c)

\* A fork() that fails returns -1 to the parent (lib/fork.c:32).
ForkFailureReturns == \A p \in User : pc[p] # "spin"

-----------------------------------------------------------------------------
\* Fairness: the scheduler runs everyone in turn (NoStarvation of Ipc; a
\* window delays a process but the clock comes again), the sending queues are
\* first come, first served, and Init() calls wait() again and again.
Serves(p) == MmReceives /\ RV!SendsTo(p, TASK_MM) /\ st'[p] = RV!Run

LifeFairness ==
  /\ WF_lifeVars(MmStep) /\ SF_lifeVars(FsStep)
  /\ \A p \in User : SF_lifeVars(Awaiting(p) \/ Returning(p)) /\ SF_lifeVars(Serves(p))
  /\ SF_lifeVars(Calling(PID_INIT))

\* MM stays behind in its answer to an exec() whose caller runs its new image
\* before it has asked for the answer (exec.c:103-105), or panics over it, see
\* OnlyExecPanics.
LeftByExec == stopped \/ \E p \in User : RV!SendsTo(TASK_MM, p) /\ pc[p] = "program"

\* A zombie that PID_INIT is the parent of is cleaned up in the end, unless
\* PID_INIT was stopped by a failed fork, an answer was lost before, or MM
\* is left by an exec().
OrphansReaped ==
  \A c \in Slot :
    (HANGING \in marks[c] /\ p_parent[c] = PID_INIT)
      ~> (~Taken(c) \/ pc[PID_INIT] = "spin" \/ crossed \/ LeftByExec)

\* fork() comes back in the parent, and in the child.
ForkReturns ==
  \A p \in User :
    (pc[p] \in {"sent", "answer"} /\ call[p] = FORK /\ Alive(p))
      ~> (pc[p] \in {"program", "spin"} \/ crossed \/ LeftByExec)

\* Who calls MM gets its answer: it is served, or the answer is on its way,
\* and what it then reads is that answer (forkexit.c:125, 178;
\* lib/wait.c:32).  Nothing but a RECEIVE between MM's load and its store of
\* p_flags (forkexit.c:51, 272) loses one.
CallersAnswered == ~crossed => NobodyHangs /\ AnswerArrived

\* The family is whole in every order of exit(), wait() and adoption
\* (forkexit.c:192-210, 255-275).
FamilyExact == FamilyKept /\ NoForgottenZombie

\* What MM and FS each copied of a process at fork() and took back at exit()
\* is its own and is counted once (forkexit.c:106-119, fs/main.c:573-600).
HoldingsExact == OwnMemory /\ DescriptorCounted

\* fork() and exit() come to their end: the parent and the child go on, the
\* zombie is cleaned up.
ForkAndExitEnd == OrphansReaped /\ ForkReturns
=============================================================================
