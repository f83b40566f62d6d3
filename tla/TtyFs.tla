------------------------------- MODULE TtyFs -------------------------------
(***************************************************************************)
(* Terminal input and output in 25-osfs11: the keyboard interrupt          *)
(* (kernel/keyboard.c), the clock interrupt that wakes task TTY            *)
(* (kernel/clock.c), task TTY itself (kernel/tty.c), the terminal part of  *)
(* task FS (fs/main.c, fs/read_write.c) and the processes that read and    *)
(* write their terminal, on top of sendrec() (module Rendezvous).          *)
(*                                                                         *)
(* A reader is suspended: TTY answers SUSPEND_PROC, FS does not reply, and *)
(* when the line is complete TTY sends RESUME_PROC to FS of its own        *)
(* accord.  A key is a printable character, ENTER, BACKSPACE or, for       *)
(* Alt+F1 and so on, the terminal it makes current.                        *)
(***************************************************************************)
EXTENDS Integers, Sequences, FiniteSets

CONSTANTS
  TASK_TTY, TASK_FS,
  User,             \* the processes that use a terminal
  Tty,              \* the terminals, 0 .. NR_CONSOLES - 1
  TtyOf,            \* TtyOf[p]: the terminal of process p
  Does,             \* Does[p]: the requests p makes, of READ and WRITE
  Counts,           \* the numbers of characters they ask for
  KB_IN_BYTES,      \* scan codes the keyboard buffer holds
  TTY_IN_BYTES,     \* keys a terminal's buffer holds
  Key,              \* the keys that are pressed
  ANY, INTERRUPT, NO_TASK

READ  == "READ"
WRITE == "WRITE"
DEV_READ  == "DEV_READ"
DEV_WRITE == "DEV_WRITE"
SUSPEND_PROC == "SUSPEND_PROC"
RESUME_PROC  == "RESUME_PROC"
SYSCALL_RET  == "SYSCALL_RET"
HARD_INT     == "HARD_INT"

CHAR      == <<"char">>
ENTER     == <<"enter">>
BACKSPACE == <<"backspace">>
AltF(t)   == <<"alt", t>>
Switches  == {AltF(t) : t \in Tty}

Proc == User \cup {TASK_TTY, TASK_FS}

ASSUME TtyAssumption ==
  /\ IsFiniteSet(Tty) /\ Tty = 0 .. Cardinality(Tty) - 1 /\ 1 \in Tty
  /\ TtyOf \in [User -> Tty] /\ Does \in [User -> SUBSET {READ, WRITE}]
  /\ Counts \subseteq Nat \ {0} /\ (\E n \in Counts : \A m \in Counts : m <= n)
  /\ KB_IN_BYTES \in Nat \ {0} /\ TTY_IN_BYTES \in Nat \ {0}
  /\ Key \subseteq {CHAR, ENTER, BACKSPACE} \cup Switches
  /\ {TASK_TTY, TASK_FS} \cap User = {} /\ TASK_TTY # TASK_FS
  /\ {ANY, INTERRUPT, NO_TASK} \cap Proc = {}

VARIABLES
  st, box, pend, stopped,           \* see Rendezvous
  kb_in, key_pressed,               \* keyboard buffer, "TTY has to look at it"
  ibuf,                             \* ibuf[t]: the keys terminal t has taken
  tty_procnr, tty_left_cnt, tty_trans_cnt,     \* the read t is busy with
  current,                          \* the current console
  ttyPc, tty,                       \* task_tty: where it is, its loop variable
  fsPc, fsSrc, fsLen,               \* task_fs: where it is, src and len
  pc, request                       \* a process: where it is, what it asked for (a history variable)

ipc   == <<st, box, pend, stopped>>
keys  == <<kb_in, key_pressed, ibuf, current>>
reads == <<tty_procnr, tty_left_cnt, tty_trans_cnt>>
ttyLoc == <<ttyPc, tty>>
fsLoc == <<fsPc, fsSrc, fsLen>>
users == <<pc, request>>
vars  == <<ipc, keys, reads, ttyLoc, fsLoc, users>>

Message(from, type, dev, nr, cnt) ==
  [source |-> from, type |-> type, DEVICE |-> dev, PROC_NR |-> nr, CNT |-> cnt]

RV == INSTANCE Rendezvous WITH
        HardInt  <- Message(INTERRUPT, HARD_INT, 0, NO_TASK, 0),
        SendTo   <- [p \in Proc |-> Proc \ {p}],
        RecvFrom <- [p \in Proc |-> {ANY}],
        IntTask  <- {TASK_TTY},
        Types    <- {READ, WRITE}

Runs(p) == ~stopped /\ RV!Running(p)

-----------------------------------------------------------------------------
\* Interrupts.

\* keyboard_handler(): a code that finds the buffer full is dropped.
KeyboardInterrupt ==
  /\ ~stopped
  /\ \E k \in Key : kb_in' = IF Len(kb_in) < KB_IN_BYTES THEN Append(kb_in, k) ELSE kb_in
  /\ key_pressed' = TRUE
  /\ UNCHANGED <<ipc, ibuf, current, reads, ttyLoc, fsLoc, users>>

ClockTick ==
  /\ ~stopped
  /\ key_pressed
  /\ RV!Notify(TASK_TTY)
  /\ UNCHANGED <<keys, reads, ttyLoc, fsLoc, users>>

-----------------------------------------------------------------------------
\* The processes: read() and write() on /dev_ttyN.

Nothing == [type |-> SYSCALL_RET, CNT |-> 0]

Calling(p) ==
  /\ Runs(p) /\ pc[p] = "program"
  /\ \E type \in Does[p], n \in Counts :
       /\ RV!Send(p, TASK_FS, Message(p, type, TtyOf[p], NO_TASK, n))
       /\ request' = [request EXCEPT ![p] = [type |-> type, CNT |-> n]]
  /\ pc' = [pc EXCEPT ![p] = "sent"]
  /\ UNCHANGED <<keys, reads, ttyLoc, fsLoc>>

Awaiting(p) ==
  /\ Runs(p) /\ pc[p] = "sent"
  /\ RV!Receive(p, TASK_FS)
  /\ pc' = [pc EXCEPT ![p] = "answer"]
  /\ UNCHANGED <<keys, reads, ttyLoc, fsLoc, request>>

Returning(p) ==
  /\ Runs(p) /\ pc[p] = "answer"
  /\ pc' = [pc EXCEPT ![p] = "program"]
  /\ request' = [request EXCEPT ![p] = Nothing]
  /\ UNCHANGED <<ipc, keys, reads, ttyLoc, fsLoc>>

-----------------------------------------------------------------------------
\* TASK FS: do_rdwt() on a character device, and RESUME_PROC.

FsReceives ==
  /\ Runs(TASK_FS) /\ fsPc = "loop"
  /\ RV!Receive(TASK_FS, ANY)
  /\ fsPc' = "dispatch"
  /\ UNCHANGED <<keys, reads, ttyLoc, fsSrc, fsLen, users>>

\* READ and WRITE go on to TTY (first half of send_recv(BOTH)), a RESUME_PROC
\* is the answer to the process it names.
FsDispatch ==
  /\ Runs(TASK_FS) /\ fsPc = "dispatch"
  /\ LET m == box[TASK_FS] IN
     IF m.type = RESUME_PROC
     THEN /\ RV!Send(TASK_FS, m.PROC_NR, [m EXCEPT !.source = TASK_FS, !.type = SYSCALL_RET])
          /\ fsPc' = "loop"
          /\ UNCHANGED <<fsSrc, fsLen>>
     ELSE /\ RV!Send(TASK_FS, TASK_TTY,
                     [m EXCEPT !.source = TASK_FS, !.PROC_NR = m.source,
                               !.type = IF m.type = READ THEN DEV_READ ELSE DEV_WRITE])
          /\ fsSrc' = m.source /\ fsLen' = m.CNT
          /\ fsPc' = "tty"
  /\ UNCHANGED <<keys, reads, ttyLoc, users>>

\* Mutation: anybody's message is taken for TTY's answer.
FsHearsAny ==
  /\ Runs(TASK_FS) /\ fsPc = "tty"
  /\ RV!Receive(TASK_FS, ANY)
  /\ fsPc' = "reply"
  /\ UNCHANGED <<keys, reads, ttyLoc, fsSrc, fsLen, users>>

FsHears ==
  /\ Runs(TASK_FS) /\ fsPc = "tty"
  /\ RV!Receive(TASK_FS, TASK_TTY)
  /\ fsPc' = "reply"
  /\ UNCHANGED <<keys, reads, ttyLoc, fsSrc, fsLen, users>>

FsReplies ==
  /\ Runs(TASK_FS) /\ fsPc = "reply"
  /\ IF box[TASK_FS].type = SUSPEND_PROC
     THEN UNCHANGED ipc
     ELSE RV!Send(TASK_FS, fsSrc, [box[TASK_FS] EXCEPT !.source = TASK_FS, !.type = SYSCALL_RET])
  /\ fsPc' = "loop"
  /\ UNCHANGED <<keys, reads, ttyLoc, fsSrc, fsLen, users>>

FsStep == FsReceives \/ FsDispatch \/ FsHears \/ FsReplies

-----------------------------------------------------------------------------
\* TASK TTY.

\* tty_dev_read() and keyboard_read(): the current terminal empties the
\* keyboard buffer; put_key() drops what does not fit.
\* Mutation: one key too many fits.
TakeKeyOverrun(k) ==
  IF k \in Switches
  THEN current' = k[2] /\ UNCHANGED ibuf
  ELSE /\ ibuf' = [ibuf EXCEPT ![tty] = IF Len(@) <= TTY_IN_BYTES THEN Append(@, k) ELSE @]
       /\ UNCHANGED current

TakeKey(k) ==
  IF k \in Switches
  THEN current' = k[2] /\ UNCHANGED ibuf
  ELSE /\ ibuf' = [ibuf EXCEPT ![tty] = IF Len(@) < TTY_IN_BYTES THEN Append(@, k) ELSE @]
       /\ UNCHANGED current

KeyboardReads ==
  /\ Runs(TASK_TTY) /\ ttyPc = "read"
  /\ IF kb_in # <<>>
     THEN /\ TakeKey(Head(kb_in))
          /\ kb_in' = Tail(kb_in)
          /\ UNCHANGED ttyPc
     ELSE /\ ttyPc' = "write"
          /\ UNCHANGED <<kb_in, ibuf, current>>
  /\ UNCHANGED <<ipc, key_pressed, reads, tty, fsLoc, users>>

\* Each terminal of the for loop; only the current one reads the keyboard.
Visit ==
  /\ Runs(TASK_TTY) /\ ttyPc = "visit"
  /\ ttyPc' = IF tty \notin Tty THEN "receive" ELSE IF tty = current THEN "read" ELSE "write"
  /\ UNCHANGED <<ipc, keys, reads, tty, fsLoc, users>>

\* tty_dev_write(), one key: echoed into the pending read, if there is one.
Left(k)  == IF k = CHAR THEN tty_left_cnt[tty] - 1
            ELSE IF k = BACKSPACE /\ tty_trans_cnt[tty] > 0 THEN tty_left_cnt[tty] + 1
            ELSE tty_left_cnt[tty]

Trans(k) == tty_trans_cnt[tty] + tty_left_cnt[tty] - Left(k)

\* Mutation: an empty line does not end a read.
LineDoneFull(k) == Left(k) = 0 \/ (k = ENTER /\ Trans(k) > 0)

LineDone(k) == k = ENTER \/ Left(k) = 0

Resume(k) == Message(TASK_TTY, RESUME_PROC, tty, tty_procnr[tty], Trans(k))

\* tty_left_cnt is 0 once the send_recv(SEND) is done; TTY does nothing with
\* it in between.
LeftAfter(k) == IF LineDone(k) THEN 0 ELSE Left(k)

TtyWrites ==
  /\ Runs(TASK_TTY) /\ ttyPc = "write" /\ ibuf[tty] # <<>>
  /\ LET k == Head(ibuf[tty]) IN
     /\ ibuf' = [ibuf EXCEPT ![tty] = Tail(@)]
     /\ IF tty_left_cnt[tty] > 0
        THEN /\ tty_left_cnt' = [tty_left_cnt EXCEPT ![tty] = LeftAfter(k)]
             /\ tty_trans_cnt' = [tty_trans_cnt EXCEPT ![tty] = Trans(k)]
             /\ IF LineDone(k) THEN RV!Send(TASK_TTY, TASK_FS, Resume(k)) ELSE UNCHANGED ipc
        ELSE UNCHANGED <<ipc, tty_left_cnt, tty_trans_cnt>>
  /\ UNCHANGED <<kb_in, key_pressed, current, tty_procnr, ttyLoc, fsLoc, users>>

\* Mutation: key_pressed is reset once the keyboard has been read.
NextTtyResets ==
  /\ Runs(TASK_TTY) /\ ttyPc = "write" /\ ibuf[tty] = <<>>
  /\ tty' = tty + 1
  /\ ttyPc' = "visit"
  /\ key_pressed' = FALSE
  /\ UNCHANGED <<ipc, kb_in, ibuf, current, reads, fsLoc, users>>

\* The terminal's buffer is empty: on to the next.
NextTty ==
  /\ Runs(TASK_TTY) /\ ttyPc = "write" /\ ibuf[tty] = <<>>
  /\ tty' = tty + 1
  /\ ttyPc' = "visit"
  /\ UNCHANGED <<ipc, keys, reads, fsLoc, users>>

TtyReceives ==
  /\ Runs(TASK_TTY) /\ ttyPc = "receive"
  /\ RV!Receive(TASK_TTY, ANY)
  /\ ttyPc' = "dispatch"
  /\ UNCHANGED <<keys, reads, tty, fsLoc, users>>

HardInt ==
  /\ box[TASK_TTY].type = HARD_INT
  /\ key_pressed' = FALSE
  /\ UNCHANGED <<ipc, reads>>

Answer(type) ==
  RV!Send(TASK_TTY, box[TASK_TTY].source,
          [box[TASK_TTY] EXCEPT !.source = TASK_TTY, !.type = type])

TtyDoRead ==
  /\ box[TASK_TTY].type = DEV_READ
  /\ LET m == box[TASK_TTY] IN
     /\ tty_procnr' = [tty_procnr EXCEPT ![m.DEVICE] = m.PROC_NR]
     /\ tty_left_cnt' = [tty_left_cnt EXCEPT ![m.DEVICE] = m.CNT]
     /\ tty_trans_cnt' = [tty_trans_cnt EXCEPT ![m.DEVICE] = 0]
  /\ Answer(SUSPEND_PROC)
  /\ UNCHANGED key_pressed

TtyDoWrite ==
  /\ box[TASK_TTY].type = DEV_WRITE
  /\ Answer(SYSCALL_RET)
  /\ UNCHANGED <<reads, key_pressed>>

TtyDispatches ==
  /\ Runs(TASK_TTY) /\ ttyPc = "dispatch"
  /\ HardInt \/ TtyDoRead \/ TtyDoWrite
  /\ ttyPc' = "visit" /\ tty' = 0
  /\ UNCHANGED <<kb_in, ibuf, current, fsLoc, users>>

TtyStep == Visit \/ KeyboardReads \/ TtyWrites \/ NextTty \/ TtyReceives \/ TtyDispatches

-----------------------------------------------------------------------------
Init ==
  /\ st = [p \in Proc |-> RV!Run]
  /\ box = [p \in Proc |-> Message(p, SYSCALL_RET, 0, p, 0)]
  /\ pend = [p \in Proc |-> FALSE]
  /\ stopped = FALSE
  /\ kb_in = <<>> /\ key_pressed = FALSE
  /\ ibuf = [t \in Tty |-> <<>>]
  /\ current = 1
  /\ tty_procnr = [t \in Tty |-> NO_TASK]
  /\ tty_left_cnt = [t \in Tty |-> 0] /\ tty_trans_cnt = [t \in Tty |-> 0]
  /\ ttyPc = "visit" /\ tty = 0
  /\ fsPc = "loop" /\ fsSrc = TASK_FS /\ fsLen = 0
  /\ pc = [p \in User |-> "program"]
  /\ request = [p \in User |-> Nothing]

Next == \/ KeyboardInterrupt \/ ClockTick
        \/ \E p \in User : Calling(p) \/ Awaiting(p) \/ Returning(p)
        \/ FsStep
        \/ TtyStep

Spec == Init /\ [][Next]_vars

\* The clock ticks, and the scheduler runs every process that can run
\* (MCIpcLive: NoStarvation).  Keys come slower than TTY reads them, so that
\* the loop of keyboard_read() finds the buffer empty in the end.  Nothing makes
\* anybody press a key or call read().
FairSpec ==
  /\ Spec
  /\ WF_vars(ClockTick) /\ WF_vars(TtyStep) /\ WF_vars(FsStep)
  /\ SF_vars(KeyboardReads /\ kb_in = <<>>)
  /\ \A p \in User : WF_vars(Awaiting(p))
-----------------------------------------------------------------------------
Biggest == CHOOSE n \in Counts : \A m \in Counts : m <= n

\* The types, and the bounds of the two key buffers and of the counts of a
\* read (kernel/tty.c, kernel/keyboard.c).
TypeOK ==
  /\ st \in [Proc -> [op : {"run", "send", "recv"}, peer : Proc \cup {ANY, NO_TASK}]]
  /\ pend \in [Proc -> BOOLEAN] /\ stopped \in BOOLEAN /\ key_pressed \in BOOLEAN
  /\ kb_in \in Seq(Key) /\ Len(kb_in) <= KB_IN_BYTES
  /\ ibuf \in [Tty -> Seq(Key \ Switches)] /\ \A t \in Tty : Len(ibuf[t]) <= TTY_IN_BYTES
  /\ current \in Tty
  /\ tty_procnr \in [Tty -> User \cup {NO_TASK}]
  /\ tty_left_cnt \in [Tty -> 0 .. Biggest] /\ tty_trans_cnt \in [Tty -> 0 .. Biggest]
  /\ \A t \in Tty : tty_left_cnt[t] + tty_trans_cnt[t] <= Biggest
  /\ ttyPc \in {"visit", "read", "write", "receive", "dispatch"}
  /\ tty \in 0 .. Cardinality(Tty) /\ (ttyPc \in {"read", "write"} => tty \in Tty)
  /\ fsPc \in {"loop", "dispatch", "tty", "reply"}
  /\ fsSrc \in User \cup {TASK_FS} /\ fsLen \in Counts \cup {0}
  /\ pc \in [User -> {"program", "sent", "answer"}]
  /\ request \in [User -> [type : {READ, WRITE}, CNT : Counts] \cup {Nothing}]

Waits(p) == pc[p] = "sent" \/ (pc[p] = "answer" /\ ~RV!Running(p))

About(m, p) == m.source = p \/ (m.source \in {TASK_FS, TASK_TTY} /\ m.PROC_NR = p)

\* The processes and terminals that have p's request, or the answer to it.
Carriers(p) ==
  {q \in {p} : RV!SendsTo(p, TASK_FS)}
  \cup
  {q \in {TASK_FS} : \/ fsPc = "dispatch" /\ RV!Running(q) /\ About(box[q], p)
                     \/ fsPc = "tty" /\ RV!SendsTo(q, TASK_TTY) /\ fsSrc = p
                     \/ fsPc = "reply" /\ RV!Running(q) /\ fsSrc = p /\ box[q].type # SUSPEND_PROC
                     \/ RV!SendsTo(q, p)}
  \cup
  {q \in {TASK_TTY} : \/ ttyPc = "dispatch" /\ RV!Running(q) /\ About(box[q], p)
                      \/ RV!SendsTo(q, TASK_FS) /\ box[q].type # SUSPEND_PROC /\ About(box[q], p)}
  \cup
  {t \in Tty : tty_procnr[t] = p /\ tty_left_cnt[t] > 0}

\* A process that waits for read() or write() to return will get exactly one
\* answer, and nobody else gets one: its request is in one place, whether it
\* is suspended or not (SUSPEND_PROC and RESUME_PROC, fs/main.c:70-72, 124-128).
OneAnswer ==
  ~stopped => \A p \in User : Cardinality(Carriers(p)) = IF Waits(p) THEN 1 ELSE 0

\* What read() and write() return: all that was written, at most what was to
\* be read, in a message of FS (lib/read.c:31-35).
AnswerFits ==
  \A p \in User : pc[p] = "answer" /\ RV!Running(p) =>
    /\ box[p].source = TASK_FS /\ box[p].type = SYSCALL_RET
    /\ box[p].CNT \in 0 .. request[p].CNT
    /\ request[p].type = WRITE => box[p].CNT = request[p].CNT

\* assert(fs_msg.CNT == len): what FS hears from TTY is the answer to what it
\* asked (fs/read_write.c:70).
FsAssertion ==
  fsPc = "reply" /\ RV!Running(TASK_FS) =>
    box[TASK_FS].CNT = fsLen /\ box[TASK_FS].PROC_NR = fsSrc

\* Keys are not left in the keyboard buffer while TTY sleeps: key_pressed is
\* reset before the buffer is read, not after (tty.c:127-133, clock.c:40).
KeysNotStuck ==
  kb_in # <<>> /\ ~RV!Running(TASK_TTY) /\ st[TASK_TTY].op = "recv" =>
    key_pressed \/ pend[TASK_TTY]

\* The comment on tty_dev_write() says what becomes of a key: "Echo the char
\* just pressed and transfer it to the waiting process" (kernel/tty.c:381).
\* It takes that TTY and FS never send to each other at the same time.
NoPanic == ~stopped

\* ENTER ends a pending read, whatever is typed afterwards: the process is
\* given the line, unless the kernel has panicked.
LineDelivered ==
  \A p \in User :
    (\E i \in DOMAIN ibuf[TtyOf[p]] : ibuf[TtyOf[p]][i] = ENTER)
       /\ tty_procnr[TtyOf[p]] = p /\ tty_left_cnt[TtyOf[p]] > 0
    ~> stopped \/ (pc[p] = "answer" /\ RV!Running(p))

\* A terminal request is answered once, by FS, with its own count, however
\* FS's question to TTY, the suspension and the resumption cross
\* (fs/main.c:70-72, 124-128; read_write.c:69-70).
RequestsAnswered == OneAnswer /\ AnswerFits /\ FsAssertion
=============================================================================
