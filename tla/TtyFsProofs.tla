---------------------------- MODULE TtyFsProofs ----------------------------
(***************************************************************************)
(* Proofs about TtyFs, for any number of processes and terminals, any      *)
(* sizes of the key buffers, any keys and any calls.  They assume that a   *)
(* terminal has one reader: a second one replaces the first in tty_procnr. *)
(***************************************************************************)
EXTENDS TtyFs, FiniteSetTheorems, TLAPS

Run       == RV!Run
SendTo(x) == RV!Blocked("send", x)
RecvOf(x) == RV!Blocked("recv", x)

OneReader ==
  \A p, q \in User : READ \in Does[p] /\ READ \in Does[q] /\ TtyOf[p] = TtyOf[q] => p = q

-----------------------------------------------------------------------------
(***************************************************************************)
(* The inductive invariant.                                                *)
(***************************************************************************)

\* Who can be blocked in what, and where its code is then.
BlockedOK ==
  /\ \A p \in User : \/ st[p] = Run
                     \/ st[p] = SendTo(TASK_FS) /\ pc[p] = "sent"
                     \/ st[p] = RecvOf(TASK_FS) /\ pc[p] = "answer"
  /\ \/ st[TASK_FS] = Run
     \/ st[TASK_FS] = RecvOf(ANY) /\ fsPc = "dispatch"
     \/ st[TASK_FS] = SendTo(TASK_TTY) /\ fsPc = "tty"
     \/ st[TASK_FS] = RecvOf(TASK_TTY) /\ fsPc = "reply"
     \/ \E p \in User : st[TASK_FS] = SendTo(p) /\ fsPc = "loop"
  /\ \/ st[TASK_TTY] = Run
     \/ st[TASK_TTY] = RecvOf(ANY) /\ ttyPc = "dispatch"
     \/ st[TASK_TTY] = SendTo(TASK_FS) /\ ttyPc \in {"visit", "write"}
  /\ \A p \in Proc : pend[p] => p = TASK_TTY

\* The keyboard buffer is read in this round of TTY's loop, or in the next.
KeysSeen ==
  kb_in # <<>> => \/ key_pressed \/ pend[TASK_TTY]
                  \/ ttyPc = "visit" /\ tty <= current
                  \/ ttyPc = "read"
                  \/ ttyPc = "write" /\ tty < current
                  \/ ttyPc = "dispatch" /\ st[TASK_TTY] = Run

\* The messages about p's request, with what it asked for.
Concerns(m, p) == m.DEVICE = TtyOf[p] /\ m.CNT = request[p].CNT
Asks(m, p)    == /\ m.source = p /\ m.type = request[p].type /\ m.PROC_NR = NO_TASK
                 /\ Concerns(m, p)
AsksTty(m, p) == /\ m.source = TASK_FS /\ m.PROC_NR = p /\ Concerns(m, p)
                 /\ m.type = IF request[p].type = READ THEN DEV_READ ELSE DEV_WRITE
TtySays(m, p) == /\ m.source = TASK_TTY /\ m.PROC_NR = p /\ Concerns(m, p)
                 /\ m.type = IF request[p].type = READ THEN SUSPEND_PROC ELSE SYSCALL_RET
Resumes(m, p) == /\ m.source = TASK_TTY /\ m.type = RESUME_PROC /\ m.PROC_NR = p
                 /\ request[p].type = READ /\ m.CNT \in 0 .. request[p].CNT
Answers(m, p) == /\ m.source = TASK_FS /\ m.type = SYSCALL_RET
                 /\ m.CNT \in 0 .. request[p].CNT
                 /\ request[p].type = WRITE => m.CNT = request[p].CNT

\* TTY is about to answer FS, or does so.
TtyAsked   == ttyPc = "dispatch" /\ st[TASK_TTY] = Run /\ AsksTty(box[TASK_TTY], fsSrc)
TtyAnswers == st[TASK_TTY] = SendTo(TASK_FS) /\ TtySays(box[TASK_TTY], fsSrc)

RequestsOK ==
  \A p \in User :
    /\ pc[p] # "program" => request[p].type \in Does[p] /\ request[p].CNT \in Counts
    /\ st[p] = SendTo(TASK_FS) => Asks(box[p], p)
    /\ pc[p] = "answer" /\ st[p] = Run => Answers(box[p], p)
    /\ st[TASK_FS] = SendTo(p) => Answers(box[TASK_FS], p)

\* FS's message, and what it remembers of the request, at each point of its loop.
FsOK ==
  /\ fsPc = "dispatch" /\ st[TASK_FS] = Run =>
       \E p \in User : Waits(p) /\ (Asks(box[TASK_FS], p) \/ Resumes(box[TASK_FS], p))
  /\ fsPc \in {"tty", "reply"} => fsSrc \in User /\ Waits(fsSrc) /\ fsLen = request[fsSrc].CNT
  /\ st[TASK_FS] = SendTo(TASK_TTY) =>
       AsksTty(box[TASK_FS], fsSrc) /\ st[TASK_TTY] # SendTo(TASK_FS)
  /\ fsPc = "tty" /\ st[TASK_FS] = Run => TtyAsked \/ TtyAnswers
  /\ st[TASK_FS] = RecvOf(TASK_TTY) => TtyAsked
  /\ fsPc = "reply" /\ st[TASK_FS] = Run => TtySays(box[TASK_FS], fsSrc)
  /\ st[TASK_FS] = RecvOf(ANY) => \A p \in Proc : st[p] # SendTo(TASK_FS)

\* TTY's message, and the reads it is busy with.
FsAwaits == (fsPc = "tty" /\ st[TASK_FS] = Run) \/ st[TASK_FS] = RecvOf(TASK_TTY)

IsHardInt(m) == m.source = INTERRUPT /\ m.type = HARD_INT /\ m.PROC_NR = NO_TASK

ReadsOK ==
  \A t \in Tty : tty_left_cnt[t] > 0 =>
    /\ tty_procnr[t] \in User /\ TtyOf[tty_procnr[t]] = t
    /\ request[tty_procnr[t]].type = READ
    /\ tty_left_cnt[t] + tty_trans_cnt[t] = request[tty_procnr[t]].CNT

TtyOK ==
  /\ ttyPc = "dispatch" /\ st[TASK_TTY] = Run =>
       \/ IsHardInt(box[TASK_TTY])
       \/ FsAwaits /\ AsksTty(box[TASK_TTY], fsSrc)
  /\ st[TASK_TTY] = SendTo(TASK_FS) =>
       \/ fsPc = "tty" /\ st[TASK_FS] = Run /\ TtySays(box[TASK_TTY], fsSrc)
       \/ ~FsAwaits /\ \E p \in User : Waits(p) /\ Resumes(box[TASK_TTY], p)
  /\ st[TASK_TTY] = RecvOf(ANY) => st[TASK_FS] # SendTo(TASK_TTY)
  /\ ReadsOK

\* Where p's request, or the answer to it, can be: with p, FS or TTY, or with
\* its terminal, whose read is suspended.
InFs(p) == \/ fsPc = "dispatch" /\ st[TASK_FS] = Run /\ About(box[TASK_FS], p)
           \/ st[TASK_FS] = SendTo(TASK_TTY) /\ fsSrc = p
           \/ /\ fsPc = "reply" /\ st[TASK_FS] = Run /\ fsSrc = p
              /\ box[TASK_FS].type # SUSPEND_PROC
           \/ st[TASK_FS] = SendTo(p)
InTty(p) == \/ ttyPc = "dispatch" /\ st[TASK_TTY] = Run /\ About(box[TASK_TTY], p)
            \/ /\ st[TASK_TTY] = SendTo(TASK_FS) /\ box[TASK_TTY].type # SUSPEND_PROC
               /\ About(box[TASK_TTY], p)
Suspended(p) == tty_procnr[TtyOf[p]] = p /\ tty_left_cnt[TtyOf[p]] > 0

OnePlace(p) ==
  /\ Waits(p) <=> (st[p] = SendTo(TASK_FS) \/ InFs(p) \/ InTty(p) \/ Suspended(p))
  /\ ~(st[p] = SendTo(TASK_FS) /\ InFs(p)) /\ ~(st[p] = SendTo(TASK_FS) /\ InTty(p))
  /\ ~(st[p] = SendTo(TASK_FS) /\ Suspended(p)) /\ ~(InFs(p) /\ InTty(p))
  /\ ~(InFs(p) /\ Suspended(p)) /\ ~(InTty(p) /\ Suspended(p))

Traffic == RequestsOK /\ FsOK /\ TtyOK /\ \A p \in User : OnePlace(p)

Messages == [source : Proc \cup {INTERRUPT}, DEVICE : Tty, PROC_NR : Proc \cup {NO_TASK},
             CNT : Nat,
             type : {READ, WRITE, DEV_READ, DEV_WRITE, SUSPEND_PROC, RESUME_PROC,
                     SYSCALL_RET, HARD_INT}]

IInv ==
  /\ TypeOK /\ box \in [Proc -> Messages]
  /\ BlockedOK /\ KeysSeen
  /\ AnswerFits /\ FsAssertion
  /\ stopped \/ Traffic

-----------------------------------------------------------------------------
\* The tasks, the processes and the sources of no process differ.
LEMMA ProcFacts ==
  /\ TASK_FS # TASK_TTY /\ TASK_FS \notin User /\ TASK_TTY \notin User
  /\ TASK_FS \in Proc /\ TASK_TTY \in Proc /\ User \subseteq Proc
  /\ ANY \notin Proc /\ INTERRUPT \notin Proc /\ NO_TASK \notin Proc
  /\ Proc = User \cup {TASK_FS, TASK_TTY}
BY TtyAssumption DEF Proc

LEMMA TtyFacts ==
  /\ Cardinality(Tty) \in Nat /\ Cardinality(Tty) >= 2 /\ Tty = 0 .. Cardinality(Tty) - 1
  /\ 0 \in Tty /\ 1 \in Tty /\ Tty \subseteq Nat
  /\ \A p \in User : TtyOf[p] \in Tty /\ Does[p] \subseteq {READ, WRITE}
  /\ Counts \subseteq Nat \ {0} /\ KB_IN_BYTES \in Nat \ {0} /\ TTY_IN_BYTES \in Nat \ {0}
<1>1. Cardinality(Tty) \in Nat /\ Tty = 0 .. Cardinality(Tty) - 1 /\ 1 \in Tty
  BY TtyAssumption, FS_CardinalityType
<1> QED
  BY <1>1, TtyAssumption

\* The largest count a process asks for.
LEMMA BiggestFacts == Biggest \in Counts /\ \A n \in Counts : n <= Biggest
<1>1. \E n \in Counts : \A m \in Counts : m <= n
  BY TtyAssumption
<1> QED
  BY <1>1, Zenon DEF Biggest

\* A key is a switch of the console, or goes into the terminal's buffer.
LEMMA KeyFacts ==
  ASSUME NEW k \in Key
  PROVE  /\ k \in Switches => k[2] \in Tty
         /\ k \notin Switches => k \in Key \ Switches
BY TtyAssumption DEF Switches, AltF

\* What a process is blocked in: the constructors differ, and tell the partner.
LEMMA DoingFacts ==
  /\ Run.op = "run"
  /\ \A x : SendTo(x).op = "send" /\ SendTo(x).peer = x /\ SendTo(x) # Run
  /\ \A x : RecvOf(x).op = "recv" /\ RecvOf(x).peer = x /\ RecvOf(x) # Run
  /\ \A x, y : SendTo(x) # RecvOf(y)
  /\ \A x, y : (SendTo(x) = SendTo(y) => x = y) /\ (RecvOf(x) = RecvOf(y) => x = y)
BY DEF Run, SendTo, RecvOf, RV!Run, RV!Blocked

Doings == [op : {"run", "send", "recv"}, peer : Proc \cup {ANY, NO_TASK}]

LEMMA DoingTypes ==
  /\ Run \in Doings
  /\ \A x \in Proc : SendTo(x) \in Doings
  /\ \A x \in Proc \cup {ANY} : RecvOf(x) \in Doings
BY DEF Run, SendTo, RecvOf, RV!Run, RV!Blocked, Doings

MessageTypes == {READ, WRITE, DEV_READ, DEV_WRITE, SUSPEND_PROC, RESUME_PROC,
                 SYSCALL_RET, HARD_INT}

LEMMA MessageFacts ==
  ASSUME NEW from, NEW type, NEW dev, NEW nr, NEW cnt
  PROVE  /\ Message(from, type, dev, nr, cnt).source = from
         /\ Message(from, type, dev, nr, cnt).type = type
         /\ Message(from, type, dev, nr, cnt).DEVICE = dev
         /\ Message(from, type, dev, nr, cnt).PROC_NR = nr
         /\ Message(from, type, dev, nr, cnt).CNT = cnt
BY DEF Message

LEMMA MessageType ==
  ASSUME NEW from \in Proc \cup {INTERRUPT}, NEW type \in MessageTypes, NEW dev \in Tty,
         NEW nr \in Proc \cup {NO_TASK}, NEW cnt \in Nat
  PROVE  Message(from, type, dev, nr, cnt) \in Messages
BY DEF Message, Messages, MessageTypes

\* The types of messages differ.
LEMMA TypeFacts ==
  /\ READ # WRITE
  /\ DEV_READ \notin {READ, WRITE, RESUME_PROC, DEV_WRITE, HARD_INT}
  /\ DEV_WRITE \notin {READ, WRITE, RESUME_PROC, HARD_INT}
  /\ RESUME_PROC \notin {READ, WRITE, SUSPEND_PROC, SYSCALL_RET, HARD_INT}
  /\ SUSPEND_PROC # SYSCALL_RET
BY DEF READ, WRITE, DEV_READ, DEV_WRITE, SUSPEND_PROC, RESUME_PROC, SYSCALL_RET, HARD_INT

\* A message taken over with some of its fields replaced.
LEMMA Forwarded ==
  ASSUME NEW m \in Messages, NEW from \in Proc \cup {INTERRUPT}, NEW type \in MessageTypes,
         NEW nr \in Proc \cup {NO_TASK}
  PROVE  /\ LET n == [m EXCEPT !.source = from, !.type = type]
            IN  /\ n \in Messages /\ n.source = from /\ n.type = type
                /\ n.DEVICE = m.DEVICE /\ n.PROC_NR = m.PROC_NR /\ n.CNT = m.CNT
         /\ LET n == [m EXCEPT !.source = from, !.PROC_NR = nr, !.type = type]
            IN  /\ n \in Messages /\ n.source = from /\ n.type = type
                /\ n.DEVICE = m.DEVICE /\ n.PROC_NR = nr /\ n.CNT = m.CNT
BY DEF Messages, MessageTypes

-----------------------------------------------------------------------------
(***************************************************************************)
(* What a system call does, given who can be blocked in what.              *)
(***************************************************************************)

LEMMA Blocking ==
  ASSUME BlockedOK
  PROVE  /\ \A p \in User : st[p] \in {Run, SendTo(TASK_FS), RecvOf(TASK_FS)}
         /\ \/ st[TASK_FS] \in {Run, RecvOf(ANY), SendTo(TASK_TTY), RecvOf(TASK_TTY)}
            \/ \E p \in User : st[TASK_FS] = SendTo(p)
         /\ st[TASK_TTY] \in {Run, RecvOf(ANY), SendTo(TASK_FS)}
         /\ \A p \in Proc : (st[p].op = "run") = (st[p] = Run)
<1>1. /\ \A p \in User : st[p] \in {Run, SendTo(TASK_FS), RecvOf(TASK_FS)}
      /\ \/ st[TASK_FS] \in {Run, RecvOf(ANY), SendTo(TASK_TTY), RecvOf(TASK_TTY)}
         \/ \E p \in User : st[TASK_FS] = SendTo(p)
      /\ st[TASK_TTY] \in {Run, RecvOf(ANY), SendTo(TASK_FS)}
  BY DEF BlockedOK
<1>2. \A p \in Proc : (st[p].op = "run") = (st[p] = Run)
  BY <1>1, DoingFacts, ProcFacts
<1> QED
  BY <1>1, <1>2

\* Where a blocked process is in its code.
LEMMA Places ==
  ASSUME BlockedOK
  PROVE  /\ st[TASK_FS] = RecvOf(ANY) => fsPc = "dispatch"
         /\ st[TASK_FS] = SendTo(TASK_TTY) => fsPc = "tty"
         /\ st[TASK_FS] = RecvOf(TASK_TTY) => fsPc = "reply"
         /\ FsAwaits => fsPc \in {"tty", "reply"}
         /\ st[TASK_TTY] = RecvOf(ANY) => ttyPc = "dispatch"
         /\ st[TASK_TTY] = SendTo(TASK_FS) => ttyPc \in {"visit", "write"}
         /\ \A p \in User : /\ st[p] = SendTo(TASK_FS) => pc[p] = "sent"
                            /\ st[p] = RecvOf(TASK_FS) => pc[p] = "answer"
                            /\ st[TASK_FS] = SendTo(p) => fsPc = "loop"
<1>1. ANY # TASK_TTY /\ TASK_TTY \notin User
  BY ProcFacts
<1> QED
  BY <1>1, DoingFacts DEF BlockedOK, FsAwaits

LEMMA RunsFacts ==
  ASSUME BlockedOK, NEW p \in Proc
  PROVE  Runs(p) <=> ~stopped /\ st[p] = Run
BY Blocking DEF Runs, RV!Running

Delivers(p, d, m) == /\ box' = [box EXCEPT ![p] = m, ![d] = m]
                     /\ st' = [st EXCEPT ![d] = Run]
                     /\ UNCHANGED <<pend, stopped>>

Parks(p, d, m) == /\ box' = [box EXCEPT ![p] = m]
                  /\ st' = [st EXCEPT ![p] = SendTo(d)]
                  /\ UNCHANGED <<pend, stopped>>

Panics == stopped' = TRUE /\ UNCHANGED <<st, box, pend>>

\* p's RECEIVE from src takes a message, and waits for one.
Takes(p, s) == /\ st[s] = SendTo(p)
               /\ box' = [box EXCEPT ![p] = box[s]]
               /\ st' = [st EXCEPT ![s] = Run]
               /\ UNCHANGED <<pend, stopped>>

Sleeps(p, src) == /\ box' = [box EXCEPT ![p].source = p]
                  /\ st' = [st EXCEPT ![p] = RecvOf(src)]
                  /\ UNCHANGED <<pend, stopped>>

LEMMA SendOutcome ==
  ASSUME NEW p, NEW d, NEW m, RV!Send(p, d, m)
  PROVE  \/ Panics
         \/ Delivers(p, d, m) /\ st[d].op = "recv" /\ st[d].peer \in {p, ANY}
         \/ /\ Parks(p, d, m) /\ ~(st[d].op = "recv" /\ st[d].peer \in {p, ANY})
            /\ ~RV!Circle(p, d)
BY DEF RV!Send, RV!SendPanics, RV!SendNow, RV!SendWait, RV!Accepts, Panics, Delivers, Parks,
       Run, SendTo

\* Two processes that send to each other are a circle.
LEMMA CircleOfTwo ==
  ASSUME NEW p \in Proc, NEW d, st[d] = SendTo(p)
  PROVE  RV!Circle(p, d)
<1>1. st[d].op = "send" /\ st[d].peer = p
  BY DoingFacts
<1> QED
  BY <1>1 DEF RV!Circle

LEMMA CallFs ==
  ASSUME BlockedOK, NEW p \in User, NEW m, RV!Send(p, TASK_FS, m)
  PROVE  \/ Panics
         \/ Delivers(p, TASK_FS, m) /\ st[TASK_FS] = RecvOf(ANY)
         \/ Parks(p, TASK_FS, m) /\ st[TASK_FS] # RecvOf(ANY)
BY SendOutcome, Blocking, DoingFacts, ProcFacts

LEMMA AnswerUser ==
  ASSUME BlockedOK, NEW p \in User, NEW m, RV!Send(TASK_FS, p, m)
  PROVE  \/ Panics
         \/ Delivers(TASK_FS, p, m) /\ st[p] = RecvOf(TASK_FS)
         \/ Parks(TASK_FS, p, m) /\ st[p] # RecvOf(TASK_FS)
BY SendOutcome, Blocking, DoingFacts, ProcFacts

LEMMA CallTty ==
  ASSUME BlockedOK, NEW m, RV!Send(TASK_FS, TASK_TTY, m)
  PROVE  \/ Panics
         \/ Delivers(TASK_FS, TASK_TTY, m) /\ st[TASK_TTY] = RecvOf(ANY)
         \/ Parks(TASK_FS, TASK_TTY, m) /\ st[TASK_TTY] = Run
<1>1. st[TASK_TTY] = SendTo(TASK_FS) => RV!Circle(TASK_FS, TASK_TTY)
  BY CircleOfTwo, ProcFacts
<1> QED
  BY <1>1, SendOutcome, Blocking, DoingFacts, ProcFacts

LEMMA TellFs ==
  ASSUME BlockedOK, NEW m, RV!Send(TASK_TTY, TASK_FS, m)
  PROVE  \/ Panics
         \/ Delivers(TASK_TTY, TASK_FS, m) /\ st[TASK_FS] \in {RecvOf(ANY), RecvOf(TASK_TTY)}
         \/ /\ Parks(TASK_TTY, TASK_FS, m)
            /\ st[TASK_FS] \notin {RecvOf(ANY), RecvOf(TASK_TTY), SendTo(TASK_TTY)}
<1>1. st[TASK_FS] = SendTo(TASK_TTY) => RV!Circle(TASK_TTY, TASK_FS)
  BY CircleOfTwo, ProcFacts
<1> QED
  BY <1>1, SendOutcome, Blocking, DoingFacts, ProcFacts

LEMMA ReceiveOutcome ==
  ASSUME NEW p \in Proc, NEW src, RV!Receive(p, src), ~pend[p]
  PROVE  \/ \E s \in Proc : Takes(p, s) /\ src \in {s, ANY}
         \/ Sleeps(p, src) /\ \A s \in Proc : st[s] = SendTo(p) => src \notin {s, ANY}
BY DEF RV!Receive, RV!ReceiveInt, RV!ReceiveNow, RV!ReceiveWait, RV!TakesInt, RV!Offers,
       RV!SendsTo, Takes, Sleeps, Run, SendTo, RecvOf

LEMMA HearFs ==
  ASSUME BlockedOK, NEW p \in User, RV!Receive(p, TASK_FS)
  PROVE  Takes(p, TASK_FS) \/ (Sleeps(p, TASK_FS) /\ st[TASK_FS] # SendTo(p))
<1>1. ~pend[p]
  BY ProcFacts DEF BlockedOK
<1> QED
  BY <1>1, ReceiveOutcome, ProcFacts

LEMMA HearAny ==
  ASSUME BlockedOK, RV!Receive(TASK_FS, ANY)
  PROVE  \/ \E s \in User \cup {TASK_TTY} : Takes(TASK_FS, s)
         \/ Sleeps(TASK_FS, ANY) /\ \A s \in Proc : st[s] # SendTo(TASK_FS)
<1>1. ~pend[TASK_FS]
  BY ProcFacts DEF BlockedOK
<1>2. st[TASK_FS] # SendTo(TASK_FS)
  BY Blocking, DoingFacts, ProcFacts
<1> QED
  BY <1>1, <1>2, ReceiveOutcome, ProcFacts DEF Takes

LEMMA HearTty ==
  ASSUME BlockedOK, RV!Receive(TASK_FS, TASK_TTY)
  PROVE  Takes(TASK_FS, TASK_TTY) \/ (Sleeps(TASK_FS, TASK_TTY) /\ st[TASK_TTY] # SendTo(TASK_FS))
<1>1. ~pend[TASK_FS]
  BY ProcFacts DEF BlockedOK
<1> QED
  BY <1>1, ReceiveOutcome, ProcFacts

\* TTY hears of the clock, or of FS.
Woken == /\ box' = [box EXCEPT ![TASK_TTY] = Message(INTERRUPT, HARD_INT, 0, NO_TASK, 0)]
         /\ pend' = [pend EXCEPT ![TASK_TTY] = FALSE]
         /\ UNCHANGED stopped

LEMMA TtyHears ==
  ASSUME BlockedOK, RV!Receive(TASK_TTY, ANY)
  PROVE  \/ Woken /\ UNCHANGED st
         \/ Takes(TASK_TTY, TASK_FS)
         \/ /\ Sleeps(TASK_TTY, ANY) /\ st[TASK_FS] # SendTo(TASK_TTY)
            /\ ~pend[TASK_TTY]
<1>1. CASE pend[TASK_TTY]
  BY <1>1 DEF RV!Receive, RV!ReceiveInt, RV!ReceiveNow, RV!ReceiveWait, RV!TakesInt, Woken
<1>2. CASE ~pend[TASK_TTY]
  <2>1. \A s \in Proc : st[s] = SendTo(TASK_TTY) => s = TASK_FS
    BY Blocking, DoingFacts, ProcFacts
  <2> QED
    BY <1>2, <2>1, ReceiveOutcome, ProcFacts DEF Takes
<1> QED
  BY <1>1, <1>2

LEMMA Notified ==
  ASSUME BlockedOK, RV!Notify(TASK_TTY)
  PROVE  \/ Woken /\ st[TASK_TTY] = RecvOf(ANY) /\ st' = [st EXCEPT ![TASK_TTY] = Run]
         \/ /\ st[TASK_TTY] # RecvOf(ANY) /\ pend' = [pend EXCEPT ![TASK_TTY] = TRUE]
            /\ UNCHANGED <<st, box, stopped>>
<1>1. RV!AcceptsInt(TASK_TTY) <=> st[TASK_TTY] = RecvOf(ANY)
  BY Blocking, DoingFacts, ProcFacts DEF RV!AcceptsInt
<1> QED
  BY <1>1 DEF RV!Notify, Woken, Run

\* The kernel's variables keep their types.
IpcTypes == /\ st \in [Proc -> Doings] /\ box \in [Proc -> Messages]
            /\ pend \in [Proc -> BOOLEAN] /\ stopped \in BOOLEAN

LEMMA SendKeepsTypes ==
  ASSUME IpcTypes, NEW p \in Proc, NEW d \in Proc, NEW m \in Messages, RV!Send(p, d, m)
  PROVE  IpcTypes'
<1>1. CASE Panics
  BY <1>1 DEF IpcTypes, Panics
<1>2. CASE Delivers(p, d, m)
  BY <1>2, DoingTypes DEF IpcTypes, Delivers
<1>3. CASE Parks(p, d, m)
  BY <1>3, DoingTypes DEF IpcTypes, Parks
<1> QED
  BY <1>1, <1>2, <1>3, SendOutcome

LEMMA ReceiveKeepsTypes ==
  ASSUME IpcTypes, NEW p \in Proc, NEW src \in Proc \cup {ANY}, RV!Receive(p, src)
  PROVE  IpcTypes'
<1>1. Message(INTERRUPT, HARD_INT, 0, NO_TASK, 0) \in Messages
  BY MessageType, TtyFacts DEF MessageTypes
<1>2. \A s \in Proc : box[s] \in Messages
  BY DEF IpcTypes
<1>3. [box[p] EXCEPT !.source = p] \in Messages
  BY <1>2 DEF Messages
<1>4. CASE RV!ReceiveInt(p, src)
  BY <1>1, <1>4 DEF RV!ReceiveInt, IpcTypes
<1>5. CASE RV!ReceiveNow(p, src)
  <2>1. PICK s \in Proc : /\ box' = [box EXCEPT ![p] = box[s]]
                          /\ st' = [st EXCEPT ![s] = Run]
                          /\ UNCHANGED <<pend, stopped>>
    BY <1>5 DEF RV!ReceiveNow, RV!Offers, Run
  <2> QED
    BY <2>1, <1>2, DoingTypes DEF IpcTypes
<1>6. CASE RV!ReceiveWait(p, src)
  <2>1. /\ box' = [box EXCEPT ![p].source = p] /\ st' = [st EXCEPT ![p] = RecvOf(src)]
        /\ UNCHANGED <<pend, stopped>>
    BY <1>6 DEF RV!ReceiveWait, RecvOf
  <2> QED
    BY <2>1, <1>3, DoingTypes DEF IpcTypes
<1> QED
  BY <1>4, <1>5, <1>6 DEF RV!Receive

LEMMA NotifyKeepsTypes ==
  ASSUME IpcTypes, RV!Notify(TASK_TTY)
  PROVE  IpcTypes'
<1>1. Message(INTERRUPT, HARD_INT, 0, NO_TASK, 0) \in Messages
  BY MessageType, TtyFacts DEF MessageTypes
<1>2. CASE RV!AcceptsInt(TASK_TTY)
  <2>1. /\ box' = [box EXCEPT ![TASK_TTY] = Message(INTERRUPT, HARD_INT, 0, NO_TASK, 0)]
        /\ st' = [st EXCEPT ![TASK_TTY] = Run]
        /\ pend' = [pend EXCEPT ![TASK_TTY] = FALSE]
        /\ UNCHANGED stopped
    BY <1>2 DEF RV!Notify, Run
  <2> QED
    BY <1>1, <2>1, DoingTypes DEF IpcTypes
<1>3. CASE ~RV!AcceptsInt(TASK_TTY)
  BY <1>3 DEF RV!Notify, IpcTypes
<1> QED
  BY <1>2, <1>3

LEMMA Typed == IInv => IpcTypes
BY DEF IInv, TypeOK, IpcTypes, Doings

\* The types of everything else.
RestTypes ==
  /\ key_pressed \in BOOLEAN
  /\ kb_in \in Seq(Key) /\ Len(kb_in) <= KB_IN_BYTES
  /\ ibuf \in [Tty -> Seq(Key \ Switches)] /\ \A t \in Tty : Len(ibuf[t]) <= TTY_IN_BYTES
  /\ current \in Tty
  /\ tty_procnr \in [Tty -> User \cup {NO_TASK}]
  /\ tty_left_cnt \in [Tty -> 0 .. Biggest] /\ tty_trans_cnt \in [Tty -> 0 .. Biggest]
  /\ \A t \in Tty : tty_left_cnt[t] + tty_trans_cnt[t] <= Biggest
  /\ ttyPc \in {"visit", "read", "write", "receive", "dispatch"}
  /\ tty \in 0 .. Cardinality(Tty) /\ (ttyPc \in {"read", "write"} => tty \in Tty)
  /\ fsPc \in {"loop", "dispatch", "tty", "reply"}
  /\ fsSrc \in User \cup {TASK_FS} /\ fsLen \in Counts \cup {0}
  /\ pc \in [User -> {"program", "sent", "answer"}]
  /\ request \in [User -> [type : {READ, WRITE}, CNT : Counts] \cup {Nothing}]

LEMMA TypesApart == TypeOK /\ box \in [Proc -> Messages] <=> IpcTypes /\ RestTypes
BY DEF TypeOK, IpcTypes, RestTypes, Doings

-----------------------------------------------------------------------------
(***************************************************************************)
(* Each action preserves the invariant.                                    *)
(***************************************************************************)

\* What FS and TTY say of a request follows from the traffic.
LEMMA TrafficFits ==
  ASSUME IpcTypes, RestTypes, BlockedOK, Traffic
  PROVE  AnswerFits /\ FsAssertion
<1>1. ASSUME NEW p \in User, pc[p] = "answer", RV!Running(p)
      PROVE  /\ box[p].source = TASK_FS /\ box[p].type = SYSCALL_RET
             /\ box[p].CNT \in 0 .. request[p].CNT
             /\ request[p].type = WRITE => box[p].CNT = request[p].CNT
  BY <1>1, Blocking, ProcFacts DEF RV!Running, Traffic, RequestsOK, Answers
<1>2. ASSUME fsPc = "reply", RV!Running(TASK_FS)
      PROVE  box[TASK_FS].CNT = fsLen /\ box[TASK_FS].PROC_NR = fsSrc
  BY <1>2, Blocking, ProcFacts DEF RV!Running, Traffic, FsOK, TtySays, Concerns
<1> QED
  BY <1>1, <1>2 DEF AnswerFits, FsAssertion

LEMMA Assembled ==
  ASSUME IpcTypes', RestTypes', BlockedOK', KeysSeen', Traffic'
  PROVE  IInv'
<1>1. (TypeOK /\ box \in [Proc -> Messages])'
  BY DEF TypeOK, IpcTypes, RestTypes, Doings
<1>2. AnswerFits' /\ FsAssertion'
  BY TrafficFits, PTL
<1> QED
  BY <1>1, <1>2 DEF IInv

\* A panic in a SEND changes nothing but where the sender's code is.
LEMMA PanicIInv ==
  ASSUME IInv, Panics, UNCHANGED <<keys, reads, fsSrc, fsLen>>, RestTypes',
         \A p \in User : pc'[p] = pc[p] \/ (pc[p] = "program" /\ pc'[p] = "sent"),
         \A p \in User : pc[p] = "answer" => request'[p] = request[p],
         fsPc' = fsPc \/ (fsPc' \in {"loop", "tty"} /\ st[TASK_FS] = Run),
         \/ UNCHANGED ttyLoc
         \/ ttyPc' = "visit" /\ tty' = 0 /\ st[TASK_TTY] = Run
  PROVE  IInv'
<1>1. IpcTypes'
  BY Typed DEF IpcTypes, Panics
<1>2. (TypeOK /\ box \in [Proc -> Messages])'
  BY <1>1 DEF TypeOK, IpcTypes, RestTypes, Doings
<1>3. BlockedOK'
  BY DoingFacts DEF IInv, BlockedOK, Panics, ttyLoc
<1>4. KeysSeen'
  <2>1. current \in Nat /\ KeysSeen
    BY TtyFacts DEF IInv, TypeOK
  <2> QED
    BY <2>1 DEF KeysSeen, Panics, ttyLoc, keys
<1>5. AnswerFits'
  BY DEF IInv, AnswerFits, Panics, RV!Running
<1>6. FsAssertion'
  BY DEF IInv, FsAssertion, Panics, RV!Running
<1> QED
  BY <1>2, <1>3, <1>4, <1>5, <1>6 DEF IInv, Panics

\* A process that does not wait has nothing under way.
LEMMA NothingUnderWay ==
  ASSUME BlockedOK, Traffic, NEW p \in User, ~Waits(p)
  PROVE  /\ st[p] # SendTo(TASK_FS) /\ st[TASK_FS] # SendTo(p)
         /\ ~InFs(p) /\ ~InTty(p) /\ ~Suspended(p)
         /\ fsPc \in {"tty", "reply"} => fsSrc # p
         /\ \A q \in User : Waits(q) => q # p
BY DEF Traffic, OnePlace, InFs, FsOK

\* Messages keep their meaning for a process that asks for the same.
LEMMA SameMeaning ==
  ASSUME NEW q, request'[q] = request[q]
  PROVE  \A x : /\ Asks(x, q)' = Asks(x, q) /\ AsksTty(x, q)' = AsksTty(x, q)
                /\ TtySays(x, q)' = TtySays(x, q)
                /\ Resumes(x, q)' = Resumes(x, q) /\ Answers(x, q)' = Answers(x, q)
BY DEF Asks, AsksTty, TtySays, Resumes, Answers, Concerns

LEMMA CallingIInv ==
  ASSUME IInv, NEW p \in User, Calling(p)
  PROVE  IInv'
<1>1. PICK type \in Does[p], n \in Counts :
        /\ RV!Send(p, TASK_FS, Message(p, type, TtyOf[p], NO_TASK, n))
        /\ request' = [request EXCEPT ![p] = [type |-> type, CNT |-> n]]
  BY DEF Calling
<1> DEFINE m == Message(p, type, TtyOf[p], NO_TASK, n)
<1>2. /\ ~stopped /\ st[p] = Run /\ pc[p] = "program" /\ pc' = [pc EXCEPT ![p] = "sent"]
      /\ UNCHANGED <<keys, reads, ttyLoc, fsLoc>>
  BY RunsFacts, ProcFacts DEF IInv, Calling
<1>3. IpcTypes /\ RestTypes /\ BlockedOK /\ Traffic
  BY <1>2, Typed, TypesApart DEF IInv
<1>4. type \in {READ, WRITE} /\ n \in Nat /\ p \in Proc
  BY TtyFacts, ProcFacts
<1>5. IpcTypes'
  <2>1. m \in Messages
    BY <1>4, MessageType, TtyFacts DEF MessageTypes
  <2> QED
    BY <1>1, <1>3, <1>4, <2>1, SendKeepsTypes, ProcFacts
<1>6. RestTypes'
  BY <1>1, <1>2, <1>3, <1>4 DEF RestTypes, keys, reads, ttyLoc, fsLoc
<1>7. CASE Panics
  <2>1. /\ UNCHANGED <<keys, reads, fsSrc, fsLen, ttyLoc>> /\ fsPc' = fsPc
        /\ \A q \in User : pc'[q] = pc[q] \/ (pc[q] = "program" /\ pc'[q] = "sent")
        /\ \A q \in User : pc[q] = "answer" => request'[q] = request[q]
    BY <1>1, <1>2, <1>3 DEF RestTypes, fsLoc
  <2> QED
    BY <1>6, <1>7, <2>1, PanicIInv
<1>8. CASE ~Panics
  <2>1. \/ Delivers(p, TASK_FS, m) /\ st[TASK_FS] = RecvOf(ANY)
        \/ Parks(p, TASK_FS, m) /\ st[TASK_FS] # RecvOf(ANY)
    BY <1>1, <1>3, <1>8, CallFs
  <2>2. /\ st'[p] = IF st[TASK_FS] = RecvOf(ANY) THEN Run ELSE SendTo(TASK_FS)
        /\ st'[TASK_FS] = IF st[TASK_FS] = RecvOf(ANY) THEN Run ELSE st[TASK_FS]
        /\ \A q \in Proc \ {p, TASK_FS} : st'[q] = st[q] /\ box'[q] = box[q]
        /\ box'[p] = m
        /\ box'[TASK_FS] = IF st[TASK_FS] = RecvOf(ANY) THEN m ELSE box[TASK_FS]
        /\ UNCHANGED <<pend, stopped>>
    BY <1>2, <1>3, <1>4, <2>1, ProcFacts DEF IpcTypes, Delivers, Parks
  <2>3. /\ m.source = p /\ m.type = type /\ m.DEVICE = TtyOf[p] /\ m.PROC_NR = NO_TASK /\ m.CNT = n
    BY MessageFacts
  <2> HIDE DEF m
  <2>4. /\ pc'[p] = "sent" /\ \A q \in User \ {p} : pc'[q] = pc[q] /\ request'[q] = request[q]
        /\ request'[p].type = type /\ request'[p].CNT = n
    BY <1>1, <1>2, <1>3 DEF RestTypes
  <2>5. BlockedOK'
    BY <1>2, <1>3, <2>2, <2>4, DoingFacts, ProcFacts DEF BlockedOK, fsLoc, ttyLoc
  <2>6. KeysSeen'
    BY <1>2, <2>2, ProcFacts DEF IInv, KeysSeen, keys, ttyLoc
  <2>7. ~Waits(p)
    BY <1>2 DEF Waits
  <2>8. /\ st[p] # SendTo(TASK_FS) /\ st[TASK_FS] # SendTo(p)
        /\ ~InFs(p) /\ ~InTty(p) /\ ~Suspended(p)
        /\ fsPc \in {"tty", "reply"} => fsSrc # p
        /\ \A q \in User : Waits(q) => q # p
    BY <1>3, <2>7, NothingUnderWay
  <2>9. Waits(p)' /\ \A q \in User \ {p} : Waits(q)' = Waits(q)
    BY <2>2, <2>4, ProcFacts DEF Waits, RV!Running
  <2>10. RequestsOK'
    BY <1>2, <1>3, <2>2, <2>3, <2>4, <2>8, DoingFacts, ProcFacts
       DEF Traffic, RequestsOK, Asks, Concerns, Answers
  <2>11. \A q \in User \ {p} : \A x :
           /\ Asks(x, q)' = Asks(x, q) /\ AsksTty(x, q)' = AsksTty(x, q)
           /\ TtySays(x, q)' = TtySays(x, q) /\ Resumes(x, q)' = Resumes(x, q)
    BY <2>4, SameMeaning
  <2>12. Asks(m, p)'
    BY <2>3, <2>4 DEF Asks, Concerns
  <2>13. UNCHANGED <<fsPc, fsSrc, fsLen, ttyPc>>
    BY <1>2 DEF fsLoc, ttyLoc
  <2>14. st'[TASK_TTY] = st[TASK_TTY] /\ box'[TASK_TTY] = box[TASK_TTY]
    BY <2>2, ProcFacts
  <2>15. FsOK'
    <3>1. FsOK /\ BlockedOK
      BY <1>3 DEF Traffic
    <3>2. CASE st[TASK_FS] = RecvOf(ANY)
      <4>1. fsPc = "dispatch" /\ st'[TASK_FS] = Run /\ box'[TASK_FS] = m
        BY <2>2, <3>1, <3>2, DoingFacts, ProcFacts DEF BlockedOK
      <4>2. (\E q \in User : Waits(q) /\ (Asks(box[TASK_FS], q) \/ Resumes(box[TASK_FS], q)))'
        BY <2>9, <2>12, <4>1
      <4> QED
        BY <2>13, <4>1, <4>2, DoingFacts DEF FsOK
    <3>3. CASE st[TASK_FS] # RecvOf(ANY)
      <4>1. st'[TASK_FS] = st[TASK_FS] /\ box'[TASK_FS] = box[TASK_FS]
        BY <2>2, <3>3
      <4>2. fsPc = "dispatch" /\ st[TASK_FS] = Run =>
              \E q \in User \ {p} : Waits(q) /\ (Asks(box[TASK_FS], q) \/ Resumes(box[TASK_FS], q))
        BY <2>8, <3>1 DEF FsOK
      <4>3. fsPc \in {"tty", "reply"} =>
              fsSrc \in User \ {p} /\ Waits(fsSrc) /\ fsLen = request[fsSrc].CNT
        BY <2>8, <3>1 DEF FsOK
      <4>4. st[TASK_FS] \in {SendTo(TASK_TTY), RecvOf(TASK_TTY)} => fsPc \in {"tty", "reply"}
        BY <3>1, DoingFacts, ProcFacts DEF BlockedOK
      <4>5. fsPc \in {"tty", "reply"} => (TtyAsked => TtyAsked') /\ (TtyAnswers => TtyAnswers')
        BY <2>11, <2>13, <2>14, <4>3 DEF TtyAsked, TtyAnswers
      <4> QED
        BY <2>4, <2>9, <2>11, <2>13, <2>14, <3>1, <3>3, <4>1, <4>2, <4>3, <4>4, <4>5 DEF FsOK
    <3> QED
      BY <3>2, <3>3
  <2>16. TtyOK'
    <3>1. TtyOK /\ FsOK /\ BlockedOK
      BY <1>3 DEF Traffic
    <3>20. st[TASK_FS] = RecvOf(ANY) => fsPc = "dispatch" /\ st'[TASK_FS] = Run
      BY <2>2, <3>1, DoingFacts, ProcFacts DEF BlockedOK
    <3>21. st[TASK_FS] # RecvOf(ANY) => st'[TASK_FS] = st[TASK_FS]
      BY <2>2
    <3>22. ANY # TASK_TTY
      BY ProcFacts
    <3>2. FsAwaits' <=> FsAwaits
      BY <2>13, <3>20, <3>21, <3>22, DoingFacts DEF FsAwaits
    <3>3. FsAwaits => fsSrc \in User \ {p} /\ fsPc \in {"tty", "reply"}
      BY <2>8, <3>1, Places DEF FsOK
    <3>4. fsPc = "tty" /\ st[TASK_FS] = Run <=> fsPc' = "tty" /\ st'[TASK_FS] = Run
      BY <2>13, <3>20, <3>21
    <3>5. st[TASK_FS] = SendTo(TASK_TTY) <=> st'[TASK_FS] = SendTo(TASK_TTY)
      BY <2>2, DoingFacts
    <3>6. (\E q \in User : Waits(q) /\ Resumes(box[TASK_TTY], q))
            => (\E q \in User : Waits(q) /\ Resumes(box[TASK_TTY], q))'
      <4> SUFFICES ASSUME NEW q \in User, Waits(q), Resumes(box[TASK_TTY], q)
                   PROVE  (Waits(q) /\ Resumes(box[TASK_TTY], q))'
        OBVIOUS
      <4> QED
        BY <2>8, <2>9, <2>11, <2>14
    <3>7. \A t \in Tty : tty_left_cnt[t] > 0 => tty_procnr[t] # p
      BY <2>8, <3>1 DEF TtyOK, ReadsOK, Suspended
    <3> QED
      BY <1>2, <2>4, <2>11, <2>13, <2>14, <3>1, <3>2, <3>3, <3>4, <3>5, <3>6, <3>7
         DEF TtyOK, ReadsOK, FsAwaits, IsHardInt, reads
  <2>17. ASSUME NEW q \in User PROVE OnePlace(q)'
    <3>1. OnePlace(q) /\ FsOK
      BY <1>3 DEF Traffic
    <3>2. CASE q = p
      BY <1>2, <1>3, <2>2, <2>3, <2>8, <2>9, <2>13, <2>14, <3>2, DoingFacts, ProcFacts
         DEF OnePlace, InFs, InTty, Suspended, About, reads, BlockedOK
    <3>3. CASE q # p
      BY <1>2, <1>3, <2>2, <2>3, <2>8, <2>9, <2>13, <2>14, <3>1, <3>3, DoingFacts, ProcFacts
         DEF OnePlace, InFs, InTty, Suspended, About, reads, BlockedOK
    <3> QED
      BY <3>2, <3>3
  <2> QED
    BY <1>5, <1>6, <2>5, <2>6, <2>10, <2>15, <2>16, <2>17, Assembled DEF Traffic
<1> QED
  BY <1>7, <1>8

\* Nobody's request changes: messages mean what they meant, to everybody.
LEMMA SameMeanings ==
  ASSUME UNCHANGED request
  PROVE  \A q, x : /\ Asks(x, q)' = Asks(x, q) /\ AsksTty(x, q)' = AsksTty(x, q)
                   /\ TtySays(x, q)' = TtySays(x, q)
                   /\ Resumes(x, q)' = Resumes(x, q) /\ Answers(x, q)' = Answers(x, q)
BY SameMeaning

LEMMA AwaitingIInv ==
  ASSUME IInv, NEW p \in User, Awaiting(p)
  PROVE  IInv'
<1>1. RV!Receive(p, TASK_FS)
  BY DEF Awaiting
<1>2. /\ ~stopped /\ st[p] = Run /\ pc[p] = "sent" /\ pc' = [pc EXCEPT ![p] = "answer"]
      /\ UNCHANGED <<keys, reads, ttyLoc, fsLoc, request>>
  BY RunsFacts, ProcFacts DEF IInv, Awaiting
<1>3. IpcTypes /\ RestTypes /\ BlockedOK /\ Traffic
  BY <1>2, Typed, TypesApart DEF IInv
<1>4. IpcTypes'
  BY <1>1, <1>3, ReceiveKeepsTypes, ProcFacts
<1>5. RestTypes'
  BY <1>2, <1>3 DEF RestTypes, keys, reads, ttyLoc, fsLoc
<1>6. Takes(p, TASK_FS) \/ (Sleeps(p, TASK_FS) /\ st[TASK_FS] # SendTo(p))
  BY <1>1, <1>3, HearFs
<1>7. p \in Proc /\ p # TASK_FS /\ p # TASK_TTY /\ TASK_FS # TASK_TTY
  BY ProcFacts
<1>8. /\ st'[p] = IF st[TASK_FS] = SendTo(p) THEN Run ELSE RecvOf(TASK_FS)
      /\ st'[TASK_FS] = IF st[TASK_FS] = SendTo(p) THEN Run ELSE st[TASK_FS]
      /\ \A q \in Proc \ {p, TASK_FS} : st'[q] = st[q]
      /\ \A q \in Proc \ {p} : box'[q] = box[q]
      /\ st[TASK_FS] = SendTo(p) => box'[p] = box[TASK_FS]
      /\ UNCHANGED <<pend, stopped>>
  BY <1>2, <1>3, <1>6, <1>7, ProcFacts DEF IpcTypes, Takes, Sleeps
<1>9. /\ pc'[p] = "answer" /\ \A q \in User \ {p} : pc'[q] = pc[q]
      /\ UNCHANGED <<fsPc, fsSrc, fsLen, ttyPc, tty, request>>
  BY <1>2, <1>3 DEF RestTypes, fsLoc, ttyLoc
<1>10. /\ st'[TASK_TTY] = st[TASK_TTY]
       /\ box'[TASK_TTY] = box[TASK_TTY] /\ box'[TASK_FS] = box[TASK_FS]
  BY <1>7, <1>8, ProcFacts
<1>11. st[TASK_FS] = SendTo(p) => fsPc = "loop"
  BY <1>3, Places
<1>12. BlockedOK'
  BY <1>2, <1>3, <1>7, <1>8, <1>9, DoingFacts, ProcFacts DEF BlockedOK
<1>13. KeysSeen'
  BY <1>2, <1>8, <1>10 DEF IInv, KeysSeen, keys, ttyLoc
<1>14. /\ Waits(p) /\ Waits(p)' = (st[TASK_FS] # SendTo(p))
       /\ \A q \in User \ {p} : Waits(q)' = Waits(q)
  BY <1>2, <1>7, <1>8, <1>9, DoingFacts, ProcFacts DEF Waits, RV!Running
<1>16. \A q, x : /\ Asks(x, q)' = Asks(x, q) /\ AsksTty(x, q)' = AsksTty(x, q)
                 /\ TtySays(x, q)' = TtySays(x, q)
                 /\ Resumes(x, q)' = Resumes(x, q) /\ Answers(x, q)' = Answers(x, q)
  BY <1>9, SameMeanings
\* p had its request with FS alone, if FS answers it now.
<1>17. st[TASK_FS] = SendTo(p) =>
         st[p] # SendTo(TASK_FS) /\ ~InTty(p) /\ ~Suspended(p) /\ InFs(p)
  BY <1>3 DEF Traffic, OnePlace, InFs
<1>18. RequestsOK'
  BY <1>2, <1>3, <1>7, <1>8, <1>9, <1>16, <1>17, DoingFacts, ProcFacts DEF Traffic, RequestsOK
<1>19. st[TASK_FS] = SendTo(p) => \A x \in {"dispatch", "tty", "reply"} : fsPc # x
  BY <1>11
<1>20. FsOK'
  <2>1. FsOK
    BY <1>3 DEF Traffic
  <2>2. CASE st[TASK_FS] = SendTo(p)
    BY <1>8, <1>9, <1>19, <2>2, DoingFacts DEF FsOK
  <2>3. CASE st[TASK_FS] # SendTo(p)
    <3>1. \A q \in User : Waits(q)' = Waits(q)
      BY <1>14, <2>3
    <3>2. st'[TASK_FS] = st[TASK_FS]
      BY <1>8, <2>3
    <3>3. \A q \in Proc : st[q] # SendTo(TASK_FS) => st'[q] # SendTo(TASK_FS)
      BY <1>8, <2>3, DoingFacts, ProcFacts
    <3>4. (TtyAsked' <=> TtyAsked) /\ (TtyAnswers' <=> TtyAnswers)
      BY <1>9, <1>10, <1>16 DEF TtyAsked, TtyAnswers
    <3> QED
      BY <1>9, <1>10, <1>16, <2>1, <3>1, <3>2, <3>3, <3>4 DEF FsOK
  <2> QED
    BY <2>2, <2>3
<1>21. TtyOK'
  <2>1. TtyOK
    BY <1>3 DEF Traffic
  <2>2. FsAwaits' <=> FsAwaits
    BY <1>8, <1>9, <1>19, DoingFacts DEF FsAwaits
  <2>3. fsPc = "tty" /\ st[TASK_FS] = Run => fsPc' = "tty" /\ st'[TASK_FS] = Run
    BY <1>8, <1>9
  <2>4. st[TASK_FS] # SendTo(TASK_TTY) => st'[TASK_FS] # SendTo(TASK_TTY)
    BY <1>8, DoingFacts
  <2>6. \A q \in User : Waits(q) /\ Resumes(box[TASK_TTY], q) /\ st[TASK_TTY] = SendTo(TASK_FS)
                          => Waits(q)'
    BY <1>14, <1>17, TypeFacts, ProcFacts DEF InTty, Resumes, About
  <2> QED
    BY <1>2, <1>9, <1>10, <1>16, <2>1, <2>2, <2>3, <2>4, <2>6 DEF TtyOK, ReadsOK, IsHardInt, reads
<1>22. ASSUME NEW q \in User PROVE OnePlace(q)'
  <2>1. OnePlace(q)
    BY <1>3 DEF Traffic
  <2>2. q \in Proc /\ q # TASK_FS
    BY ProcFacts
  <2>3. InTty(q)' <=> InTty(q)
    BY <1>9, <1>10 DEF InTty, About
  <2>4. Suspended(q)' <=> Suspended(q)
    BY <1>2 DEF Suspended, reads
  <2>5. st'[q] = SendTo(TASK_FS) <=> st[q] = SendTo(TASK_FS)
    BY <1>2, <1>8, <2>2, DoingFacts
  <2>6. CASE st[TASK_FS] = SendTo(p)
    <3>1. ~InFs(q)'
      BY <1>8, <1>9, <1>19, <2>6, DoingFacts DEF InFs
    <3>2. q # p => ~InFs(q)
      BY <1>11, <2>6, DoingFacts, ProcFacts DEF InFs
    <3> QED
      BY <1>14, <1>17, <2>1, <2>3, <2>4, <2>5, <2>6, <3>1, <3>2 DEF OnePlace
  <2>7. CASE st[TASK_FS] # SendTo(p)
    <3>1. InFs(q)' <=> InFs(q)
      BY <1>8, <1>9, <1>10, <2>7 DEF InFs, About
    <3> QED
      BY <1>14, <2>1, <2>3, <2>4, <2>5, <2>7, <3>1 DEF OnePlace
  <2> QED
    BY <2>6, <2>7
<1> QED
  BY <1>4, <1>5, <1>12, <1>13, <1>18, <1>20, <1>21, <1>22, Assembled DEF Traffic

LEMMA ReturningIInv ==
  ASSUME IInv, NEW p \in User, Returning(p)
  PROVE  IInv'
<1>1. /\ ~stopped /\ st[p] = Run /\ pc[p] = "answer" /\ pc' = [pc EXCEPT ![p] = "program"]
      /\ request' = [request EXCEPT ![p] = Nothing]
      /\ UNCHANGED <<ipc, keys, reads, ttyLoc, fsLoc>>
  BY RunsFacts, ProcFacts DEF IInv, Returning
<1>2. IpcTypes /\ RestTypes /\ BlockedOK /\ Traffic
  BY <1>1, Typed, TypesApart DEF IInv
<1>3. /\ UNCHANGED <<st, box, pend, stopped, kb_in, key_pressed, ibuf, current>>
      /\ UNCHANGED <<tty_procnr, tty_left_cnt, tty_trans_cnt, ttyPc, tty, fsPc, fsSrc, fsLen>>
  BY <1>1 DEF ipc, keys, reads, ttyLoc, fsLoc
<1>4. /\ pc'[p] = "program" /\ request'[p] = Nothing
      /\ \A q \in User \ {p} : pc'[q] = pc[q] /\ request'[q] = request[q]
  BY <1>1, <1>2 DEF RestTypes
<1>5. IpcTypes' /\ KeysSeen'
  BY <1>2, <1>3 DEF IInv, IpcTypes, KeysSeen
<1>6. RestTypes'
  BY <1>1, <1>2, <1>3 DEF RestTypes
<1>7. BlockedOK'
  BY <1>1, <1>2, <1>3, <1>4, DoingFacts DEF BlockedOK
<1>8. ~Waits(p)
  BY <1>1, DoingFacts DEF Waits, RV!Running
<1>9. /\ st[p] # SendTo(TASK_FS) /\ st[TASK_FS] # SendTo(p)
      /\ ~InFs(p) /\ ~InTty(p) /\ ~Suspended(p)
      /\ fsPc \in {"tty", "reply"} => fsSrc # p
      /\ \A q \in User : Waits(q) => q # p
  BY <1>2, <1>8, NothingUnderWay
<1>10. \A q \in User : Waits(q)' = Waits(q)
  BY <1>1, <1>3, <1>4, <1>8 DEF Waits, RV!Running
<1>11. \A q \in User \ {p} : \A x :
         /\ Asks(x, q)' = Asks(x, q) /\ AsksTty(x, q)' = AsksTty(x, q)
         /\ TtySays(x, q)' = TtySays(x, q)
         /\ Resumes(x, q)' = Resumes(x, q) /\ Answers(x, q)' = Answers(x, q)
  BY <1>4, SameMeaning
<1>12. RequestsOK'
  BY <1>2, <1>3, <1>4, <1>9, <1>11 DEF Traffic, RequestsOK
<1>13. (\E q \in User : Waits(q) /\ (Asks(box[TASK_FS], q) \/ Resumes(box[TASK_FS], q)))
         => (\E q \in User : Waits(q) /\ (Asks(box[TASK_FS], q) \/ Resumes(box[TASK_FS], q)))'
  <2> SUFFICES ASSUME NEW q \in User, Waits(q), Asks(box[TASK_FS], q) \/ Resumes(box[TASK_FS], q)
               PROVE  (Waits(q) /\ (Asks(box[TASK_FS], q) \/ Resumes(box[TASK_FS], q)))'
    OBVIOUS
  <2> QED
    BY <1>3, <1>9, <1>10, <1>11
<1>14. (\E q \in User : Waits(q) /\ Resumes(box[TASK_TTY], q))
         => (\E q \in User : Waits(q) /\ Resumes(box[TASK_TTY], q))'
  <2> SUFFICES ASSUME NEW q \in User, Waits(q), Resumes(box[TASK_TTY], q)
               PROVE  (Waits(q) /\ Resumes(box[TASK_TTY], q))'
    OBVIOUS
  <2> QED
    BY <1>3, <1>9, <1>10, <1>11
<1>15. FsOK /\ TtyOK
  BY <1>2 DEF Traffic
<1>16. fsPc \in {"tty", "reply"} => fsSrc \in User \ {p}
  BY <1>9, <1>15 DEF FsOK
<1>17. /\ FsAwaits => fsPc \in {"tty", "reply"}
       /\ st[TASK_FS] \in {SendTo(TASK_TTY), RecvOf(TASK_TTY)} => fsPc \in {"tty", "reply"}
  BY <1>2, Places
<1>18. /\ FsAwaits' <=> FsAwaits
       /\ fsPc \in {"tty", "reply"} => (TtyAsked' <=> TtyAsked) /\ (TtyAnswers' <=> TtyAnswers)
  BY <1>3, <1>11, <1>16 DEF FsAwaits, TtyAsked, TtyAnswers
<1>19. FsOK'
  BY <1>3, <1>4, <1>10, <1>11, <1>13, <1>15, <1>16, <1>17, <1>18 DEF FsOK
<1>20. \A t \in Tty : tty_left_cnt[t] > 0 => tty_procnr[t] # p
  BY <1>9, <1>15 DEF TtyOK, ReadsOK, Suspended
<1>21. TtyOK'
  BY <1>3, <1>4, <1>10, <1>11, <1>14, <1>15, <1>16, <1>17, <1>18, <1>20 DEF TtyOK, ReadsOK, IsHardInt
<1>22. ASSUME NEW q \in User PROVE OnePlace(q)'
  BY <1>2, <1>3, <1>10 DEF Traffic, OnePlace, InFs, InTty, Suspended, About
<1> QED
  BY <1>5, <1>6, <1>7, <1>12, <1>19, <1>21, <1>22, Assembled DEF Traffic

\* FS's and TTY's own steps leave the users' code alone.
LEMMA UsersUnaware ==
  ASSUME IInv, ~stopped, UNCHANGED users
  PROVE  /\ IpcTypes /\ RestTypes /\ BlockedOK /\ Traffic
         /\ RequestsOK /\ FsOK /\ TtyOK /\ \A q \in User : OnePlace(q)
         /\ KeysSeen /\ UNCHANGED <<pc, request>>
         /\ \A q, x : /\ Asks(x, q)' = Asks(x, q) /\ AsksTty(x, q)' = AsksTty(x, q)
                      /\ TtySays(x, q)' = TtySays(x, q)
                      /\ Resumes(x, q)' = Resumes(x, q) /\ Answers(x, q)' = Answers(x, q)
BY Typed, TypesApart, SameMeanings DEF IInv, Traffic, users

\* Whom a message is about.
LEMMA AboutFacts ==
  ASSUME NEW p \in User, NEW x
  PROVE  /\ \A q \in User : Asks(x, p) => (About(x, q) <=> q = p)
         /\ \A q \in User : AsksTty(x, p) => (About(x, q) <=> q = p)
         /\ \A q \in User : TtySays(x, p) => (About(x, q) <=> q = p)
         /\ \A q \in User : Resumes(x, p) => (About(x, q) <=> q = p)
         /\ Asks(x, p) /\ request[p].type \in {READ, WRITE} => x.type # RESUME_PROC
         /\ Resumes(x, p) => x.type = RESUME_PROC /\ x.type # SUSPEND_PROC
BY ProcFacts, TypeFacts DEF Asks, AsksTty, TtySays, Resumes, About

LEMMA FsReceivesIInv ==
  ASSUME IInv, FsReceives
  PROVE  IInv'
<1>1. RV!Receive(TASK_FS, ANY) /\ fsPc = "loop" /\ fsPc' = "dispatch"
  BY DEF FsReceives
<1>2. /\ ~stopped /\ st[TASK_FS] = Run
      /\ UNCHANGED <<keys, reads, ttyLoc, fsSrc, fsLen, users>>
  BY RunsFacts, ProcFacts DEF IInv, FsReceives
<1>3. /\ IpcTypes /\ RestTypes /\ BlockedOK /\ Traffic
      /\ RequestsOK /\ FsOK /\ TtyOK /\ \A q \in User : OnePlace(q)
      /\ KeysSeen /\ UNCHANGED <<pc, request>>
  BY <1>2, UsersUnaware
<1>4. \A q, x : /\ Asks(x, q)' = Asks(x, q) /\ AsksTty(x, q)' = AsksTty(x, q)
                /\ TtySays(x, q)' = TtySays(x, q)
                /\ Resumes(x, q)' = Resumes(x, q) /\ Answers(x, q)' = Answers(x, q)
  BY <1>2, UsersUnaware
<1>5. IpcTypes' /\ RestTypes'
  BY <1>1, <1>2, <1>3, ReceiveKeepsTypes, ProcFacts DEF RestTypes, keys, reads, ttyLoc
<1>6. UNCHANGED <<ttyPc, tty, kb_in, key_pressed, current, tty_procnr, tty_left_cnt, tty_trans_cnt>>
  BY <1>2 DEF keys, ttyLoc, reads
<1>7. TASK_TTY \in Proc \ {TASK_FS} /\ User \subseteq Proc \ {TASK_FS, TASK_TTY}
  BY ProcFacts
<1>8. ~FsAwaits /\ fsPc' \notin {"tty", "reply", "loop"}
  BY <1>1, <1>2, DoingFacts DEF FsAwaits
<1>9. ASSUME NEW s \in User \cup {TASK_TTY}, Takes(TASK_FS, s)
      PROVE  IInv'
  <2>1. /\ st[s] = SendTo(TASK_FS) /\ st'[s] = Run
        /\ \A q \in Proc \ {s} : st'[q] = st[q]
        /\ box'[TASK_FS] = box[s] /\ \A q \in Proc \ {TASK_FS} : box'[q] = box[q]
        /\ UNCHANGED <<pend, stopped>>
    BY <1>3, <1>7, <1>9, ProcFacts DEF IpcTypes, Takes
  <2>2. st'[TASK_FS] = Run /\ s # TASK_FS
    BY <1>2, <2>1, ProcFacts
  <2>3. \A q \in User : Waits(q)' = Waits(q)
    BY <1>3, <1>7, <2>1, Places, DoingFacts DEF Waits, RV!Running
  <2>4. PICK p \in User : /\ Waits(p) /\ (Asks(box[s], p) \/ Resumes(box[s], p))
                          /\ s \in User => s = p
                          /\ s = TASK_TTY => Resumes(box[s], p) /\ InTty(p)
    <3>1. CASE s \in User
      BY <1>3, <2>1, <3>1, ProcFacts DEF RequestsOK, OnePlace
    <3>2. CASE s = TASK_TTY
      <4>1. PICK p \in User : Waits(p) /\ Resumes(box[s], p)
        BY <1>1, <1>3, <2>1, <3>2, ProcFacts DEF TtyOK, ReadsOK
      <4>2. InTty(p)
        BY <2>1, <3>2, <4>1, AboutFacts DEF InTty
      <4> QED
        BY <3>2, <4>1, <4>2, ProcFacts
    <3> QED
      BY <3>1, <3>2
  <2>5. BlockedOK'
    BY <1>1, <1>3, <1>6, <1>7, <2>1, <2>2 DEF BlockedOK
  <2>6. KeysSeen'
    <3>1. ttyPc = "dispatch" /\ st[TASK_TTY] = Run => st'[TASK_TTY] = Run
      BY <1>7, <2>1
    <3> QED
      BY <1>3, <1>6, <2>1, <3>1 DEF KeysSeen
  <2>7. RequestsOK'
    <3>1. s \in User => pc[s] = "sent"
      BY <1>3, <2>1, Places
    <3> QED
      BY <1>3, <1>4, <1>7, <2>1, <2>2, <3>1, DoingFacts DEF RequestsOK
  <2>8. FsOK'
    <3>1. (\E q \in User : Waits(q) /\ (Asks(box[TASK_FS], q) \/ Resumes(box[TASK_FS], q)))'
      BY <1>4, <2>1, <2>3, <2>4, Zenon
    <3> QED
      BY <1>1, <1>8, <2>2, <3>1, DoingFacts DEF FsOK
  <2>9. ~FsAwaits' /\ st'[TASK_FS] # SendTo(TASK_TTY)
    BY <1>1, <2>2, DoingFacts DEF FsAwaits
  <2>10. (\E q \in User : Waits(q) /\ Resumes(box[TASK_TTY], q))
           => (\E q \in User : Waits(q) /\ Resumes(box[TASK_TTY], q))'
    BY <1>4, <1>7, <2>1, <2>3
  <2>11. ttyPc = "dispatch" => s # TASK_TTY
    BY <1>3, <2>1, Places
  <2>12. /\ st'[TASK_TTY] = SendTo(TASK_FS) => st[TASK_TTY] = SendTo(TASK_FS)
         /\ st'[TASK_TTY] = RecvOf(ANY) => st[TASK_TTY] = RecvOf(ANY)
         /\ ttyPc = "dispatch" /\ st'[TASK_TTY] = Run => st[TASK_TTY] = Run
         /\ box'[TASK_TTY] = box[TASK_TTY]
    BY <1>7, <2>1, <2>11, DoingFacts
  <2>13. TtyOK'
    BY <1>1, <1>3, <1>4, <1>6, <1>8, <2>9, <2>10, <2>12 DEF TtyOK, ReadsOK, IsHardInt
  <2>14. ASSUME NEW q \in User PROVE OnePlace(q)'
    <3>1. OnePlace(q) /\ OnePlace(p) /\ q \in Proc /\ q # TASK_FS /\ q # TASK_TTY
      BY <1>3, <1>7
    <3>2. InFs(q)' <=> q = p
      BY <1>1, <1>7, <1>8, <2>1, <2>2, <2>4, AboutFacts, DoingFacts DEF InFs, About
    <3>3. Suspended(q)' <=> Suspended(q)
      BY <1>6 DEF Suspended
    <3>4. CASE s = TASK_TTY
      <4>1. InTty(q) <=> q = p
        BY <1>3, <2>1, <2>4, <3>4, AboutFacts, DoingFacts, Places DEF InTty
      <4>2. ~InTty(q)'
        BY <1>6, <2>1, <2>11, <3>4, DoingFacts DEF InTty
      <4>3. st'[q] = st[q] /\ ~InFs(q)
        BY <1>1, <1>2, <2>1, <3>1, <3>4, DoingFacts DEF InFs
      <4> QED
        BY <2>3, <3>1, <3>2, <3>3, <4>1, <4>2, <4>3 DEF OnePlace
    <3>5. CASE s \in User
      <4>1. s = p
        BY <2>4, <3>5
      <4>2. InTty(q)' <=> InTty(q)
        BY <1>6, <1>7, <2>1, <3>5 DEF InTty, About
      <4>3. ~InFs(q)
        BY <1>1, <1>2, <3>1, DoingFacts DEF InFs
      <4>4. st'[q] = SendTo(TASK_FS) <=> st[q] = SendTo(TASK_FS) /\ q # p
        BY <2>1, <3>1, <4>1, DoingFacts
      <4> QED
        BY <2>1, <2>3, <3>1, <3>2, <3>3, <4>1, <4>2, <4>3, <4>4 DEF OnePlace
    <3> QED
      BY <3>4, <3>5
  <2> QED
    BY <1>5, <2>5, <2>6, <2>7, <2>8, <2>13, <2>14, Assembled DEF Traffic
<1>10. ASSUME Sleeps(TASK_FS, ANY), \A s \in Proc : st[s] # SendTo(TASK_FS)
       PROVE  IInv'
  <2>1. /\ st'[TASK_FS] = RecvOf(ANY) /\ \A q \in Proc \ {TASK_FS} : st'[q] = st[q]
        /\ \A q \in Proc \ {TASK_FS} : box'[q] = box[q]
        /\ UNCHANGED <<pend, stopped>>
    BY <1>3, <1>10, ProcFacts DEF IpcTypes, Sleeps
  <2>2. \A q \in User : Waits(q)' = Waits(q)
    BY <1>3, <1>7, <2>1 DEF Waits, RV!Running
  <2>3. /\ st'[TASK_TTY] = st[TASK_TTY] /\ box'[TASK_TTY] = box[TASK_TTY]
        /\ \A q \in User : st'[q] = st[q] /\ box'[q] = box[q]
    BY <1>7, <2>1
  <2>4. BlockedOK'
    BY <1>1, <1>3, <1>6, <1>7, <2>1 DEF BlockedOK
  <2>5. KeysSeen'
    BY <1>3, <1>6, <2>1, <2>3 DEF KeysSeen
  <2>6. RequestsOK'
    BY <1>3, <1>4, <2>1, <2>3, DoingFacts DEF RequestsOK
  <2>7. \A q \in Proc : st'[q] # SendTo(TASK_FS)
    BY <1>10, <2>1, DoingFacts
  <2>8. RecvOf(ANY) # RecvOf(TASK_TTY)
    BY DoingFacts, ProcFacts
  <2>9. FsOK'
    BY <1>1, <1>8, <2>1, <2>7, <2>8, DoingFacts DEF FsOK
  <2>10. TtyOK'
    BY <1>3, <1>4, <1>6, <1>7, <1>8, <1>10, <2>1, <2>3, <2>8, DoingFacts, ProcFacts
       DEF TtyOK, ReadsOK, IsHardInt
  <2>11. ASSUME NEW q \in User PROVE OnePlace(q)'
    BY <1>1, <1>2, <1>3, <1>6, <2>1, <2>2, <2>3, DoingFacts
       DEF OnePlace, InFs, InTty, Suspended, About
  <2> QED
    BY <1>5, <2>4, <2>5, <2>6, <2>9, <2>10, <2>11, Assembled DEF Traffic
<1> QED
  BY <1>1, <1>3, <1>9, <1>10, HearAny

\* FS answers the process whose request, or whose resumption, it has.
LEMMA AnswerIInv ==
  ASSUME IInv, ~stopped, st[TASK_FS] = Run, UNCHANGED <<keys, reads, ttyLoc, fsSrc, fsLen, users>>,
         NEW p \in User, Waits(p), InFs(p), fsPc \in {"dispatch", "reply"}, fsPc' = "loop",
         NEW n \in Messages, Answers(n, p), RV!Send(TASK_FS, p, n)
  PROVE  IInv'
<1>1. /\ ~stopped /\ st[TASK_FS] = Run /\ fsPc' = "loop" /\ UNCHANGED <<fsSrc, fsLen>>
      /\ UNCHANGED <<keys, reads, ttyLoc, users>>
  OBVIOUS
<1>2. /\ IpcTypes /\ RestTypes /\ BlockedOK /\ Traffic
      /\ RequestsOK /\ FsOK /\ TtyOK /\ \A q \in User : OnePlace(q)
      /\ KeysSeen /\ UNCHANGED <<pc, request>>
  BY <1>1, UsersUnaware
<1>3. \A q, x : /\ Asks(x, q)' = Asks(x, q) /\ AsksTty(x, q)' = AsksTty(x, q)
                /\ TtySays(x, q)' = TtySays(x, q)
                /\ Resumes(x, q)' = Resumes(x, q) /\ Answers(x, q)' = Answers(x, q)
  BY <1>1, UsersUnaware
<1>4. UNCHANGED <<ttyPc, tty, kb_in, key_pressed, ibuf, current, tty_procnr, tty_left_cnt, tty_trans_cnt>>
  BY <1>1 DEF keys, ttyLoc, reads
<1>5. TASK_TTY \in Proc \ {TASK_FS} /\ User \subseteq Proc \ {TASK_FS, TASK_TTY} /\ TASK_FS \in Proc
  BY ProcFacts
<1>6. fsPc \in {"dispatch", "reply"} /\ ~FsAwaits
  BY <1>1, DoingFacts DEF FsAwaits
<1>7. OnePlace(p) /\ Waits(p) /\ InFs(p)
  BY <1>2
<1>8. \A q \in User : InFs(q) => q = p
  <2>1. CASE fsPc = "dispatch"
    <3>1. PICK r \in User : Asks(box[TASK_FS], r) \/ Resumes(box[TASK_FS], r)
      BY <1>1, <1>2, <2>1 DEF FsOK
    <3>2. \A q \in User : InFs(q) => q = r
      BY <1>1, <2>1, <3>1, AboutFacts, DoingFacts DEF InFs
    <3> QED
      BY <1>7, <3>2
  <2>2. CASE fsPc = "reply"
    BY <1>1, <1>7, <2>2, DoingFacts DEF InFs
  <2> QED
    BY <1>6, <2>1, <2>2
<1>9. st[p] # SendTo(TASK_FS) /\ ~InTty(p) /\ ~Suspended(p)
  BY <1>7 DEF OnePlace
<1>10. pc[p] # "program"
  BY <1>7 DEF Waits
<1>11. IpcTypes' /\ RestTypes'
  BY <1>1, <1>2, <1>5, SendKeepsTypes, ProcFacts DEF RestTypes, keys, reads, ttyLoc
<1>12. CASE Panics
  BY <1>1, <1>2, <1>4, <1>11, <1>12, PanicIInv DEF ttyLoc
<1>13. CASE ~Panics
  <2>1. \/ Delivers(TASK_FS, p, n) /\ st[p] = RecvOf(TASK_FS)
        \/ Parks(TASK_FS, p, n) /\ st[p] # RecvOf(TASK_FS)
    BY <1>2, <1>13, AnswerUser
  <2>2. st[p] \in {Run, RecvOf(TASK_FS)}
    BY <1>2, <1>9, Blocking
  <2>3. /\ st'[p] = Run
        /\ st'[TASK_FS] = IF st[p] = Run THEN SendTo(p) ELSE Run
        /\ \A q \in Proc \ {p, TASK_FS} : st'[q] = st[q] /\ box'[q] = box[q]
        /\ box'[TASK_FS] = n
        /\ st[p] # Run => box'[p] = n
        /\ UNCHANGED <<pend, stopped>>
    BY <1>1, <1>2, <1>5, <2>1, <2>2, DoingFacts, ProcFacts DEF IpcTypes, Delivers, Parks
  <2>4. /\ st[p] = Run => pc[p] = "sent"
        /\ st[p] = RecvOf(TASK_FS) => pc[p] = "answer"
    BY <1>2, <1>7, Places, DoingFacts DEF Waits, RV!Running
  <2>5. /\ Waits(p)' <=> st[p] = Run
        /\ \A q \in User \ {p} : Waits(q)' = Waits(q)
    BY <1>2, <1>5, <2>2, <2>3, <2>4, DoingFacts DEF Waits, RV!Running
  <2>6. st'[TASK_TTY] = st[TASK_TTY] /\ box'[TASK_TTY] = box[TASK_TTY]
    BY <1>5, <2>3
  <2>7. BlockedOK'
    BY <1>2, <1>4, <1>5, <2>3, <2>4, <2>6 DEF BlockedOK
  <2>8. KeysSeen'
    BY <1>2, <1>4, <2>3, <2>6 DEF KeysSeen
  <2>9. RequestsOK'
    <3> SUFFICES ASSUME NEW q \in User
                 PROVE  (/\ pc[q] # "program" => request[q].type \in Does[q] /\ request[q].CNT \in Counts
                         /\ st[q] = SendTo(TASK_FS) => Asks(box[q], q)
                         /\ pc[q] = "answer" /\ st[q] = Run => Answers(box[q], q)
                         /\ st[TASK_FS] = SendTo(q) => Answers(box[TASK_FS], q))'
      BY DEF RequestsOK
    <3>1. CASE q = p
      BY <1>2, <1>3, <1>1, <2>2, <2>3, <2>4, <3>1, DoingFacts DEF RequestsOK
    <3>2. CASE q # p
      BY <1>1, <1>2, <1>3, <1>5, <2>3, <3>2, DoingFacts DEF RequestsOK
    <3> QED
      BY <3>1, <3>2
  <2>10. st'[TASK_FS] \notin {SendTo(TASK_TTY), RecvOf(TASK_TTY), RecvOf(ANY)} /\ ~FsAwaits'
    BY <1>5, <2>3, DoingFacts DEF FsAwaits
  <2>11. FsOK'
    BY <2>10 DEF FsOK
  <2>12. (\E q \in User : Waits(q) /\ Resumes(box[TASK_TTY], q)) /\ st[TASK_TTY] = SendTo(TASK_FS)
           => (\E q \in User : Waits(q) /\ Resumes(box[TASK_TTY], q))'
    <3> SUFFICES ASSUME NEW q \in User, Waits(q), Resumes(box[TASK_TTY], q), st[TASK_TTY] = SendTo(TASK_FS)
                 PROVE  (Waits(q) /\ Resumes(box[TASK_TTY], q))'
      OBVIOUS
    <3>1. InTty(q)
      BY AboutFacts DEF InTty
    <3> QED
      BY <1>3, <1>9, <2>5, <2>6, <3>1
  <2>13. TtyOK'
    BY <1>1, <1>2, <1>3, <1>4, <1>6, <2>6, <2>10, <2>12 DEF TtyOK, ReadsOK, IsHardInt
  <2>14. ASSUME NEW q \in User PROVE OnePlace(q)'
    <3>1. OnePlace(q) /\ q \in Proc /\ q # TASK_FS
      BY <1>2, <1>5
    <3>2. /\ InTty(q)' <=> InTty(q)
          /\ Suspended(q)' <=> Suspended(q)
      BY <1>4, <2>6 DEF InTty, About, Suspended
    <3>3. InFs(q)' <=> q = p /\ st[p] = Run
      BY <2>3, <2>10, DoingFacts DEF InFs
    <3>4. st'[q] = SendTo(TASK_FS) <=> st[q] = SendTo(TASK_FS)
      BY <1>5, <1>9, <2>3, <3>1, DoingFacts
    <3> QED
      BY <1>8, <1>9, <2>5, <3>1, <3>2, <3>3, <3>4 DEF OnePlace
  <2> QED
    BY <1>11, <2>7, <2>8, <2>9, <2>11, <2>13, <2>14, Assembled DEF Traffic
<1> QED
  BY <1>12, <1>13

LEMMA FsDispatchIInv ==
  ASSUME IInv, FsDispatch
  PROVE  IInv'
<1>1. /\ fsPc = "dispatch" /\ ~stopped /\ st[TASK_FS] = Run
      /\ UNCHANGED <<keys, reads, ttyLoc, users>>
  BY RunsFacts, ProcFacts DEF IInv, FsDispatch
<1>2. /\ IpcTypes /\ RestTypes /\ BlockedOK /\ Traffic
      /\ RequestsOK /\ FsOK /\ TtyOK /\ \A q \in User : OnePlace(q)
      /\ KeysSeen /\ UNCHANGED <<pc, request>>
  BY <1>1, UsersUnaware
<1>3. \A q, x : /\ Asks(x, q)' = Asks(x, q) /\ AsksTty(x, q)' = AsksTty(x, q)
                /\ TtySays(x, q)' = TtySays(x, q)
                /\ Resumes(x, q)' = Resumes(x, q) /\ Answers(x, q)' = Answers(x, q)
  BY <1>1, UsersUnaware
<1>4. UNCHANGED <<ttyPc, tty, kb_in, key_pressed, ibuf, current, tty_procnr, tty_left_cnt, tty_trans_cnt>>
  BY <1>1 DEF keys, ttyLoc, reads
<1>5. TASK_TTY \in Proc \ {TASK_FS} /\ User \subseteq Proc \ {TASK_FS, TASK_TTY} /\ TASK_FS \in Proc
  BY ProcFacts
<1>6. ~FsAwaits
  BY <1>1, DoingFacts DEF FsAwaits
<1> DEFINE m == box[TASK_FS]
<1>7. PICK p \in User : Waits(p) /\ (Asks(m, p) \/ Resumes(m, p))
  BY <1>1, <1>2 DEF FsOK
<1>8. m \in Messages
  BY <1>2, <1>5 DEF IpcTypes
<1>9. /\ request[p].type \in {READ, WRITE} /\ request[p].CNT \in Counts /\ request[p].CNT \in Nat
      /\ pc[p] # "program"
  BY <1>2, <1>7, TtyFacts DEF RequestsOK, Waits
<1>10. /\ InFs(p) /\ OnePlace(p) /\ About(m, p)
       /\ \A q \in User : q # p => ~InFs(q)
  BY <1>1, <1>2, <1>7, AboutFacts, DoingFacts DEF InFs
<1>11. st[p] # SendTo(TASK_FS) /\ ~InTty(p) /\ ~Suspended(p)
  BY <1>10 DEF OnePlace
<1>12. ASSUME Resumes(m, p)
       PROVE  IInv'
  <2> DEFINE n == [m EXCEPT !.source = TASK_FS, !.type = SYSCALL_RET]
  <2>1. /\ RV!Send(TASK_FS, p, n) /\ fsPc' = "loop" /\ UNCHANGED <<fsSrc, fsLen>>
    BY <1>12 DEF FsDispatch, Resumes
  <2>2. n \in Messages /\ Answers(n, p)
    <3>1. SYSCALL_RET \in MessageTypes /\ TASK_FS \in Proc \cup {INTERRUPT}
      BY <1>5 DEF MessageTypes
    <3>2. n \in Messages /\ n.source = TASK_FS /\ n.type = SYSCALL_RET /\ n.CNT = m.CNT
      BY <1>8, <3>1 DEF Messages, MessageTypes
    <3> QED
      BY <1>12, <3>2, TypeFacts DEF Resumes, Answers
  <2> HIDE DEF n
  <2> QED
    BY <1>1, <1>2, <1>7, <1>10, <2>1, <2>2, AnswerIInv
<1>13. ASSUME Asks(m, p)
       PROVE  IInv'
  <2> DEFINE n == [m EXCEPT !.source = TASK_FS, !.PROC_NR = m.source,
                            !.type = IF m.type = READ THEN DEV_READ ELSE DEV_WRITE]
  <2>1. m.type # RESUME_PROC /\ m.source = p /\ m.CNT = request[p].CNT /\ m.type = request[p].type
    BY <1>9, <1>13, AboutFacts DEF Asks, Concerns
  <2>2. RV!Send(TASK_FS, TASK_TTY, n) /\ fsSrc' = p /\ fsLen' = request[p].CNT /\ fsPc' = "tty"
    BY <2>1 DEF FsDispatch
  <2>3. n \in Messages /\ AsksTty(n, p)
    <3>1. /\ (IF m.type = READ THEN DEV_READ ELSE DEV_WRITE) \in MessageTypes
          /\ TASK_FS \in Proc \cup {INTERRUPT} /\ m.source \in Proc \cup {NO_TASK}
      BY <1>5, <2>1 DEF MessageTypes
    <3>2. /\ n \in Messages /\ n.source = TASK_FS /\ n.CNT = m.CNT /\ n.DEVICE = m.DEVICE
          /\ n.PROC_NR = m.source /\ n.type = IF m.type = READ THEN DEV_READ ELSE DEV_WRITE
      BY <1>8, <3>1 DEF Messages, MessageTypes
    <3> QED
      BY <1>13, <2>1, <3>2 DEF Asks, AsksTty, Concerns
  <2> HIDE DEF n
  <2>4. IpcTypes' /\ RestTypes'
    BY <1>1, <1>2, <1>4, <1>5, <1>9, <2>2, <2>3, SendKeepsTypes, ProcFacts DEF RestTypes
  <2>5. CASE Panics
    <3>1. /\ \A q \in User : pc'[q] = pc[q] /\ request'[q] = request[q]
          /\ UNCHANGED <<keys, reads, ttyLoc>>
      BY <1>1, <1>2
    <3>2. BlockedOK'
      BY <1>1, <1>2, <1>4, <2>5, DoingFacts DEF BlockedOK, Panics
    <3>3. KeysSeen' /\ AnswerFits' /\ FsAssertion'
      BY <1>1, <1>2, <1>4, <2>2, <2>5 DEF KeysSeen, IInv, AnswerFits, FsAssertion, Panics, RV!Running
    <3>4. (TypeOK /\ box \in [Proc -> Messages])'
      BY <2>4 DEF TypeOK, IpcTypes, RestTypes, Doings
    <3> QED
      BY <2>5, <3>2, <3>3, <3>4 DEF IInv, Panics
  <2>6. CASE ~Panics
    <3>1. \/ Delivers(TASK_FS, TASK_TTY, n) /\ st[TASK_TTY] = RecvOf(ANY)
          \/ Parks(TASK_FS, TASK_TTY, n) /\ st[TASK_TTY] = Run
      BY <1>2, <2>2, <2>6, CallTty
    <3>2. /\ st'[TASK_TTY] = Run
          /\ st'[TASK_FS] = IF st[TASK_TTY] = Run THEN SendTo(TASK_TTY) ELSE Run
          /\ \A q \in User : st'[q] = st[q] /\ box'[q] = box[q]
          /\ box'[TASK_FS] = n
          /\ box'[TASK_TTY] = IF st[TASK_TTY] = Run THEN box[TASK_TTY] ELSE n
          /\ UNCHANGED <<pend, stopped>>
      BY <1>1, <1>2, <1>5, <3>1, DoingFacts DEF IpcTypes, Delivers, Parks
    <3>3. st[TASK_TTY] = RecvOf(ANY) => ttyPc = "dispatch"
      BY <1>2, Places
    <3>4. st[TASK_TTY] \in {Run, RecvOf(ANY)}
      BY <3>1
    <3>5. \A q \in User : Waits(q)' = Waits(q)
      BY <1>2, <3>2 DEF Waits, RV!Running
    <3>6. BlockedOK'
      BY <1>2, <1>4, <2>2, <3>2, <3>4 DEF BlockedOK
    <3>7. KeysSeen'
      BY <1>2, <1>4, <3>2, <3>3, <3>4 DEF KeysSeen
    <3>8. RequestsOK'
      BY <1>2, <1>3, <1>5, <3>2, DoingFacts DEF RequestsOK
    <3>9. AsksTty(box[TASK_FS], fsSrc)' /\ (st[TASK_TTY] # Run => TtyAsked')
      <4>1. AsksTty(box[TASK_FS], fsSrc)'
        BY <1>2, <2>2, <2>3, <3>2 DEF AsksTty, Concerns
      <4>2. st[TASK_TTY] # Run => box'[TASK_TTY] = n /\ ttyPc' = "dispatch" /\ st'[TASK_TTY] = Run
        BY <1>4, <3>2, <3>3, <3>4
      <4> QED
        BY <1>2, <2>2, <2>3, <4>1, <4>2 DEF TtyAsked, AsksTty, Concerns
    <3>10. FsOK'
      <4>1. /\ fsPc' = "tty" /\ fsSrc' = p /\ fsSrc' \in User /\ Waits(p)'
            /\ fsLen' = request'[p].CNT
        BY <1>2, <1>7, <2>2, <3>5
      <4>2. /\ st'[TASK_FS] \notin {RecvOf(ANY), RecvOf(TASK_TTY)}
            /\ st'[TASK_TTY] # SendTo(TASK_FS)
            /\ st'[TASK_FS] = Run => st[TASK_TTY] # Run
        BY <3>2, DoingFacts
      <4> QED
        BY <3>2, <3>9, <4>1, <4>2 DEF FsOK
    <3>11. FsAwaits' <=> st[TASK_TTY] # Run
      BY <2>2, <3>2, DoingFacts DEF FsAwaits
    <3>12. ttyPc = "dispatch" /\ st[TASK_TTY] = Run => IsHardInt(box[TASK_TTY])
      BY <1>2, <1>6 DEF TtyOK, ReadsOK
    <3>13. TtyOK'
      <4>1. st'[TASK_TTY] \notin {SendTo(TASK_FS), RecvOf(ANY)}
        BY <3>2, DoingFacts
      <4>2. st[TASK_TTY] # Run => FsAwaits' /\ AsksTty(box[TASK_TTY], fsSrc)'
        BY <3>9, <3>11 DEF TtyAsked
      <4> QED
        BY <1>2, <1>4, <3>2, <3>12, <4>1, <4>2 DEF TtyOK, ReadsOK, IsHardInt
    <3>14. ASSUME NEW q \in User PROVE OnePlace(q)'
      <4>1. OnePlace(q) /\ q # TASK_TTY
        BY <1>2, <1>5
      <4>2. /\ Suspended(q)' <=> Suspended(q)
            /\ st'[q] = SendTo(TASK_FS) <=> st[q] = SendTo(TASK_FS)
        BY <1>4, <3>2 DEF Suspended
      <4>3. InFs(q)' <=> q = p /\ st[TASK_TTY] = Run
        BY <2>2, <3>2, <4>1, DoingFacts DEF InFs
      <4>4. InTty(q)' <=> (st[TASK_TTY] = Run /\ InTty(q)) \/ (st[TASK_TTY] # Run /\ q = p)
        <5>1. CASE st[TASK_TTY] = Run
          <6>1. /\ st'[TASK_TTY] = st[TASK_TTY] /\ box'[TASK_TTY] = box[TASK_TTY]
                /\ ttyPc' = ttyPc
            BY <1>4, <3>2, <5>1
          <6> QED
            BY <5>1, <6>1 DEF InTty, About
        <5>2. CASE st[TASK_TTY] # Run
          <6>1. About(n, q) <=> q = p
            BY <2>3, AboutFacts
          <6>2. st'[TASK_TTY] = Run /\ box'[TASK_TTY] = n /\ ttyPc' = "dispatch"
            BY <1>4, <3>2, <3>3, <3>4, <5>2
          <6> QED
            BY <5>2, <6>1, <6>2, DoingFacts DEF InTty, About
        <5> QED
          BY <5>1, <5>2
      <4>5. st[TASK_TTY] # Run => ~InTty(q)
        BY <3>4, DoingFacts DEF InTty
      <4> QED
        BY <1>7, <1>10, <1>11, <3>5, <4>1, <4>2, <4>3, <4>4, <4>5 DEF OnePlace
    <3> QED
      BY <2>4, <3>6, <3>7, <3>8, <3>10, <3>13, <3>14, Assembled DEF Traffic
  <2> QED
    BY <2>5, <2>6
<1> QED
  BY <1>7, <1>12, <1>13

LEMMA FsHearsIInv ==
  ASSUME IInv, FsHears
  PROVE  IInv'
<1>1. RV!Receive(TASK_FS, TASK_TTY) /\ fsPc = "tty" /\ fsPc' = "reply"
  BY DEF FsHears
<1>2. /\ ~stopped /\ st[TASK_FS] = Run
      /\ UNCHANGED <<keys, reads, ttyLoc, fsSrc, fsLen, users>>
  BY RunsFacts, ProcFacts DEF IInv, FsHears
<1>3. /\ IpcTypes /\ RestTypes /\ BlockedOK /\ Traffic
      /\ RequestsOK /\ FsOK /\ TtyOK /\ \A q \in User : OnePlace(q)
      /\ KeysSeen /\ UNCHANGED <<pc, request>>
  BY <1>2, UsersUnaware
<1>4. \A q, x : /\ Asks(x, q)' = Asks(x, q) /\ AsksTty(x, q)' = AsksTty(x, q)
                /\ TtySays(x, q)' = TtySays(x, q)
                /\ Resumes(x, q)' = Resumes(x, q) /\ Answers(x, q)' = Answers(x, q)
  BY <1>2, UsersUnaware
<1>5. IpcTypes' /\ RestTypes'
  BY <1>1, <1>2, <1>3, ReceiveKeepsTypes, ProcFacts DEF RestTypes, keys, reads, ttyLoc
<1>6. UNCHANGED <<ttyPc, tty, kb_in, key_pressed, current, tty_procnr, tty_left_cnt, tty_trans_cnt>>
  BY <1>2 DEF keys, ttyLoc, reads
<1>7. TASK_TTY \in Proc \ {TASK_FS} /\ User \subseteq Proc \ {TASK_FS, TASK_TTY} /\ TASK_FS \in Proc
  BY ProcFacts
<1>8. /\ fsSrc \in User /\ Waits(fsSrc) /\ fsLen = request[fsSrc].CNT
      /\ TtyAsked \/ TtyAnswers
  BY <1>1, <1>2, <1>3 DEF FsOK
<1>9. \A q \in User : ~InFs(q)
  BY <1>1, <1>2, DoingFacts DEF InFs
<1>10. FsAwaits
  BY <1>1, <1>2 DEF FsAwaits
<1>11. CASE Takes(TASK_FS, TASK_TTY)
  <2>1. /\ st[TASK_TTY] = SendTo(TASK_FS) /\ st'[TASK_TTY] = Run
        /\ \A q \in Proc \ {TASK_TTY} : st'[q] = st[q]
        /\ box'[TASK_FS] = box[TASK_TTY] /\ \A q \in Proc \ {TASK_FS} : box'[q] = box[q]
        /\ UNCHANGED <<pend, stopped>>
    BY <1>3, <1>7, <1>11, ProcFacts DEF IpcTypes, Takes
  <2>2. st'[TASK_FS] = Run /\ \A q \in User : st'[q] = st[q] /\ box'[q] = box[q]
    BY <1>2, <1>7, <2>1
  <2>3. \A q \in User : Waits(q)' = Waits(q)
    BY <1>3, <2>2 DEF Waits, RV!Running
  <2>4. TtySays(box[TASK_TTY], fsSrc)
    BY <1>8, <2>1, DoingFacts DEF TtyAsked, TtyAnswers
  <2>5. ttyPc \in {"visit", "write"}
    BY <1>3, <2>1, Places
  <2>6. BlockedOK'
    BY <1>3, <1>6, <2>1, <2>2 DEF BlockedOK
  <2>7. KeysSeen'
    BY <1>3, <1>6, <2>1 DEF KeysSeen
  <2>8. RequestsOK'
    BY <1>3, <1>4, <2>2, DoingFacts DEF RequestsOK
  <2>9. FsOK'
    <3>1. fsSrc' = fsSrc /\ fsLen' = fsLen /\ request' = request
      BY <1>2, <1>3
    <3>2. TtySays(box[TASK_FS], fsSrc)'
      BY <2>1, <2>4, <3>1 DEF TtySays, Concerns
    <3> QED
      BY <1>1, <1>8, <2>2, <2>3, <3>1, <3>2, DoingFacts DEF FsOK
  <2>10. TtyOK'
    BY <1>3, <1>6, <2>1, <2>5, DoingFacts DEF TtyOK, ReadsOK
  <2>11. ASSUME NEW q \in User PROVE OnePlace(q)'
    <3>1. OnePlace(q) /\ ~InFs(q)
      BY <1>3, <1>9
    <3>2. InTty(q) <=> q = fsSrc /\ box[TASK_TTY].type # SUSPEND_PROC
      BY <1>8, <2>1, <2>4, <2>5, AboutFacts, DoingFacts DEF InTty
    <3>3. InFs(q)' <=> q = fsSrc /\ box[TASK_TTY].type # SUSPEND_PROC
      BY <1>1, <1>2, <2>1, <2>2, DoingFacts DEF InFs
    <3>4. ~InTty(q)'
      BY <1>6, <2>1, <2>5, DoingFacts DEF InTty
    <3>5. Suspended(q)' <=> Suspended(q)
      BY <1>6 DEF Suspended
    <3> QED
      BY <2>2, <2>3, <3>1, <3>2, <3>3, <3>4, <3>5 DEF OnePlace
  <2> QED
    BY <1>5, <2>6, <2>7, <2>8, <2>9, <2>10, <2>11, Assembled DEF Traffic
<1>12. CASE Sleeps(TASK_FS, TASK_TTY) /\ st[TASK_TTY] # SendTo(TASK_FS)
  <2>1. /\ st'[TASK_FS] = RecvOf(TASK_TTY) /\ \A q \in Proc \ {TASK_FS} : st'[q] = st[q]
        /\ \A q \in Proc \ {TASK_FS} : box'[q] = box[q]
        /\ UNCHANGED <<pend, stopped>>
    BY <1>3, <1>7, <1>12, ProcFacts DEF IpcTypes, Sleeps
  <2>2. /\ st'[TASK_TTY] = st[TASK_TTY] /\ box'[TASK_TTY] = box[TASK_TTY]
        /\ \A q \in User : st'[q] = st[q] /\ box'[q] = box[q]
    BY <1>7, <2>1
  <2>3. \A q \in User : Waits(q)' = Waits(q)
    BY <1>3, <2>2 DEF Waits, RV!Running
  <2>4. TtyAsked /\ st[TASK_TTY] = Run
    BY <1>8, <1>12 DEF TtyAsked, TtyAnswers
  <2>5. BlockedOK'
    BY <1>1, <1>3, <1>6, <2>1, <2>2 DEF BlockedOK
  <2>6. KeysSeen'
    BY <1>3, <1>6, <2>1, <2>2 DEF KeysSeen
  <2>7. RequestsOK'
    BY <1>3, <1>4, <2>1, <2>2, DoingFacts DEF RequestsOK
  <2>8. TtyAsked' /\ FsAwaits'
    BY <1>1, <1>2, <1>3, <1>6, <2>1, <2>2, <2>4 DEF TtyAsked, FsAwaits, AsksTty, Concerns
  <2>9. RecvOf(TASK_TTY) \notin {SendTo(TASK_TTY), RecvOf(ANY), Run}
    BY <1>7, DoingFacts, ProcFacts
  <2>10. FsOK'
    BY <1>1, <1>2, <1>3, <1>8, <2>1, <2>3, <2>8, <2>9 DEF FsOK
  <2>11. TtyOK'
    BY <1>3, <1>6, <2>2, <2>4, <2>8, DoingFacts DEF TtyOK, ReadsOK, IsHardInt, TtyAsked
  <2>12. ASSUME NEW q \in User PROVE OnePlace(q)'
    <3>1. ~InFs(q)'
      BY <2>1, <2>9, DoingFacts DEF InFs
    <3> QED
      BY <1>3, <1>6, <1>9, <2>2, <2>3, <3>1 DEF OnePlace, InTty, Suspended, About
  <2> QED
    BY <1>5, <2>5, <2>6, <2>7, <2>10, <2>11, <2>12, Assembled DEF Traffic
<1> QED
  BY <1>1, <1>3, <1>11, <1>12, HearTty

LEMMA FsRepliesIInv ==
  ASSUME IInv, FsReplies
  PROVE  IInv'
<1>1. fsPc = "reply" /\ fsPc' = "loop"
  BY DEF FsReplies
<1>2. /\ ~stopped /\ st[TASK_FS] = Run
      /\ UNCHANGED <<keys, reads, ttyLoc, fsSrc, fsLen, users>>
  BY RunsFacts, ProcFacts DEF IInv, FsReplies
<1>3. /\ IpcTypes /\ RestTypes /\ BlockedOK /\ Traffic
      /\ RequestsOK /\ FsOK /\ TtyOK /\ \A q \in User : OnePlace(q)
      /\ KeysSeen /\ UNCHANGED <<pc, request>>
  BY <1>2, UsersUnaware
<1>4. /\ fsSrc \in User /\ Waits(fsSrc) /\ fsLen = request[fsSrc].CNT
      /\ TtySays(box[TASK_FS], fsSrc)
  BY <1>1, <1>2, <1>3 DEF FsOK
<1>5. /\ request[fsSrc].type \in {READ, WRITE} /\ request[fsSrc].CNT \in Nat
  BY <1>3, <1>4, TtyFacts DEF RequestsOK, Waits
<1>6. CASE box[TASK_FS].type = SUSPEND_PROC
  <2>1. UNCHANGED <<st, box, pend, stopped>>
    BY <1>6 DEF FsReplies, ipc
  <2>2. IpcTypes' /\ RestTypes'
    BY <1>1, <1>2, <1>3, <2>1 DEF IpcTypes, RestTypes, keys, reads, ttyLoc
  <2>3. UNCHANGED <<ttyPc, tty, kb_in, key_pressed, current, tty_procnr, tty_left_cnt, tty_trans_cnt>>
    BY <1>2 DEF keys, ttyLoc, reads
  <2>4. BlockedOK' /\ KeysSeen'
    BY <1>2, <1>3, <2>1, <2>3 DEF BlockedOK, KeysSeen
  <2>5. RequestsOK'
    BY <1>3, <2>1 DEF RequestsOK, Asks, Answers, Concerns
  <2>6. FsOK'
    BY <1>1, <1>2, <2>1, DoingFacts DEF FsOK
  <2>7. ~FsAwaits /\ ~FsAwaits' /\ fsPc # "tty"
    BY <1>1, <1>2, <2>1, DoingFacts DEF FsAwaits
  <2>8. (\E q \in User : Waits(q) /\ Resumes(box[TASK_TTY], q))
          => (\E q \in User : Waits(q) /\ Resumes(box[TASK_TTY], q))'
    BY <1>3, <2>1 DEF Waits, Resumes, RV!Running
  <2>9. TtyOK'
    BY <1>3, <2>1, <2>3, <2>7, <2>8 DEF TtyOK, ReadsOK, IsHardInt
  <2>10. ASSUME NEW q \in User PROVE OnePlace(q)'
    <3>1. ~InFs(q) /\ ~InFs(q)'
      BY <1>1, <1>2, <1>6, <2>1, DoingFacts DEF InFs
    <3>2. Waits(q)' = Waits(q)
      BY <1>3, <2>1 DEF Waits, RV!Running
    <3> QED
      BY <1>3, <2>1, <2>3, <3>1, <3>2 DEF OnePlace, InTty, Suspended, About
  <2> QED
    BY <2>2, <2>4, <2>5, <2>6, <2>9, <2>10, Assembled DEF Traffic
<1>7. CASE box[TASK_FS].type # SUSPEND_PROC
  <2> DEFINE n == [box[TASK_FS] EXCEPT !.source = TASK_FS, !.type = SYSCALL_RET]
  <2>1. RV!Send(TASK_FS, fsSrc, n)
    BY <1>7 DEF FsReplies
  <2>2. InFs(fsSrc)
    BY <1>1, <1>2, <1>7 DEF InFs
  <2>3. request[fsSrc].type = WRITE /\ box[TASK_FS].CNT = request[fsSrc].CNT
    BY <1>4, <1>5, <1>7 DEF TtySays, Concerns
  <2>4. n \in Messages /\ Answers(n, fsSrc)
    <3>1. SYSCALL_RET \in MessageTypes /\ TASK_FS \in Proc \cup {INTERRUPT} /\ box[TASK_FS] \in Messages
      BY <1>3, ProcFacts DEF MessageTypes, IpcTypes
    <3>2. n \in Messages /\ n.source = TASK_FS /\ n.type = SYSCALL_RET /\ n.CNT = box[TASK_FS].CNT
      BY <3>1 DEF Messages, MessageTypes
    <3> QED
      BY <1>5, <2>3, <3>2 DEF Answers
  <2> HIDE DEF n
  <2> QED
    BY <1>1, <1>2, <1>4, <2>1, <2>2, <2>4, AnswerIInv
<1> QED
  BY <1>6, <1>7

-----------------------------------------------------------------------------
\* A step of TTY or of an interrupt without a message: no read ends.
LEMMA QuietIInv ==
  ASSUME IInv, ~stopped, UNCHANGED <<ipc, fsLoc, users>>, RestTypes', KeysSeen', ReadsOK',
         \/ UNCHANGED ttyPc
         \/ st[TASK_TTY] = Run /\ ttyPc # "dispatch" /\ ttyPc' # "dispatch"
         \/ st[TASK_TTY] = Run /\ IsHardInt(box[TASK_TTY]) /\ ttyPc' # "dispatch",
         UNCHANGED tty_procnr,
         \A t \in Tty : tty_left_cnt'[t] > 0 <=> tty_left_cnt[t] > 0
  PROVE  IInv'
<1>1. UNCHANGED <<st, box, pend, stopped, fsPc, fsSrc, fsLen>>
  BY DEF ipc, fsLoc
<1>2. /\ IpcTypes /\ RestTypes /\ BlockedOK /\ Traffic
      /\ RequestsOK /\ FsOK /\ TtyOK /\ \A q \in User : OnePlace(q)
      /\ KeysSeen /\ UNCHANGED <<pc, request>>
  BY <1>1, UsersUnaware
<1>3. \A q, x : /\ Asks(x, q)' = Asks(x, q) /\ AsksTty(x, q)' = AsksTty(x, q)
                /\ TtySays(x, q)' = TtySays(x, q)
                /\ Resumes(x, q)' = Resumes(x, q) /\ Answers(x, q)' = Answers(x, q)
  BY <1>1, UsersUnaware
<1>4. \A q : Waits(q)' = Waits(q)
  BY <1>1, <1>2 DEF Waits, RV!Running
<1>5. IpcTypes'
  BY <1>1, <1>2 DEF IpcTypes
<1>6. BlockedOK'
  BY <1>1, <1>2, DoingFacts DEF BlockedOK
<1>7. RequestsOK'
  BY <1>1, <1>2, <1>3 DEF RequestsOK
<1>8. ttyPc' = "dispatch" /\ st[TASK_TTY] = Run => ttyPc = "dispatch"
  OBVIOUS
<1>9. (TtyAsked' <=> TtyAsked) /\ (TtyAnswers' <=> TtyAnswers) /\ (FsAwaits' <=> FsAwaits)
  <2>1. IsHardInt(box[TASK_TTY]) => ~TtyAsked
    BY ProcFacts DEF IsHardInt, TtyAsked, AsksTty
  <2>2. TtyAsked' <=> TtyAsked
    BY <1>1, <1>3, <2>1 DEF TtyAsked
  <2> QED
    BY <1>1, <1>3, <2>2 DEF TtyAnswers, FsAwaits
<1>10. FsOK'
  BY <1>1, <1>2, <1>3, <1>4, <1>9 DEF FsOK
<1>11. (\E q \in User : Waits(q) /\ Resumes(box[TASK_TTY], q))
         => (\E q \in User : Waits(q) /\ Resumes(box[TASK_TTY], q))'
  BY <1>1, <1>3, <1>4
<1>12. TtyOK'
  BY <1>1, <1>2, <1>3, <1>8, <1>9, <1>11 DEF TtyOK, IsHardInt
<1>13. ASSUME NEW q \in User PROVE OnePlace(q)'
  <2>1. /\ InFs(q)' <=> InFs(q)
        /\ InTty(q)' <=> InTty(q)
    <3>1. IsHardInt(box[TASK_TTY]) => ~About(box[TASK_TTY], q)
      BY ProcFacts DEF IsHardInt, About
    <3> QED
      BY <1>1, <3>1, DoingFacts DEF InFs, InTty, About
  <2>2. Suspended(q)' <=> Suspended(q)
    BY TtyFacts DEF Suspended
  <2> QED
    BY <1>1, <1>2, <1>4, <2>1, <2>2 DEF OnePlace
<1> QED
  BY <1>5, <1>6, <1>7, <1>10, <1>12, <1>13, Assembled DEF Traffic

LEMMA VisitIInv ==
  ASSUME IInv, Visit
  PROVE  IInv'
<1>1. /\ ttyPc = "visit" /\ ~stopped /\ st[TASK_TTY] = Run
      /\ ttyPc' = IF tty \notin Tty THEN "receive" ELSE IF tty = current THEN "read" ELSE "write"
      /\ UNCHANGED <<ipc, keys, reads, tty, fsLoc, users>>
  BY RunsFacts, ProcFacts DEF IInv, Visit
<1>2. RestTypes /\ KeysSeen /\ ReadsOK
  BY <1>1, UsersUnaware DEF TtyOK
<1>3. /\ UNCHANGED <<kb_in, key_pressed, ibuf, current, tty_procnr, tty_left_cnt, tty_trans_cnt>>
      /\ UNCHANGED <<pend, fsPc, fsSrc, fsLen, pc, request>>
  BY <1>1 DEF ipc, keys, reads, fsLoc, users
<1>4. RestTypes'
  BY <1>1, <1>2, <1>3 DEF RestTypes
<1>5. KeysSeen'
  <2>1. tty \in Nat /\ current \in Nat /\ (tty <= current => tty \in Tty)
    <3>1. tty \in 0 .. Cardinality(Tty) /\ current \in Tty
      BY <1>2 DEF RestTypes
    <3> DEFINE n == Cardinality(Tty)
    <3>2. n \in Nat /\ Tty = 0 .. n - 1 /\ tty \in 0 .. n /\ current \in 0 .. n - 1
      BY <3>1, TtyFacts
    <3> HIDE DEF n
    <3>3. tty \in Nat /\ current \in Nat /\ (tty <= current => tty \in 0 .. n - 1)
      BY <3>2
    <3> QED
      BY <3>2, <3>3
  <2>2. CASE ttyPc = "visit" /\ tty <= current
    <3>1. \/ ttyPc' = "read"
          \/ ttyPc' = "write" /\ tty < current
      BY <1>1, <2>1, <2>2
    <3> QED
      BY <1>1, <1>3, <3>1 DEF KeysSeen
  <2>3. CASE kb_in # <<>> => key_pressed \/ pend[TASK_TTY]
    BY <1>3, <2>3 DEF KeysSeen
  <2> QED
    BY <1>1, <1>2, <2>2, <2>3 DEF KeysSeen
<1>6. ReadsOK'
  BY <1>2, <1>3 DEF ReadsOK
<1> QED
  BY <1>1, <1>3, <1>4, <1>5, <1>6, QuietIInv

\* put_key() keeps within the buffer, and a switch names a terminal.
LEMMA KeyboardReadsIInv ==
  ASSUME IInv, KeyboardReads
  PROVE  IInv'
<1>1. /\ ttyPc = "read" /\ ~stopped /\ st[TASK_TTY] = Run
      /\ UNCHANGED <<ipc, key_pressed, reads, tty, fsLoc, users>>
  BY RunsFacts, ProcFacts DEF IInv, KeyboardReads
<1>2. RestTypes /\ KeysSeen /\ ReadsOK
  BY <1>1, UsersUnaware DEF TtyOK
<1>3. /\ UNCHANGED <<tty_procnr, tty_left_cnt, tty_trans_cnt>>
      /\ UNCHANGED <<fsPc, fsSrc, fsLen, pc, request>>
  BY <1>1 DEF reads, fsLoc, users
<1>4. tty \in Tty
  BY <1>1, <1>2 DEF RestTypes
<1>5. ReadsOK'
  BY <1>2, <1>3 DEF ReadsOK
<1>6. CASE kb_in = <<>>
  <2>1. ttyPc' = "write" /\ UNCHANGED <<kb_in, ibuf, current>>
    BY <1>6 DEF KeyboardReads
  <2>2. RestTypes' /\ KeysSeen'
    BY <1>1, <1>2, <1>3, <1>4, <1>6, <2>1 DEF RestTypes, KeysSeen
  <2> QED
    BY <1>1, <1>3, <1>5, <2>1, <2>2, QuietIInv
<1>7. CASE kb_in # <<>>
  <2> DEFINE k == Head(kb_in)
  <2>1. TakeKey(k) /\ kb_in' = Tail(kb_in) /\ UNCHANGED ttyPc
    BY <1>7 DEF KeyboardReads
  <2>2. k \in Key /\ kb_in' \in Seq(Key) /\ Len(kb_in') <= KB_IN_BYTES
    <3>1. kb_in \in Seq(Key) /\ Len(kb_in) <= KB_IN_BYTES /\ KB_IN_BYTES \in Nat
      BY <1>2, TtyFacts DEF RestTypes
    <3> QED
      BY <1>7, <2>1, <3>1
  <2> HIDE DEF k
  <2>3. /\ current' \in Tty
        /\ ibuf' \in [Tty -> Seq(Key \ Switches)] /\ \A t \in Tty : Len(ibuf'[t]) <= TTY_IN_BYTES
    <3>1. /\ ibuf \in [Tty -> Seq(Key \ Switches)] /\ \A t \in Tty : Len(ibuf[t]) <= TTY_IN_BYTES
          /\ current \in Tty
      BY <1>2 DEF RestTypes
    <3>2. CASE k \in Switches
      BY <2>1, <2>2, <3>1, <3>2, KeyFacts DEF TakeKey
    <3>3. CASE k \notin Switches
      <4> DEFINE s == ibuf[tty]
                 r == IF Len(s) < TTY_IN_BYTES THEN Append(s, k) ELSE s
      <4>1. ibuf' = [ibuf EXCEPT ![tty] = r] /\ UNCHANGED current
        BY <2>1, <3>3 DEF TakeKey
      <4>2. s \in Seq(Key \ Switches) /\ k \in Key \ Switches /\ Len(s) <= TTY_IN_BYTES
        BY <1>4, <2>2, <3>1, <3>3
      <4> HIDE DEF s
      <4>3. r \in Seq(Key \ Switches) /\ Len(r) <= TTY_IN_BYTES
        BY <4>2, TtyFacts
      <4> HIDE DEF r
      <4> QED
        BY <3>1, <4>1, <4>3
    <3> QED
      BY <3>2, <3>3
  <2>4. RestTypes' /\ KeysSeen'
    BY <1>1, <1>2, <1>3, <2>1, <2>2, <2>3 DEF RestTypes, KeysSeen
  <2> QED
    BY <1>1, <1>3, <1>5, <2>1, <2>4, QuietIInv
<1> QED
  BY <1>6, <1>7

LEMMA NextTtyIInv ==
  ASSUME IInv, NextTty
  PROVE  IInv'
<1>1. /\ ttyPc = "write" /\ ~stopped /\ st[TASK_TTY] = Run
      /\ tty' = tty + 1 /\ ttyPc' = "visit"
      /\ UNCHANGED <<ipc, keys, reads, fsLoc, users>>
  BY RunsFacts, ProcFacts DEF IInv, NextTty
<1>2. RestTypes /\ KeysSeen /\ ReadsOK
  BY <1>1, UsersUnaware DEF TtyOK
<1>3. /\ UNCHANGED <<kb_in, key_pressed, ibuf, current, tty_procnr, tty_left_cnt, tty_trans_cnt>>
      /\ UNCHANGED <<pend, fsPc, fsSrc, fsLen, pc, request>>
  BY <1>1 DEF ipc, keys, reads, fsLoc, users
<1>4. tty \in Nat /\ current \in Nat /\ tty + 1 \in 0 .. Cardinality(Tty)
  <2>1. tty \in Tty /\ current \in Tty
    BY <1>1, <1>2 DEF RestTypes
  <2> QED
    BY <2>1, TtyFacts
<1>5. RestTypes' /\ KeysSeen'
  <2>1. RestTypes'
    BY <1>1, <1>2, <1>3, <1>4 DEF RestTypes
  <2>2. tty < current => tty' <= current
    BY <1>1, <1>4
  <2> QED
    BY <1>1, <1>2, <1>3, <2>1, <2>2 DEF KeysSeen
<1>6. ReadsOK'
  BY <1>2, <1>3 DEF ReadsOK
<1> QED
  BY <1>1, <1>3, <1>5, <1>6, QuietIInv

LEMMA KeyboardInterruptIInv ==
  ASSUME IInv, KeyboardInterrupt
  PROVE  IInv'
<1>1. PICK k \in Key : kb_in' = IF Len(kb_in) < KB_IN_BYTES THEN Append(kb_in, k) ELSE kb_in
  BY DEF KeyboardInterrupt
<1>2. /\ ~stopped /\ key_pressed' = TRUE
      /\ UNCHANGED <<ipc, ibuf, current, reads, ttyLoc, fsLoc, users>>
  BY DEF KeyboardInterrupt
<1>3. RestTypes /\ KeysSeen /\ ReadsOK
  BY <1>2, UsersUnaware DEF TtyOK
<1>4. /\ UNCHANGED <<ibuf, current, tty_procnr, tty_left_cnt, tty_trans_cnt, ttyPc, tty>>
      /\ UNCHANGED <<fsPc, fsSrc, fsLen, pc, request>>
  BY <1>2 DEF reads, ttyLoc, fsLoc, users
<1>5. kb_in' \in Seq(Key) /\ Len(kb_in') <= KB_IN_BYTES
  BY <1>1, <1>3, TtyFacts DEF RestTypes
<1>6. RestTypes' /\ KeysSeen'
  BY <1>2, <1>3, <1>4, <1>5 DEF RestTypes, KeysSeen
<1>7. ReadsOK'
  BY <1>3, <1>4 DEF ReadsOK
<1> QED
  BY <1>2, <1>4, <1>6, <1>7, QuietIInv

\* TTY idle, that is in its receive(ANY) or about to call it: FS awaits nothing.
LEMMA TtyIdle ==
  ASSUME BlockedOK, FsOK, st[TASK_TTY] = RecvOf(ANY) \/ (ttyPc = "receive" /\ st[TASK_TTY] = Run)
  PROVE  /\ st[TASK_TTY] # SendTo(TASK_FS) /\ ~TtyAsked /\ ~TtyAnswers /\ ~FsAwaits
         /\ \A q : ~InTty(q)
<1>1. st[TASK_TTY] # SendTo(TASK_FS) /\ (ttyPc # "dispatch" \/ st[TASK_TTY] # Run)
  BY DoingFacts
<1>2. ~TtyAsked /\ ~TtyAnswers
  BY <1>1 DEF TtyAsked, TtyAnswers
<1>3. ~FsAwaits
  BY <1>2 DEF FsAwaits, FsOK
<1>4. \A q : ~InTty(q)
  BY <1>1 DEF InTty
<1> QED
  BY <1>1, <1>2, <1>3, <1>4

\* A clock interrupt reaches TTY, as a message or at its receive(ANY).
LEMMA WokenIInv ==
  ASSUME IInv, ~stopped, Woken, st' = [st EXCEPT ![TASK_TTY] = Run], ttyPc' = "dispatch",
         st[TASK_TTY] = RecvOf(ANY) \/ (ttyPc = "receive" /\ st[TASK_TTY] = Run),
         UNCHANGED <<keys, reads, tty, fsLoc, users>>
  PROVE  IInv'
<1>1. /\ UNCHANGED <<fsPc, fsSrc, fsLen, kb_in, key_pressed, ibuf, current>>
      /\ UNCHANGED <<tty_procnr, tty_left_cnt, tty_trans_cnt>>
  BY DEF keys, reads, fsLoc
<1>2. /\ IpcTypes /\ RestTypes /\ BlockedOK /\ Traffic
      /\ RequestsOK /\ FsOK /\ TtyOK /\ \A q \in User : OnePlace(q)
      /\ KeysSeen /\ UNCHANGED <<pc, request>>
  BY UsersUnaware
<1>3. \A q, x : /\ Asks(x, q)' = Asks(x, q) /\ AsksTty(x, q)' = AsksTty(x, q)
                /\ TtySays(x, q)' = TtySays(x, q)
                /\ Resumes(x, q)' = Resumes(x, q) /\ Answers(x, q)' = Answers(x, q)
  BY UsersUnaware
<1>4. TASK_TTY \in Proc /\ TASK_TTY # TASK_FS /\ TASK_TTY \notin User /\ User \subseteq Proc /\ TASK_FS \in Proc
  BY ProcFacts
<1> DEFINE i == Message(INTERRUPT, HARD_INT, 0, NO_TASK, 0)
<1>5. i \in Messages /\ IsHardInt(i)
  <2>1. i \in Messages
    BY MessageType, TtyFacts DEF MessageTypes
  <2>2. i.source = INTERRUPT /\ i.type = HARD_INT /\ i.PROC_NR = NO_TASK
    BY MessageFacts
  <2> QED
    BY <2>1, <2>2 DEF IsHardInt
<1>6. box' = [box EXCEPT ![TASK_TTY] = i] /\ pend' = [pend EXCEPT ![TASK_TTY] = FALSE] /\ UNCHANGED stopped
  BY DEF Woken
<1> HIDE DEF i
<1>7. /\ st'[TASK_TTY] = Run /\ box'[TASK_TTY] = i
      /\ \A q \in User \cup {TASK_FS} : st'[q] = st[q] /\ box'[q] = box[q]
  BY <1>2, <1>4, <1>6 DEF IpcTypes
<1>8. IpcTypes'
  BY <1>2, <1>5, <1>6, DoingTypes DEF IpcTypes
<1>9. RestTypes'
  BY <1>1, <1>2 DEF RestTypes
<1>10. \A q \in User : Waits(q)' = Waits(q)
  BY <1>2, <1>7 DEF Waits, RV!Running
<1>11. BlockedOK'
  BY <1>1, <1>2, <1>4, <1>6, <1>7 DEF BlockedOK, IpcTypes
<1>12. KeysSeen'
  BY <1>7 DEF KeysSeen
<1>13. RequestsOK'
  BY <1>2, <1>3, <1>7 DEF RequestsOK
<1>14. ~FsAwaits /\ \A q : ~InTty(q)
  BY <1>2, TtyIdle
<1>15. ~FsAwaits'
  BY <1>1, <1>7, <1>14 DEF FsAwaits
<1>16. st'[TASK_TTY] \notin {SendTo(TASK_FS), RecvOf(ANY)}
  BY <1>7, DoingFacts
<1>17. FsOK'
  <2>1. (fsPc = "dispatch" /\ st[TASK_FS] = Run =>
           \E q \in User : Waits(q) /\ (Asks(box[TASK_FS], q) \/ Resumes(box[TASK_FS], q)))'
    BY <1>1, <1>2, <1>3, <1>7, <1>10 DEF FsOK
  <2>2. (fsPc \in {"tty", "reply"} => fsSrc \in User /\ Waits(fsSrc) /\ fsLen = request[fsSrc].CNT)'
    BY <1>1, <1>2, <1>10 DEF FsOK
  <2>3. (st[TASK_FS] = SendTo(TASK_TTY) =>
           AsksTty(box[TASK_FS], fsSrc) /\ st[TASK_TTY] # SendTo(TASK_FS))'
    BY <1>1, <1>2, <1>3, <1>7, <1>16 DEF FsOK
  <2>4. (fsPc = "reply" /\ st[TASK_FS] = Run => TtySays(box[TASK_FS], fsSrc))'
    BY <1>1, <1>2, <1>3, <1>7 DEF FsOK
  <2>5. (st[TASK_FS] = RecvOf(ANY) => \A p \in Proc : st[p] # SendTo(TASK_FS))'
    BY <1>2, <1>7, <1>16, ProcFacts DEF FsOK
  <2> QED
    BY <1>15, <2>1, <2>2, <2>3, <2>4, <2>5 DEF FsOK, FsAwaits
<1>18. TtyOK'
  BY <1>1, <1>2, <1>5, <1>7, <1>16 DEF TtyOK, ReadsOK, IsHardInt
<1>19. ASSUME NEW q \in User PROVE OnePlace(q)'
  <2>1. OnePlace(q) /\ ~InTty(q)
    BY <1>2, <1>14
  <2>2. ~InTty(q)'
    <3>1. i.source \notin {q, TASK_FS, TASK_TTY}
      BY <1>5, ProcFacts DEF IsHardInt
    <3> QED
      BY <1>7, <1>16, <3>1 DEF InTty, About
  <2>3. /\ InFs(q)' <=> InFs(q)
        /\ Suspended(q)' <=> Suspended(q)
    BY <1>1, <1>7 DEF InFs, Suspended, About
  <2> QED
    BY <1>7, <1>10, <2>1, <2>2, <2>3 DEF OnePlace
<1> QED
  BY <1>8, <1>9, <1>11, <1>12, <1>13, <1>17, <1>18, <1>19, Assembled DEF Traffic

LEMMA ClockTickIInv ==
  ASSUME IInv, ClockTick
  PROVE  IInv'
<1>1. /\ ~stopped /\ key_pressed /\ RV!Notify(TASK_TTY)
      /\ UNCHANGED <<keys, reads, ttyLoc, fsLoc, users>>
  BY DEF ClockTick
<1>2. /\ UNCHANGED <<fsPc, fsSrc, fsLen, kb_in, key_pressed, ibuf, current, ttyPc, tty>>
      /\ UNCHANGED <<tty_procnr, tty_left_cnt, tty_trans_cnt>>
  BY <1>1 DEF keys, reads, fsLoc, ttyLoc
<1>3. /\ IpcTypes /\ RestTypes /\ BlockedOK /\ Traffic
      /\ RequestsOK /\ FsOK /\ TtyOK /\ \A q \in User : OnePlace(q)
      /\ KeysSeen /\ UNCHANGED <<pc, request>>
  BY <1>1, UsersUnaware
<1>4. CASE Woken /\ st[TASK_TTY] = RecvOf(ANY) /\ st' = [st EXCEPT ![TASK_TTY] = Run]
  <2>1. ttyPc' = "dispatch"
    BY <1>2, <1>3, <1>4, Places
  <2> QED
    BY <1>1, <1>2, <1>4, <2>1, WokenIInv
<1>5. CASE /\ st[TASK_TTY] # RecvOf(ANY) /\ pend' = [pend EXCEPT ![TASK_TTY] = TRUE]
           /\ UNCHANGED <<st, box, stopped>>
  <2>1. IpcTypes'
    BY <1>1, <1>3, NotifyKeepsTypes
  <2>2. RestTypes'
    BY <1>2, <1>3 DEF RestTypes
  <2>3. BlockedOK'
    BY <1>2, <1>3, <1>5, ProcFacts DEF BlockedOK, IpcTypes
  <2>4. KeysSeen'
    BY <1>1, <1>2 DEF KeysSeen
  <2>5. \A q : Waits(q)' = Waits(q)
    BY <1>3, <1>5 DEF Waits, RV!Running
  <2>6. RequestsOK'
    BY <1>3, <1>5 DEF RequestsOK, Asks, Answers, Concerns
  <2>7. FsOK'
    BY <1>2, <1>3, <1>5, <2>5 DEF FsOK, TtyAsked, TtyAnswers, Asks, Resumes, AsksTty, TtySays, Concerns
  <2>8. TtyOK'
    BY <1>2, <1>3, <1>5, <2>5 DEF TtyOK, ReadsOK, FsAwaits, IsHardInt, Resumes, AsksTty, TtySays, Concerns
  <2>9. ASSUME NEW q \in User PROVE OnePlace(q)'
    BY <1>2, <1>3, <1>5, <2>5 DEF OnePlace, InFs, InTty, Suspended, About
  <2> QED
    BY <2>1, <2>2, <2>3, <2>4, <2>6, <2>7, <2>8, <2>9, Assembled DEF Traffic
<1> QED
  BY <1>1, <1>3, <1>4, <1>5, Notified

LEMMA TtyReceivesIInv ==
  ASSUME IInv, TtyReceives
  PROVE  IInv'
<1>1. RV!Receive(TASK_TTY, ANY) /\ ttyPc = "receive" /\ ttyPc' = "dispatch"
  BY DEF TtyReceives
<1>2. /\ ~stopped /\ st[TASK_TTY] = Run
      /\ UNCHANGED <<keys, reads, tty, fsLoc, users>>
  BY RunsFacts, ProcFacts DEF IInv, TtyReceives
<1>3. /\ IpcTypes /\ RestTypes /\ BlockedOK /\ Traffic
      /\ RequestsOK /\ FsOK /\ TtyOK /\ \A q \in User : OnePlace(q)
      /\ KeysSeen /\ UNCHANGED <<pc, request>>
  BY <1>2, UsersUnaware
<1>4. \A q, x : /\ Asks(x, q)' = Asks(x, q) /\ AsksTty(x, q)' = AsksTty(x, q)
                /\ TtySays(x, q)' = TtySays(x, q)
                /\ Resumes(x, q)' = Resumes(x, q) /\ Answers(x, q)' = Answers(x, q)
  BY <1>2, UsersUnaware
<1>5. /\ UNCHANGED <<fsPc, fsSrc, fsLen, kb_in, key_pressed, ibuf, current>>
      /\ UNCHANGED <<tty_procnr, tty_left_cnt, tty_trans_cnt>>
  BY <1>2 DEF keys, reads, fsLoc
<1>6. IpcTypes' /\ RestTypes'
  BY <1>1, <1>2, <1>3, <1>5, ReceiveKeepsTypes, ProcFacts DEF RestTypes
<1>7. TASK_TTY \in Proc \ {TASK_FS} /\ User \subseteq Proc \ {TASK_FS, TASK_TTY} /\ TASK_FS \in Proc
  BY ProcFacts
<1>8. ~FsAwaits /\ ~TtyAsked /\ ~TtyAnswers /\ \A q : ~InTty(q)
  BY <1>1, <1>2, <1>3, TtyIdle
<1>9. CASE Woken /\ UNCHANGED st
  <2>1. st' = [st EXCEPT ![TASK_TTY] = Run]
    BY <1>2, <1>3, <1>7, <1>9 DEF IpcTypes
  <2> QED
    BY <1>1, <1>2, <1>9, <2>1, WokenIInv
<1>10. CASE Takes(TASK_TTY, TASK_FS)
  <2>1. /\ st[TASK_FS] = SendTo(TASK_TTY) /\ st'[TASK_FS] = Run /\ st'[TASK_TTY] = Run
        /\ box'[TASK_TTY] = box[TASK_FS] /\ box'[TASK_FS] = box[TASK_FS]
        /\ \A q \in User : st'[q] = st[q] /\ box'[q] = box[q]
        /\ UNCHANGED <<pend, stopped>>
    BY <1>2, <1>3, <1>7, <1>10 DEF IpcTypes, Takes
  <2>2. /\ fsPc = "tty" /\ AsksTty(box[TASK_FS], fsSrc)
        /\ fsSrc \in User /\ Waits(fsSrc) /\ fsLen = request[fsSrc].CNT
    BY <1>3, <2>1, Places DEF FsOK
  <2>3. \A q \in User : Waits(q)' = Waits(q)
    BY <1>3, <2>1 DEF Waits, RV!Running
  <2>4. BlockedOK'
    BY <1>3, <2>1 DEF BlockedOK
  <2>5. KeysSeen'
    BY <1>1, <2>1 DEF KeysSeen
  <2>6. RequestsOK'
    BY <1>3, <1>4, <2>1, DoingFacts DEF RequestsOK
  <2>7. AsksTty(box[TASK_TTY], fsSrc)' /\ TtyAsked' /\ FsAwaits'
    BY <1>1, <1>3, <1>5, <2>1, <2>2 DEF AsksTty, Concerns, TtyAsked, FsAwaits
  <2>8. FsOK'
    BY <1>3, <1>5, <2>1, <2>2, <2>3, <2>7, DoingFacts DEF FsOK
  <2>9. TtyOK'
    BY <1>3, <1>5, <2>1, <2>7, DoingFacts DEF TtyOK, ReadsOK
  <2>10. ASSUME NEW q \in User PROVE OnePlace(q)'
    <3>1. OnePlace(q) /\ ~InTty(q)
      BY <1>3, <1>8
    <3>2. InFs(q) <=> q = fsSrc
      BY <1>7, <2>1, <2>2, DoingFacts DEF InFs
    <3>3. InTty(q)' <=> q = fsSrc
      <4>1. About(box[TASK_FS], q) <=> q = fsSrc
        BY <2>2, AboutFacts
      <4> QED
        BY <1>1, <2>1, <4>1, DoingFacts DEF InTty, About
    <3>4. ~InFs(q)'
      BY <1>5, <2>1, <2>2, DoingFacts DEF InFs
    <3>5. Suspended(q)' <=> Suspended(q)
      BY <1>5 DEF Suspended
    <3> QED
      BY <2>1, <2>3, <3>1, <3>2, <3>3, <3>4, <3>5 DEF OnePlace
  <2> QED
    BY <1>6, <2>4, <2>5, <2>6, <2>8, <2>9, <2>10, Assembled DEF Traffic
<1>11. CASE Sleeps(TASK_TTY, ANY) /\ st[TASK_FS] # SendTo(TASK_TTY) /\ ~pend[TASK_TTY]
  <2>1. /\ st'[TASK_TTY] = RecvOf(ANY)
        /\ \A q \in User \cup {TASK_FS} : st'[q] = st[q] /\ box'[q] = box[q]
        /\ UNCHANGED <<pend, stopped>>
    BY <1>3, <1>7, <1>11 DEF IpcTypes, Sleeps
  <2>2. st'[TASK_TTY] \notin {Run, SendTo(TASK_FS)}
    BY <2>1, DoingFacts
  <2>3. \A q \in User : Waits(q)' = Waits(q)
    BY <1>3, <2>1 DEF Waits, RV!Running
  <2>4. BlockedOK'
    BY <1>1, <1>3, <1>5, <2>1 DEF BlockedOK
  <2>5. KeysSeen'
    BY <1>1, <1>3, <1>5, <2>1 DEF KeysSeen
  <2>6. RequestsOK'
    BY <1>3, <1>4, <2>1 DEF RequestsOK
  <2>7. ~FsAwaits'
    BY <1>5, <1>8, <2>1 DEF FsAwaits
  <2>8. FsOK'
    <3>1. (fsPc = "dispatch" /\ st[TASK_FS] = Run =>
             \E q \in User : Waits(q) /\ (Asks(box[TASK_FS], q) \/ Resumes(box[TASK_FS], q)))'
      BY <1>3, <1>4, <1>5, <2>1, <2>3 DEF FsOK
    <3>2. (fsPc \in {"tty", "reply"} => fsSrc \in User /\ Waits(fsSrc) /\ fsLen = request[fsSrc].CNT)'
      BY <1>3, <1>5, <2>3 DEF FsOK
    <3>3. (st[TASK_FS] = SendTo(TASK_TTY) =>
             AsksTty(box[TASK_FS], fsSrc) /\ st[TASK_TTY] # SendTo(TASK_FS))'
      BY <1>11, <2>1
    <3>4. (fsPc = "reply" /\ st[TASK_FS] = Run => TtySays(box[TASK_FS], fsSrc))'
      BY <1>3, <1>4, <1>5, <2>1 DEF FsOK
    <3>5. (st[TASK_FS] = RecvOf(ANY) => \A p \in Proc : st[p] # SendTo(TASK_FS))'
      BY <1>3, <2>1, <2>2, ProcFacts DEF FsOK
    <3> QED
      BY <2>7, <3>1, <3>2, <3>3, <3>4, <3>5 DEF FsOK, FsAwaits
  <2>9. TtyOK'
    BY <1>3, <1>5, <1>11, <2>1, <2>2 DEF TtyOK, ReadsOK
  <2>10. ASSUME NEW q \in User PROVE OnePlace(q)'
    <3>1. ~InTty(q)'
      BY <2>2 DEF InTty
    <3> QED
      BY <1>3, <1>5, <1>8, <2>1, <2>3, <3>1 DEF OnePlace, InFs, Suspended, About
  <2> QED
    BY <1>6, <2>4, <2>5, <2>6, <2>8, <2>9, <2>10, Assembled DEF Traffic
<1> QED
  BY <1>1, <1>3, <1>9, <1>10, <1>11, TtyHears

\* TTY answers FS; a read is suspended, a write is done.
LEMMA AnswerFsIInv ==
  ASSUME IInv, ~stopped, st[TASK_TTY] = Run, ttyPc = "dispatch", ttyPc' = "visit", tty' = 0,
         FsAwaits, AsksTty(box[TASK_TTY], fsSrc),
         UNCHANGED <<keys, fsLoc, users>>, RestTypes', ReadsOK',
         NEW n \in Messages, TtySays(n, fsSrc), RV!Send(TASK_TTY, TASK_FS, n),
         \A q \in User : Suspended(q)' <=> Suspended(q) \/ (q = fsSrc /\ n.type = SUSPEND_PROC)
  PROVE  IInv'
<1>1. /\ UNCHANGED <<fsPc, fsSrc, fsLen, kb_in, key_pressed, ibuf, current>>
  BY DEF keys, fsLoc
<1>2. /\ IpcTypes /\ RestTypes /\ BlockedOK /\ Traffic
      /\ RequestsOK /\ FsOK /\ TtyOK /\ \A q \in User : OnePlace(q)
      /\ KeysSeen /\ UNCHANGED <<pc, request>>
  BY UsersUnaware
<1>3. \A q, x : /\ Asks(x, q)' = Asks(x, q) /\ AsksTty(x, q)' = AsksTty(x, q)
                /\ TtySays(x, q)' = TtySays(x, q)
                /\ Resumes(x, q)' = Resumes(x, q) /\ Answers(x, q)' = Answers(x, q)
  BY UsersUnaware
<1>4. TASK_TTY \in Proc \ {TASK_FS} /\ User \subseteq Proc \ {TASK_FS, TASK_TTY} /\ TASK_FS \in Proc
  BY ProcFacts
<1>5. IpcTypes'
  BY <1>2, <1>4, SendKeepsTypes
<1>6. KeysSeen'
  <2>1. current \in Nat
    BY <1>2, TtyFacts DEF RestTypes
  <2> QED
    BY <1>1, <2>1 DEF KeysSeen
<1>7. /\ fsPc \in {"tty", "reply"} /\ fsSrc \in User /\ Waits(fsSrc)
      /\ fsLen = request[fsSrc].CNT
  BY <1>2, Places DEF FsOK
<1>8. CASE Panics
  <2>1. BlockedOK'
    BY <1>1, <1>2, <1>8, DoingFacts DEF BlockedOK, Panics
  <2>2. AnswerFits' /\ FsAssertion'
    BY <1>1, <1>2, <1>8 DEF IInv, AnswerFits, FsAssertion, Panics, RV!Running
  <2>3. (TypeOK /\ box \in [Proc -> Messages])'
    BY <1>5 DEF TypeOK, IpcTypes, RestTypes, Doings
  <2> QED
    BY <1>6, <1>8, <2>1, <2>2, <2>3 DEF IInv, Panics
<1>9. CASE ~Panics
  <2>1. \/ Delivers(TASK_TTY, TASK_FS, n) /\ st[TASK_FS] \in {RecvOf(ANY), RecvOf(TASK_TTY)}
        \/ /\ Parks(TASK_TTY, TASK_FS, n)
           /\ st[TASK_FS] \notin {RecvOf(ANY), RecvOf(TASK_TTY), SendTo(TASK_TTY)}
    BY <1>2, <1>9, TellFs
  <2>2. \A q \in User : About(n, q) <=> q = fsSrc
    BY <1>7, AboutFacts
  <2>3. \A q \in User : InTty(q) <=> q = fsSrc
    BY <1>7, AboutFacts, DoingFacts DEF InTty
  <2>4. \A q \in User : ~InFs(q)
    <3>1. st[TASK_FS] \in {Run, RecvOf(TASK_TTY)} /\ fsPc # "dispatch"
          /\ (st[TASK_FS] = Run => fsPc = "tty")
      BY <1>7, DoingFacts DEF FsAwaits
    <3> QED
      BY <1>4, <3>1, DoingFacts DEF InFs
  <2>5. CASE st[TASK_FS] = RecvOf(TASK_TTY)
    <3>1. /\ fsPc = "reply" /\ Delivers(TASK_TTY, TASK_FS, n)
      BY <1>2, <2>1, <2>5, Places
    <3>2. /\ st'[TASK_FS] = Run /\ st'[TASK_TTY] = Run
          /\ box'[TASK_FS] = n /\ \A q \in User : st'[q] = st[q] /\ box'[q] = box[q]
          /\ UNCHANGED <<pend, stopped>>
      BY <1>2, <1>4, <3>1 DEF IpcTypes, Delivers
    <3>3. \A q \in User : Waits(q)' = Waits(q)
      BY <1>2, <3>2 DEF Waits, RV!Running
    <3>4. BlockedOK'
      BY <1>2, <3>2 DEF BlockedOK
    <3>5. RequestsOK'
      BY <1>2, <1>3, <3>2, DoingFacts DEF RequestsOK
    <3>6. FsOK'
      <4>1. TtySays(box[TASK_FS], fsSrc)'
        BY <1>1, <1>2, <3>2 DEF TtySays, Concerns
      <4> QED
        BY <1>1, <1>2, <1>7, <3>1, <3>2, <3>3, <4>1, DoingFacts DEF FsOK
    <3>7. TtyOK'
      BY <3>2, DoingFacts DEF TtyOK
    <3>8. ASSUME NEW q \in User PROVE OnePlace(q)'
      <4>1. ~InTty(q)'
        BY <3>2, DoingFacts DEF InTty
      <4>2. InFs(q)' <=> q = fsSrc /\ n.type # SUSPEND_PROC
        BY <1>1, <3>1, <3>2, DoingFacts DEF InFs
      <4>3. OnePlace(q) /\ (Suspended(q)' <=> Suspended(q) \/ (q = fsSrc /\ n.type = SUSPEND_PROC))
        BY <1>2
      <4> QED
        BY <2>3, <2>4, <3>2, <3>3, <4>1, <4>2, <4>3 DEF OnePlace
    <3> QED
      BY <1>5, <1>6, <3>4, <3>5, <3>6, <3>7, <3>8, Assembled DEF Traffic
  <2>6. CASE st[TASK_FS] # RecvOf(TASK_TTY)
    <3>1. fsPc = "tty" /\ st[TASK_FS] = Run
      BY <2>6 DEF FsAwaits
    <3>2. Parks(TASK_TTY, TASK_FS, n)
      BY <2>1, <2>6, <3>1, DoingFacts
    <3>3. /\ st'[TASK_FS] = Run /\ st'[TASK_TTY] = SendTo(TASK_FS)
          /\ box'[TASK_TTY] = n /\ \A q \in User : st'[q] = st[q] /\ box'[q] = box[q]
          /\ UNCHANGED <<pend, stopped>>
      BY <1>2, <1>4, <3>1, <3>2 DEF IpcTypes, Parks
    <3>4. \A q \in User : Waits(q)' = Waits(q)
      BY <1>2, <3>3 DEF Waits, RV!Running
    <3>5. BlockedOK'
      BY <1>2, <3>3 DEF BlockedOK
    <3>6. RequestsOK'
      BY <1>2, <1>3, <3>3, DoingFacts DEF RequestsOK
    <3>7. TtySays(box[TASK_TTY], fsSrc)'
      BY <1>1, <1>2, <3>3 DEF TtySays, Concerns
    <3>8. FsOK'
      BY <1>1, <1>2, <1>7, <3>1, <3>3, <3>4, <3>7, DoingFacts DEF FsOK, TtyAnswers
    <3>9. TtyOK'
      BY <1>1, <3>1, <3>3, <3>7, DoingFacts DEF TtyOK
    <3>10. ASSUME NEW q \in User PROVE OnePlace(q)'
      <4>1. InTty(q)' <=> q = fsSrc /\ n.type # SUSPEND_PROC
        BY <2>2, <3>3, DoingFacts DEF InTty, About
      <4>2. ~InFs(q)'
        BY <1>1, <3>1, <3>3, DoingFacts DEF InFs
      <4>3. OnePlace(q) /\ (Suspended(q)' <=> Suspended(q) \/ (q = fsSrc /\ n.type = SUSPEND_PROC))
        BY <1>2
      <4> QED
        BY <2>3, <2>4, <3>3, <3>4, <4>1, <4>2, <4>3 DEF OnePlace
    <3> QED
      BY <1>5, <1>6, <3>5, <3>6, <3>8, <3>9, <3>10, Assembled DEF Traffic
  <2> QED
    BY <2>5, <2>6
<1> QED
  BY <1>8, <1>9

\* A read takes the place of none: the terminal has one reader.
LEMMA TtyDispatchesIInv ==
  ASSUME OneReader, IInv, TtyDispatches
  PROVE  IInv'
<1>1. /\ ttyPc = "dispatch" /\ ttyPc' = "visit" /\ tty' = 0 /\ ~stopped /\ st[TASK_TTY] = Run
      /\ UNCHANGED <<kb_in, ibuf, current, fsLoc, users>>
      /\ HardInt \/ TtyDoRead \/ TtyDoWrite
  BY RunsFacts, ProcFacts DEF IInv, TtyDispatches
<1>2. /\ IpcTypes /\ RestTypes /\ BlockedOK /\ Traffic
      /\ RequestsOK /\ FsOK /\ TtyOK /\ \A q \in User : OnePlace(q)
      /\ KeysSeen /\ UNCHANGED <<pc, request>>
  BY <1>1, UsersUnaware
<1>3. UNCHANGED <<fsPc, fsSrc, fsLen>>
  BY <1>1 DEF fsLoc
<1> DEFINE m == box[TASK_TTY]
<1>4. m \in Messages
  BY <1>2, ProcFacts DEF IpcTypes
<1>5. IsHardInt(m) \/ (FsAwaits /\ AsksTty(m, fsSrc))
  BY <1>1, <1>2 DEF TtyOK
<1>6. 0 \in 0 .. Cardinality(Tty) /\ current \in Nat
  BY <1>2, TtyFacts DEF RestTypes
<1>7. CASE HardInt
  <2>1. IsHardInt(m) /\ UNCHANGED <<ipc, reads>> /\ key_pressed' = FALSE
    BY <1>5, <1>7, TypeFacts DEF HardInt, AsksTty
  <2>2. UNCHANGED <<tty_procnr, tty_left_cnt, tty_trans_cnt>>
    BY <2>1 DEF reads
  <2>3. RestTypes'
    BY <1>1, <1>2, <1>3, <1>6, <2>1, <2>2 DEF RestTypes
  <2>4. KeysSeen'
    BY <1>1, <1>6 DEF KeysSeen
  <2>5. ReadsOK'
    BY <1>2, <2>2 DEF TtyOK, ReadsOK
  <2> QED
    BY <1>1, <2>1, <2>2, <2>3, <2>4, <2>5, QuietIInv
<1>8. ASSUME m.type \in {DEV_READ, DEV_WRITE}
      PROVE  /\ FsAwaits /\ AsksTty(m, fsSrc)
             /\ fsSrc \in User /\ Waits(fsSrc)
             /\ request[fsSrc].type \in Does[fsSrc] /\ request[fsSrc].CNT \in Counts
             /\ request[fsSrc].type = IF m.type = DEV_READ THEN READ ELSE WRITE
             /\ m.source = TASK_FS /\ m.PROC_NR = fsSrc
             /\ m.DEVICE = TtyOf[fsSrc] /\ m.CNT = request[fsSrc].CNT
  <2>1. FsAwaits /\ AsksTty(m, fsSrc)
    BY <1>5, <1>8, TypeFacts DEF IsHardInt
  <2>2. fsSrc \in User /\ Waits(fsSrc)
    BY <1>2, <2>1, Places DEF FsOK
  <2>3. request[fsSrc].type \in Does[fsSrc] /\ request[fsSrc].CNT \in Counts
    BY <1>2, <2>2 DEF RequestsOK, Waits
  <2>4. request[fsSrc].type \in {READ, WRITE}
    BY <2>2, <2>3, TtyFacts
  <2>5. m.type = IF request[fsSrc].type = READ THEN DEV_READ ELSE DEV_WRITE
    BY <2>1 DEF AsksTty
  <2>6. request[fsSrc].type = IF m.type = DEV_READ THEN READ ELSE WRITE
    BY <2>4, <2>5, TypeFacts
  <2> QED
    BY <2>1, <2>2, <2>3, <2>6 DEF AsksTty, Concerns
\* The message TTY answers with.
<1>9. ASSUME NEW type \in {SUSPEND_PROC, SYSCALL_RET}, m.type \in {DEV_READ, DEV_WRITE},
             type = IF m.type = DEV_READ THEN SUSPEND_PROC ELSE SYSCALL_RET
      PROVE  LET n == [m EXCEPT !.source = TASK_TTY, !.type = type]
             IN  n \in Messages /\ n.type = type /\ TtySays(n, fsSrc)
  <2> DEFINE n == [m EXCEPT !.source = TASK_TTY, !.type = type]
  <2>1. type \in MessageTypes /\ TASK_TTY \in Proc
    BY ProcFacts DEF MessageTypes
  <2>2. /\ n \in Messages /\ n.source = TASK_TTY /\ n.type = type /\ n.DEVICE = m.DEVICE
        /\ n.PROC_NR = m.PROC_NR /\ n.CNT = m.CNT
    BY <1>4, <2>1 DEF Messages, MessageTypes
  <2>3. /\ m.PROC_NR = fsSrc /\ m.DEVICE = TtyOf[fsSrc] /\ m.CNT = request[fsSrc].CNT
        /\ type = IF request[fsSrc].type = READ THEN SUSPEND_PROC ELSE SYSCALL_RET
    BY <1>8, <1>9, TypeFacts
  <2> HIDE DEF n
  <2>4. TtySays(n, fsSrc)
    BY <2>2, <2>3 DEF TtySays, Concerns
  <2> QED
    BY <2>2, <2>4 DEF n
<1>10. CASE TtyDoRead
  <2> DEFINE n == [m EXCEPT !.source = TASK_TTY, !.type = SUSPEND_PROC]
             d == TtyOf[fsSrc]
  <2>1. /\ m.type = DEV_READ
        /\ tty_procnr' = [tty_procnr EXCEPT ![m.DEVICE] = m.PROC_NR]
        /\ tty_left_cnt' = [tty_left_cnt EXCEPT ![m.DEVICE] = m.CNT]
        /\ tty_trans_cnt' = [tty_trans_cnt EXCEPT ![m.DEVICE] = 0]
        /\ RV!Send(TASK_TTY, m.source, n) /\ UNCHANGED key_pressed
    BY <1>10 DEF TtyDoRead, Answer
  <2>2. /\ FsAwaits /\ AsksTty(m, fsSrc) /\ fsSrc \in User /\ Waits(fsSrc)
        /\ request[fsSrc].type = READ /\ READ \in Does[fsSrc] /\ request[fsSrc].CNT \in Counts
        /\ m.source = TASK_FS /\ m.PROC_NR = fsSrc
        /\ m.DEVICE = d /\ m.CNT = request[fsSrc].CNT
    BY <1>8, <2>1
  <2>3. n \in Messages /\ n.type = SUSPEND_PROC /\ TtySays(n, fsSrc)
    BY <1>9, <2>1
  <2> HIDE DEF n
  <2>4. d \in Tty /\ request[fsSrc].CNT \in 0 .. Biggest /\ request[fsSrc].CNT > 0 /\ Biggest \in Nat
    <3>1. \A c \in Counts : c \in Nat /\ c > 0 /\ c <= Biggest
      BY TtyFacts, BiggestFacts
    <3>2. Biggest \in Nat
      BY <3>1, BiggestFacts
    <3>3. d \in Tty
      BY <2>2, TtyFacts
    <3> HIDE DEF d
    <3> DEFINE c == request[fsSrc].CNT
    <3>4. c \in Counts
      BY <2>2
    <3> HIDE DEF c
    <3>5. c \in 0 .. Biggest /\ c > 0
      BY <3>1, <3>2, <3>4
    <3> QED
      BY <3>2, <3>3, <3>5 DEF c
  <2>5. /\ tty_procnr'[d] = fsSrc /\ tty_left_cnt'[d] = request[fsSrc].CNT /\ tty_trans_cnt'[d] = 0
        /\ \A t \in Tty \ {d} : /\ tty_procnr'[t] = tty_procnr[t]
                                /\ tty_left_cnt'[t] = tty_left_cnt[t]
                                /\ tty_trans_cnt'[t] = tty_trans_cnt[t]
        /\ tty_procnr' \in [Tty -> User \cup {NO_TASK}]
        /\ tty_left_cnt' \in [Tty -> 0 .. Biggest] /\ tty_trans_cnt' \in [Tty -> 0 .. Biggest]
    <3>1. /\ tty_procnr \in [Tty -> User \cup {NO_TASK}]
          /\ tty_left_cnt \in [Tty -> 0 .. Biggest] /\ tty_trans_cnt \in [Tty -> 0 .. Biggest]
      BY <1>2 DEF RestTypes
    <3> QED
      BY <2>1, <2>2, <2>4, <3>1
  <2>6. \A t \in Tty : tty_left_cnt'[t] + tty_trans_cnt'[t] <= Biggest
    <3>1. \A t \in Tty : tty_left_cnt[t] + tty_trans_cnt[t] <= Biggest
      BY <1>2 DEF RestTypes
    <3> QED
      BY <2>4, <2>5, <3>1
  <2>7. RestTypes'
    BY <1>1, <1>2, <1>3, <1>6, <2>1, <2>5, <2>6 DEF RestTypes
  <2>8. ReadsOK'
    <3>1. ReadsOK /\ request[fsSrc].CNT \in Nat
      BY <1>2, <2>4 DEF TtyOK
    <3> QED
      BY <1>2, <2>2, <2>5, <3>1 DEF ReadsOK
  <2>9. \A q \in User : Suspended(q)' <=> Suspended(q) \/ (q = fsSrc /\ n.type = SUSPEND_PROC)
    <3>1. ASSUME NEW q \in User, TtyOf[q] = d, Suspended(q)
          PROVE  q = fsSrc
      <4>1. Waits(q) /\ request[q].type = READ
        BY <1>2, <2>4, <3>1 DEF OnePlace, TtyOK, ReadsOK, Suspended
      <4>2. READ \in Does[q]
        BY <1>2, <4>1 DEF RequestsOK, Waits
      <4> QED
        BY <2>2, <3>1, <4>2 DEF OneReader
    <3>2. ASSUME NEW q \in User, TtyOf[q] # d
          PROVE  (Suspended(q)' <=> Suspended(q)) /\ q # fsSrc
      BY <2>5, <3>2, TtyFacts DEF Suspended
    <3>3. ASSUME NEW q \in User, TtyOf[q] = d
          PROVE  Suspended(q)' <=> q = fsSrc
      BY <2>4, <2>5, <3>3 DEF Suspended
    <3> QED
      BY <2>3, <3>1, <3>2, <3>3
  <2>10. UNCHANGED keys
    BY <1>1, <2>1 DEF keys
  <2> QED
    BY <1>1, <2>1, <2>2, <2>3, <2>7, <2>8, <2>9, <2>10, AnswerFsIInv
<1>11. CASE TtyDoWrite
  <2> DEFINE n == [m EXCEPT !.source = TASK_TTY, !.type = SYSCALL_RET]
  <2>1. m.type = DEV_WRITE /\ UNCHANGED <<reads, key_pressed>> /\ RV!Send(TASK_TTY, m.source, n)
    BY <1>11 DEF TtyDoWrite, Answer
  <2>2. FsAwaits /\ AsksTty(m, fsSrc) /\ m.source = TASK_FS
    BY <1>8, <2>1
  <2>3. n \in Messages /\ n.type = SYSCALL_RET /\ TtySays(n, fsSrc)
    BY <1>9, <2>1, TypeFacts
  <2> HIDE DEF n
  <2>4. UNCHANGED <<keys, tty_procnr, tty_left_cnt, tty_trans_cnt>>
    BY <1>1, <2>1 DEF keys, reads
  <2>5. RestTypes'
    BY <1>1, <1>2, <1>3, <1>6, <2>1, <2>4 DEF RestTypes
  <2>6. ReadsOK'
    BY <1>2, <2>4 DEF TtyOK, ReadsOK
  <2>7. \A q \in User : Suspended(q)' <=> Suspended(q) \/ (q = fsSrc /\ n.type = SUSPEND_PROC)
    BY <2>3, <2>4, TypeFacts DEF Suspended
  <2> QED
    BY <1>1, <2>1, <2>2, <2>3, <2>4, <2>5, <2>6, <2>7, AnswerFsIInv
<1> QED
  BY <1>1, <1>7, <1>10, <1>11

\* What one key does to the counts of the read that is pending.
LEMMA CountFacts ==
  ASSUME RestTypes, tty \in Tty, tty_left_cnt[tty] > 0, NEW k
  PROVE  /\ Left(k) \in 0 .. Biggest /\ Trans(k) \in 0 .. Biggest
         /\ Left(k) + Trans(k) = tty_left_cnt[tty] + tty_trans_cnt[tty]
         /\ LeftAfter(k) \in 0 .. Biggest
         /\ LeftAfter(k) + Trans(k) <= Biggest
         /\ ~LineDone(k) => LeftAfter(k) > 0 /\ LeftAfter(k) = Left(k)
         /\ LineDone(k) => LeftAfter(k) = 0
<1> DEFINE l == tty_left_cnt[tty]
           r == tty_trans_cnt[tty]
<1>1. l \in 0 .. Biggest /\ r \in 0 .. Biggest /\ l + r <= Biggest /\ l > 0
  BY DEF RestTypes
<1>2. Biggest \in Nat
  BY BiggestFacts, TtyFacts
<1>3. /\ Left(k) = IF k = CHAR THEN l - 1 ELSE IF k = BACKSPACE /\ r > 0 THEN l + 1 ELSE l
      /\ Trans(k) = r + l - Left(k)
  BY DEF Left, Trans
<1> HIDE DEF l, r
<1>4. Left(k) \in {l - 1, l} \/ (Left(k) = l + 1 /\ r > 0)
  BY <1>3
<1>5. /\ Left(k) \in 0 .. Biggest /\ Trans(k) \in 0 .. Biggest
      /\ Left(k) + Trans(k) = l + r
  BY <1>1, <1>2, <1>3, <1>4
<1>6. /\ LeftAfter(k) \in 0 .. Biggest /\ LeftAfter(k) + Trans(k) <= Biggest
      /\ ~LineDone(k) => LeftAfter(k) > 0 /\ LeftAfter(k) = Left(k)
      /\ LineDone(k) => LeftAfter(k) = 0
  <2>1. CASE LineDone(k)
    BY <1>2, <1>5, <2>1 DEF LeftAfter
  <2>2. CASE ~LineDone(k)
    <3>1. LeftAfter(k) = Left(k) /\ Left(k) # 0
      BY <2>2 DEF LeftAfter, LineDone
    <3> QED
      BY <1>1, <1>2, <1>5, <2>2, <3>1
  <2> QED
    BY <2>1, <2>2
<1> QED
  BY <1>5, <1>6 DEF l, r

\* TTY resumes the process that reads the terminal.
LEMMA ResumeIInv ==
  ASSUME IInv, ~stopped, st[TASK_TTY] = Run, ttyPc = "write", UNCHANGED <<ttyLoc, fsLoc, users>>,
         RestTypes', KeysSeen', ReadsOK',
         NEW p \in User, Suspended(p),
         NEW n \in Messages, Resumes(n, p), RV!Send(TASK_TTY, TASK_FS, n),
         \A q \in User : Suspended(q)' <=> Suspended(q) /\ q # p
  PROVE  IInv'
<1>1. UNCHANGED <<fsPc, fsSrc, fsLen, ttyPc, tty>>
  BY DEF ttyLoc, fsLoc
<1>2. /\ IpcTypes /\ RestTypes /\ BlockedOK /\ Traffic
      /\ RequestsOK /\ FsOK /\ TtyOK /\ \A q \in User : OnePlace(q)
      /\ KeysSeen /\ UNCHANGED <<pc, request>>
  BY UsersUnaware
<1>3. \A q, x : /\ Asks(x, q)' = Asks(x, q) /\ AsksTty(x, q)' = AsksTty(x, q)
                /\ TtySays(x, q)' = TtySays(x, q)
                /\ Resumes(x, q)' = Resumes(x, q) /\ Answers(x, q)' = Answers(x, q)
  BY UsersUnaware
<1>4. TASK_TTY \in Proc \ {TASK_FS} /\ User \subseteq Proc \ {TASK_FS, TASK_TTY} /\ TASK_FS \in Proc
  BY ProcFacts
<1>5. IpcTypes'
  BY <1>2, <1>4, SendKeepsTypes
<1>6. OnePlace(p) /\ Waits(p) /\ ~InFs(p)
  BY <1>2 DEF OnePlace
<1>7. ~FsAwaits /\ \A q \in User : ~InTty(q)
  <2>1. ~TtyAsked /\ ~TtyAnswers
    BY DoingFacts DEF TtyAsked, TtyAnswers
  <2> QED
    BY <1>2, <2>1, DoingFacts DEF FsAwaits, FsOK, InTty
<1>8. CASE Panics
  <2>1. BlockedOK'
    BY <1>1, <1>2, <1>8 DEF BlockedOK, Panics
  <2>2. AnswerFits' /\ FsAssertion'
    BY <1>1, <1>2, <1>8 DEF IInv, AnswerFits, FsAssertion, Panics, RV!Running
  <2>3. (TypeOK /\ box \in [Proc -> Messages])'
    BY <1>5 DEF TypeOK, IpcTypes, RestTypes, Doings
  <2> QED
    BY <1>8, <2>1, <2>2, <2>3 DEF IInv, Panics
<1>9. CASE ~Panics
  <2>1. \/ Delivers(TASK_TTY, TASK_FS, n) /\ st[TASK_FS] \in {RecvOf(ANY), RecvOf(TASK_TTY)}
        \/ /\ Parks(TASK_TTY, TASK_FS, n)
           /\ st[TASK_FS] \notin {RecvOf(ANY), RecvOf(TASK_TTY), SendTo(TASK_TTY)}
    BY <1>2, <1>9, TellFs
  <2>2. st[TASK_FS] # RecvOf(TASK_TTY)
    BY <1>7 DEF FsAwaits
  <2>3. CASE st[TASK_FS] = RecvOf(ANY)
    <3>1. fsPc = "dispatch" /\ Delivers(TASK_TTY, TASK_FS, n)
      BY <1>2, <2>1, <2>3, Places
    <3>2. /\ st'[TASK_FS] = Run /\ st'[TASK_TTY] = Run
          /\ box'[TASK_FS] = n /\ \A q \in User : st'[q] = st[q] /\ box'[q] = box[q]
          /\ UNCHANGED <<pend, stopped>>
      BY <1>2, <1>4, <3>1 DEF IpcTypes, Delivers
    <3>3. \A q \in User : Waits(q)' = Waits(q)
      BY <1>2, <3>2 DEF Waits, RV!Running
    <3>4. BlockedOK'
      BY <1>2, <3>2 DEF BlockedOK
    <3>5. RequestsOK'
      BY <1>2, <1>3, <3>2, DoingFacts DEF RequestsOK
    <3>6. FsOK'
      <4>1. (\E q \in User : Waits(q) /\ (Asks(box[TASK_FS], q) \/ Resumes(box[TASK_FS], q)))'
        BY <1>2, <1>6, <3>2, <3>3 DEF Resumes
      <4> QED
        BY <1>1, <3>1, <3>2, <4>1, DoingFacts DEF FsOK
    <3>7. TtyOK'
      BY <1>1, <3>2, DoingFacts DEF TtyOK
    <3>8. ASSUME NEW q \in User PROVE OnePlace(q)'
      <4>1. ~InTty(q)'
        BY <1>1, <3>2, DoingFacts DEF InTty
      <4>2. About(n, q) <=> q = p
        BY AboutFacts
      <4>3. InFs(q)' <=> q = p
        BY <1>1, <1>4, <3>1, <3>2, <4>2, DoingFacts DEF InFs, About
      <4>4. ~InFs(q)
        BY <1>4, <2>3, <3>1, DoingFacts, ProcFacts DEF InFs
      <4>5. OnePlace(q) /\ (Suspended(q)' <=> Suspended(q) /\ q # p)
        BY <1>2
      <4> QED
        BY <1>6, <1>7, <3>2, <3>3, <4>1, <4>3, <4>4, <4>5 DEF OnePlace
    <3> QED
      BY <1>5, <3>4, <3>5, <3>6, <3>7, <3>8, Assembled DEF Traffic
  <2>4. CASE st[TASK_FS] # RecvOf(ANY)
    <3>1. Parks(TASK_TTY, TASK_FS, n) /\ st[TASK_FS] # SendTo(TASK_TTY)
      BY <2>1, <2>2, <2>4
    <3>2. /\ st'[TASK_FS] = st[TASK_FS] /\ st'[TASK_TTY] = SendTo(TASK_FS)
          /\ box'[TASK_TTY] = n /\ box'[TASK_FS] = box[TASK_FS]
          /\ \A q \in User : st'[q] = st[q] /\ box'[q] = box[q]
          /\ UNCHANGED <<pend, stopped>>
      BY <1>2, <1>4, <3>1 DEF IpcTypes, Parks
    <3>3. \A q \in User : Waits(q)' = Waits(q)
      BY <1>2, <3>2 DEF Waits, RV!Running
    <3>4. BlockedOK'
      BY <1>1, <1>2, <3>2 DEF BlockedOK
    <3>5. RequestsOK'
      BY <1>2, <1>3, <3>2 DEF RequestsOK
    <3>6. ~FsAwaits'
      BY <1>1, <1>7, <3>2 DEF FsAwaits
    <3>7. FsOK'
      <4>1. (fsPc = "dispatch" /\ st[TASK_FS] = Run =>
               \E q \in User : Waits(q) /\ (Asks(box[TASK_FS], q) \/ Resumes(box[TASK_FS], q)))'
        BY <1>1, <1>2, <1>3, <3>2, <3>3 DEF FsOK
      <4>2. (fsPc \in {"tty", "reply"} => fsSrc \in User /\ Waits(fsSrc) /\ fsLen = request[fsSrc].CNT)'
        BY <1>1, <1>2, <3>3 DEF FsOK
      <4>3. (fsPc = "reply" /\ st[TASK_FS] = Run => TtySays(box[TASK_FS], fsSrc))'
        BY <1>1, <1>2, <1>3, <3>2 DEF FsOK
      <4> QED
        BY <2>4, <3>1, <3>2, <3>6, <4>1, <4>2, <4>3 DEF FsOK, FsAwaits
    <3>8. TtyOK'
      <4>1. (\E q \in User : Waits(q) /\ Resumes(box[TASK_TTY], q))'
        BY <1>2, <1>6, <3>2, <3>3 DEF Resumes
      <4> QED
        BY <1>1, <3>2, <3>6, <4>1, DoingFacts DEF TtyOK
    <3>9. ASSUME NEW q \in User PROVE OnePlace(q)'
      <4>1. (About(n, q) <=> q = p) /\ n.type # SUSPEND_PROC
        BY AboutFacts
      <4>2. InTty(q)' <=> q = p
        BY <1>1, <3>2, <4>1, DoingFacts DEF InTty, About
      <4>3. InFs(q)' <=> InFs(q)
        BY <1>1, <3>2 DEF InFs, About
      <4>4. OnePlace(q) /\ (Suspended(q)' <=> Suspended(q) /\ q # p)
        BY <1>2
      <4> QED
        BY <1>6, <1>7, <3>2, <3>3, <4>2, <4>3, <4>4 DEF OnePlace
    <3> QED
      BY <1>5, <3>4, <3>5, <3>7, <3>8, <3>9, Assembled DEF Traffic
  <2> QED
    BY <2>3, <2>4
<1> QED
  BY <1>8, <1>9

LEMMA TtyWritesIInv ==
  ASSUME IInv, TtyWrites
  PROVE  IInv'
<1> DEFINE k == Head(ibuf[tty])
           l == tty_left_cnt[tty]
<1>1. /\ ttyPc = "write" /\ ~stopped /\ st[TASK_TTY] = Run /\ ibuf[tty] # <<>>
      /\ UNCHANGED <<kb_in, key_pressed, current, tty_procnr, ttyLoc, fsLoc, users>>
      /\ ibuf' = [ibuf EXCEPT ![tty] = Tail(@)]
  BY RunsFacts, ProcFacts DEF IInv, TtyWrites
<1>2. /\ IpcTypes /\ RestTypes /\ BlockedOK /\ Traffic
      /\ RequestsOK /\ FsOK /\ TtyOK /\ \A q \in User : OnePlace(q)
      /\ KeysSeen /\ UNCHANGED <<pc, request>>
  BY <1>1, UsersUnaware
<1>3. UNCHANGED <<fsPc, fsSrc, fsLen, ttyPc, tty>>
  BY <1>1 DEF fsLoc, ttyLoc
<1>4. tty \in Tty /\ ReadsOK
  BY <1>1, <1>2 DEF RestTypes, TtyOK
<1>5. ibuf' \in [Tty -> Seq(Key \ Switches)] /\ \A t \in Tty : Len(ibuf'[t]) <= TTY_IN_BYTES
  <2>1. ibuf \in [Tty -> Seq(Key \ Switches)] /\ \A t \in Tty : Len(ibuf[t]) <= TTY_IN_BYTES
    BY <1>2 DEF RestTypes
  <2> DEFINE s == ibuf[tty]
  <2>2. s \in Seq(Key \ Switches) /\ s # <<>> /\ Len(s) <= TTY_IN_BYTES /\ TTY_IN_BYTES \in Nat
    BY <1>1, <1>4, <2>1, TtyFacts
  <2>3. ibuf' = [ibuf EXCEPT ![tty] = Tail(s)]
    BY <1>1
  <2> HIDE DEF s
  <2>4. Tail(s) \in Seq(Key \ Switches) /\ Len(Tail(s)) <= TTY_IN_BYTES
    BY <2>2
  <2> QED
    BY <2>1, <2>3, <2>4
<1>6. CASE ~(l > 0)
  <2>1. UNCHANGED <<ipc, tty_left_cnt, tty_trans_cnt>>
    BY <1>6 DEF TtyWrites
  <2>2. UNCHANGED pend
    BY <2>1 DEF ipc
  <2>3. RestTypes'
    BY <1>1, <1>2, <1>3, <1>5, <2>1 DEF RestTypes
  <2>4. KeysSeen' /\ ReadsOK'
    BY <1>1, <1>2, <1>3, <1>4, <2>1, <2>2 DEF KeysSeen, ReadsOK
  <2> QED
    BY <1>1, <1>3, <2>1, <2>3, <2>4, QuietIInv
<1>7. CASE l > 0
  <2>1. /\ tty_left_cnt' = [tty_left_cnt EXCEPT ![tty] = LeftAfter(k)]
        /\ tty_trans_cnt' = [tty_trans_cnt EXCEPT ![tty] = Trans(k)]
        /\ IF LineDone(k) THEN RV!Send(TASK_TTY, TASK_FS, Resume(k)) ELSE UNCHANGED ipc
    BY <1>7 DEF TtyWrites
  <2>2. /\ Left(k) \in 0 .. Biggest /\ Trans(k) \in 0 .. Biggest
        /\ Left(k) + Trans(k) = tty_left_cnt[tty] + tty_trans_cnt[tty]
        /\ LeftAfter(k) \in 0 .. Biggest
        /\ LeftAfter(k) + Trans(k) <= Biggest
        /\ ~LineDone(k) => LeftAfter(k) > 0 /\ LeftAfter(k) = Left(k)
        /\ LineDone(k) => LeftAfter(k) = 0
    BY <1>2, <1>4, <1>7, CountFacts
  <2> HIDE DEF k
  <2>3. /\ tty_left_cnt \in [Tty -> 0 .. Biggest] /\ tty_trans_cnt \in [Tty -> 0 .. Biggest]
        /\ \A t \in Tty : tty_left_cnt[t] + tty_trans_cnt[t] <= Biggest
    BY <1>2 DEF RestTypes
  <2>4. /\ tty_left_cnt'[tty] = LeftAfter(k) /\ tty_trans_cnt'[tty] = Trans(k)
        /\ \A t \in Tty \ {tty} : /\ tty_left_cnt'[t] = tty_left_cnt[t]
                                  /\ tty_trans_cnt'[t] = tty_trans_cnt[t]
        /\ tty_left_cnt' \in [Tty -> 0 .. Biggest] /\ tty_trans_cnt' \in [Tty -> 0 .. Biggest]
    BY <1>4, <2>1, <2>2, <2>3
  <2>5. RestTypes'
    <3>1. \A t \in Tty : tty_left_cnt'[t] + tty_trans_cnt'[t] <= Biggest
      BY <2>2, <2>3, <2>4
    <3> QED
      BY <1>1, <1>2, <1>3, <1>5, <2>4, <3>1 DEF RestTypes
  <2>6. ReadsOK'
    <3>1. tty_left_cnt'[tty] > 0 => LeftAfter(k) = Left(k)
      BY <2>2, <2>4
    <3>2. /\ tty_procnr[tty] \in User /\ TtyOf[tty_procnr[tty]] = tty
          /\ request[tty_procnr[tty]].type = READ
          /\ tty_left_cnt[tty] + tty_trans_cnt[tty] = request[tty_procnr[tty]].CNT
      BY <1>4, <1>7 DEF ReadsOK
    <3>3. ASSUME NEW t \in Tty, tty_left_cnt'[t] > 0
          PROVE  /\ tty_procnr'[t] \in User /\ TtyOf[tty_procnr'[t]] = t
                 /\ request'[tty_procnr'[t]].type = READ
                 /\ tty_left_cnt'[t] + tty_trans_cnt'[t] = request'[tty_procnr'[t]].CNT
      <4>1. CASE t = tty
        BY <1>1, <1>2, <2>2, <2>4, <3>1, <3>2, <3>3, <4>1
      <4>2. CASE t # tty
        BY <1>1, <1>2, <1>4, <2>4, <3>3, <4>2 DEF ReadsOK
      <4> QED
        BY <4>1, <4>2
    <3> QED
      BY <3>3 DEF ReadsOK
  <2>7. KeysSeen'
    <3>1. kb_in # <<>> => key_pressed \/ pend[TASK_TTY] \/ tty < current
      BY <1>1, <1>2 DEF KeysSeen
    <3>2. UNCHANGED pend
      BY <2>1, SendOutcome DEF Panics, Delivers, Parks, ipc
    <3> QED
      BY <1>1, <1>3, <3>1, <3>2 DEF KeysSeen
  <2>8. CASE ~LineDone(k)
    <3>1. UNCHANGED ipc
      BY <2>1, <2>8
    <3>2. \A t \in Tty : tty_left_cnt'[t] > 0 <=> tty_left_cnt[t] > 0
      BY <1>7, <2>2, <2>4, <2>8
    <3> QED
      BY <1>1, <1>3, <2>5, <2>6, <2>7, <3>1, <3>2, QuietIInv
  <2>9. CASE LineDone(k)
    <3> DEFINE p == tty_procnr[tty]
               n == Resume(k)
    <3>1. /\ p \in User /\ TtyOf[p] = tty /\ request[p].type = READ
          /\ tty_left_cnt[tty] + tty_trans_cnt[tty] = request[p].CNT
      BY <1>4, <1>7 DEF ReadsOK
    <3>2. Suspended(p)
      BY <1>7, <3>1 DEF Suspended
    <3>3. Trans(k) \in 0 .. request[p].CNT /\ Trans(k) \in Nat
      BY <2>2, <3>1
    <3>4. n \in Messages
      BY <1>4, <3>1, <3>3, MessageType, ProcFacts DEF Resume, MessageTypes
    <3>5. Resumes(n, p)
      BY <3>1, <3>3, MessageFacts DEF Resume, Resumes
    <3>6. RV!Send(TASK_TTY, TASK_FS, n)
      BY <2>1, <2>9
    <3> HIDE DEF n
    <3>7. \A q \in User : Suspended(q)' <=> Suspended(q) /\ q # p
      <4>1. ~(tty_left_cnt'[tty] > 0)
        BY <2>2, <2>4, <2>9
      <4>2. ASSUME NEW q \in User, TtyOf[q] = tty
            PROVE  ~Suspended(q)' /\ (Suspended(q) => q = p)
        BY <4>1, <4>2 DEF Suspended
      <4>3. ASSUME NEW q \in User, TtyOf[q] # tty
            PROVE  (Suspended(q)' <=> Suspended(q)) /\ q # p
        BY <1>1, <2>4, <3>1, <4>3, TtyFacts DEF Suspended
      <4> QED
        BY <4>2, <4>3
    <3> QED
      BY <1>1, <2>5, <2>6, <2>7, <3>1, <3>2, <3>4, <3>5, <3>6, <3>7, ResumeIInv
  <2> QED
    BY <2>8, <2>9
<1> QED
  BY <1>6, <1>7

-----------------------------------------------------------------------------
\* At first every process is in its program and nothing is under way.
LEMMA InitIInv == Init => IInv
<1> SUFFICES ASSUME Init
             PROVE  IInv
  OBVIOUS
<1> DEFINE z == [p \in Proc |-> Message(p, SYSCALL_RET, 0, p, 0)]
<1>1. z \in [Proc -> Messages]
  BY MessageType, TtyFacts DEF MessageTypes
<1>2. IpcTypes
  BY <1>1, DoingTypes DEF Init, IpcTypes, Run
<1>3. RestTypes
  <2>1. 0 \in 0 .. Biggest
    BY BiggestFacts, TtyFacts
  <2>2. 0 \in 0 .. Cardinality(Tty)
    BY TtyFacts
  <2>3. <<>> \in Seq(Key) /\ <<>> \in Seq(Key \ Switches) /\ Len(<<>>) = 0
    OBVIOUS
  <2>4. kb_in \in Seq(Key) /\ Len(kb_in) <= KB_IN_BYTES
    BY <2>3, TtyFacts DEF Init
  <2>5. ibuf \in [Tty -> Seq(Key \ Switches)] /\ \A t \in Tty : Len(ibuf[t]) <= TTY_IN_BYTES
    BY <2>3, TtyFacts DEF Init
  <2>6. /\ tty_procnr \in [Tty -> User \cup {NO_TASK}]
        /\ tty_left_cnt \in [Tty -> 0 .. Biggest] /\ tty_trans_cnt \in [Tty -> 0 .. Biggest]
        /\ \A t \in Tty : tty_left_cnt[t] + tty_trans_cnt[t] <= Biggest
    BY <2>1, BiggestFacts, TtyFacts DEF Init
  <2>7. /\ key_pressed \in BOOLEAN /\ current \in Tty
        /\ ttyPc = "visit" /\ tty \in 0 .. Cardinality(Tty)
        /\ fsPc = "loop" /\ fsSrc \in User \cup {TASK_FS} /\ fsLen \in Counts \cup {0}
        /\ pc \in [User -> {"program", "sent", "answer"}]
        /\ request \in [User -> [type : {READ, WRITE}, CNT : Counts] \cup {Nothing}]
    BY <2>2, TtyFacts DEF Init
  <2> QED
    BY <2>4, <2>5, <2>6, <2>7 DEF RestTypes
<1>4. /\ \A p \in Proc : st[p] = Run /\ ~pend[p]
      /\ \A p \in User : pc[p] = "program" /\ p \in Proc
      /\ \A t \in Tty : tty_left_cnt[t] = 0
      /\ fsPc = "loop" /\ ttyPc = "visit" /\ kb_in = <<>>
      /\ TASK_FS \in Proc /\ TASK_TTY \in Proc
  BY ProcFacts DEF Init, Run
<1>5. BlockedOK /\ KeysSeen
  BY <1>4 DEF BlockedOK, KeysSeen
<1>6. RequestsOK /\ FsOK /\ TtyOK
  BY <1>4, DoingFacts DEF RequestsOK, FsOK, TtyOK, ReadsOK
<1>7. ASSUME NEW p \in User PROVE OnePlace(p)
  <2>1. ~Waits(p)
    BY <1>4 DEF Waits
  <2>2. st[p] # SendTo(TASK_FS) /\ ~InFs(p) /\ ~InTty(p)
    BY <1>4, DoingFacts DEF InFs, InTty
  <2>3. ~Suspended(p)
    BY <1>4, TtyFacts DEF Suspended
  <2> QED
    BY <2>1, <2>2, <2>3 DEF OnePlace
<1>8. Traffic
  BY <1>6, <1>7 DEF Traffic
<1>9. TypeOK /\ box \in [Proc -> Messages]
  BY <1>2, <1>3, TypesApart
<1> QED
  BY <1>2, <1>3, <1>5, <1>8, <1>9, TrafficFits DEF IInv

LEMMA NextIInv ==
  ASSUME OneReader, IInv, [Next]_vars
  PROVE  IInv'
<1>1. CASE Next
  <2>1. ASSUME NEW p \in User, Calling(p) \/ Awaiting(p) \/ Returning(p)
        PROVE  IInv'
    BY <2>1, CallingIInv, AwaitingIInv, ReturningIInv
  <2>2. CASE FsStep
    BY <2>2, FsReceivesIInv, FsDispatchIInv, FsHearsIInv, FsRepliesIInv DEF FsStep
  <2>3. CASE TtyStep
    BY <2>3, VisitIInv, KeyboardReadsIInv, TtyWritesIInv, NextTtyIInv, TtyReceivesIInv,
       TtyDispatchesIInv DEF TtyStep
  <2> QED
    BY <1>1, <2>1, <2>2, <2>3, KeyboardInterruptIInv, ClockTickIInv DEF Next
<1>2. CASE UNCHANGED vars
  <2>1. /\ UNCHANGED <<st, box, pend, stopped>>
        /\ UNCHANGED <<kb_in, key_pressed, ibuf, current>>
        /\ UNCHANGED <<tty_procnr, tty_left_cnt, tty_trans_cnt, ttyPc, tty>>
        /\ UNCHANGED <<fsPc, fsSrc, fsLen, pc, request>>
    BY <1>2 DEF vars, ipc, keys, reads, ttyLoc, fsLoc, users
  <2>2. TypeOK' /\ (box \in [Proc -> Messages])' /\ BlockedOK' /\ KeysSeen'
    BY <2>1 DEF IInv, TypeOK, BlockedOK, KeysSeen
  <2>3. AnswerFits' /\ FsAssertion'
    BY <2>1 DEF IInv, AnswerFits, FsAssertion, RV!Running
  <2>4. stopped \/ Traffic
    BY DEF IInv
  <2>5. Traffic => RequestsOK' /\ FsOK' /\ TtyOK'
    BY <2>1 DEF Traffic, RequestsOK, FsOK, TtyOK, ReadsOK, Waits, RV!Running, TtyAsked, TtyAnswers,
                FsAwaits, IsHardInt, Asks, AsksTty, TtySays, Resumes, Answers, Concerns
  <2>6. Traffic => \A p \in User : OnePlace(p)'
    BY <2>1 DEF Traffic, OnePlace, InFs, InTty, Suspended, About, Waits, RV!Running
  <2> QED
    BY <2>1, <2>2, <2>3, <2>4, <2>5, <2>6 DEF IInv, Traffic
<1> QED
  BY <1>1, <1>2

LEMMA SpecIInv == OneReader => (Spec => []IInv)
<1> SUFFICES ASSUME OneReader PROVE Spec => []IInv
  OBVIOUS
<1>1. Init => IInv
  BY InitIInv
<1>2. IInv /\ [Next]_vars => IInv'
  BY NextIInv
<1> QED
  BY <1>1, <1>2, PTL DEF Spec

\* What has p's request is what the invariant says.
LEMMA CarriersAre ==
  ASSUME BlockedOK, ReadsOK, NEW p \in User
  PROVE  Carriers(p) = {q \in {p} : st[p] = SendTo(TASK_FS)} \cup {q \in {TASK_FS} : InFs(p)}
                       \cup {q \in {TASK_TTY} : InTty(p)} \cup {t \in {TtyOf[p]} : Suspended(p)}
<1>1. /\ RV!SendsTo(p, TASK_FS) <=> st[p] = SendTo(TASK_FS)
      /\ RV!SendsTo(TASK_FS, TASK_TTY) <=> st[TASK_FS] = SendTo(TASK_TTY)
      /\ RV!SendsTo(TASK_FS, p) <=> st[TASK_FS] = SendTo(p)
      /\ RV!SendsTo(TASK_TTY, TASK_FS) <=> st[TASK_TTY] = SendTo(TASK_FS)
      /\ RV!Running(TASK_FS) <=> st[TASK_FS] = Run
      /\ RV!Running(TASK_TTY) <=> st[TASK_TTY] = Run
  BY Blocking, ProcFacts DEF RV!SendsTo, RV!Running, SendTo
<1>2. st[TASK_FS] = SendTo(TASK_TTY) => fsPc = "tty"
  BY Places
<1>3. \A t \in Tty : tty_procnr[t] = p /\ tty_left_cnt[t] > 0 <=> t = TtyOf[p] /\ Suspended(p)
  BY TtyFacts DEF ReadsOK, Suspended
<1>4. {t \in Tty : tty_procnr[t] = p /\ tty_left_cnt[t] > 0} = {t \in {TtyOf[p]} : Suspended(p)}
  BY <1>3, TtyFacts
<1> DEFINE FsHas(q) == \/ fsPc = "dispatch" /\ RV!Running(q) /\ About(box[q], p)
                       \/ fsPc = "tty" /\ RV!SendsTo(q, TASK_TTY) /\ fsSrc = p
                       \/ /\ fsPc = "reply" /\ RV!Running(q) /\ fsSrc = p
                          /\ box[q].type # SUSPEND_PROC
                       \/ RV!SendsTo(q, p)
           TtyHas(q) == \/ ttyPc = "dispatch" /\ RV!Running(q) /\ About(box[q], p)
                        \/ /\ RV!SendsTo(q, TASK_FS) /\ box[q].type # SUSPEND_PROC
                           /\ About(box[q], p)
<1>5. FsHas(TASK_FS) <=> InFs(p)
  BY <1>1, <1>2 DEF InFs
<1>6. TtyHas(TASK_TTY) <=> InTty(p)
  BY <1>1 DEF InTty
<1>7. Carriers(p) = {q \in {p} : RV!SendsTo(p, TASK_FS)} \cup {q \in {TASK_FS} : FsHas(q)}
                    \cup {q \in {TASK_TTY} : TtyHas(q)}
                    \cup {t \in Tty : tty_procnr[t] = p /\ tty_left_cnt[t] > 0}
  BY Zenon DEF Carriers
<1> HIDE DEF FsHas, TtyHas
<1>8. /\ {q \in {TASK_FS} : FsHas(q)} = {q \in {TASK_FS} : InFs(p)}
      /\ {q \in {TASK_TTY} : TtyHas(q)} = {q \in {TASK_TTY} : InTty(p)}
      /\ {q \in {p} : RV!SendsTo(p, TASK_FS)} = {q \in {p} : st[p] = SendTo(TASK_FS)}
  BY <1>1, <1>5, <1>6
<1> QED
  BY <1>4, <1>7, <1>8

LEMMA OneCarrier ==
  ASSUME BlockedOK, Traffic, NEW p \in User
  PROVE  Cardinality(Carriers(p)) = IF Waits(p) THEN 1 ELSE 0
<1>1. OnePlace(p) /\ ReadsOK
  BY DEF Traffic, TtyOK
<1>2. Carriers(p) = {q \in {p} : st[p] = SendTo(TASK_FS)} \cup {q \in {TASK_FS} : InFs(p)}
                    \cup {q \in {TASK_TTY} : InTty(p)} \cup {t \in {TtyOf[p]} : Suspended(p)}
  BY <1>1, CarriersAre
<1>3. CASE Waits(p)
  <2>1. \E x : Carriers(p) = {x}
    <3>1. CASE st[p] = SendTo(TASK_FS)
      <4>1. Carriers(p) = {p}
        BY <1>1, <1>2, <3>1 DEF OnePlace
      <4> QED
        BY <4>1
    <3>2. CASE InFs(p)
      <4>1. Carriers(p) = {TASK_FS}
        BY <1>1, <1>2, <3>2 DEF OnePlace
      <4> QED
        BY <4>1
    <3>3. CASE InTty(p)
      <4>1. Carriers(p) = {TASK_TTY}
        BY <1>1, <1>2, <3>3 DEF OnePlace
      <4> QED
        BY <4>1
    <3>4. CASE Suspended(p)
      <4>1. Carriers(p) = {TtyOf[p]}
        BY <1>1, <1>2, <3>4 DEF OnePlace
      <4> QED
        BY <4>1
    <3> QED
      BY <1>1, <1>3, <3>1, <3>2, <3>3, <3>4 DEF OnePlace
  <2> QED
    BY <1>3, <2>1, FS_Singleton
<1>4. CASE ~Waits(p)
  <2>1. Carriers(p) = {}
    BY <1>1, <1>2, <1>4 DEF OnePlace
  <2> QED
    BY <1>4, <2>1, FS_EmptySet
<1> QED
  BY <1>3, <1>4

-----------------------------------------------------------------------------
\* The variables keep their types, the two key buffers and the counts of a
\* read their bounds (kernel/tty.c, kernel/keyboard.c).
THEOREM TypesKept == OneReader => (Spec => []TypeOK)
<1>1. IInv => TypeOK
  BY DEF IInv
<1> QED
  BY <1>1, SpecIInv, PTL

\* A process that waits for read() or write() gets exactly one answer, of FS
\* and with its own count, and FS hears of TTY what it asked (fs/main.c:70-72,
\* 124-128, fs/read_write.c:69-70).
THEOREM ReadersAnswered == OneReader => (Spec => []RequestsAnswered)
<1>1. IInv => RequestsAnswered
  <2> SUFFICES ASSUME IInv PROVE RequestsAnswered
    OBVIOUS
  <2>1. AnswerFits /\ FsAssertion /\ BlockedOK /\ (stopped \/ Traffic)
    BY DEF IInv
  <2>2. OneAnswer
    BY <2>1, OneCarrier DEF OneAnswer
  <2> QED
    BY <2>1, <2>2 DEF RequestsAnswered
<1> QED
  BY <1>1, SpecIInv, PTL

\* No key is left in the keyboard buffer while TTY sleeps and nothing will
\* wake it: key_pressed is reset before the buffer is read (kernel/tty.c:127-133,
\* kernel/clock.c:40).
THEOREM KeysAreSeen == OneReader => (Spec => []KeysNotStuck)
<1>1. IInv => KeysNotStuck
  <2> SUFFICES ASSUME IInv, kb_in # <<>>, st[TASK_TTY].op = "recv"
               PROVE  key_pressed \/ pend[TASK_TTY]
    BY DEF KeysNotStuck
  <2>1. BlockedOK /\ KeysSeen
    BY DEF IInv
  <2>2. st[TASK_TTY] = RecvOf(ANY) /\ st[TASK_TTY] # Run
    BY <2>1, Blocking, DoingFacts
  <2>3. ttyPc = "dispatch"
    BY <2>1, <2>2, Places
  <2> QED
    BY <2>1, <2>2, <2>3 DEF KeysSeen
<1> QED
  BY <1>1, SpecIInv, PTL
=============================================================================
