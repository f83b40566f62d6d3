# A formal model of noxisOS

TLA+ modules of this repository's operating systems, the TLC configurations that check them, and
theorems that TLAPS proves for every value of the constants.

1. [The system](#1-the-system) 2. [Modules](#2-modules) 3. [Runs](#3-runs) 4. [Bounds](#4-bounds)
5. [Fairness](#5-fairness) 6. [Theorems](#6-theorems) 7. [What the checks found](#7-what-the-checks-found)
8. [Not modelled](#8-not-modelled) 9. [What is left](#9-what-is-left)

## 1. The system

The repository holds several systems. The one with the most logic of its own is **25-osfs11**, a 32-bit
message-passing kernel: ring-1 tasks (TTY, SYS, HD, FS, MM, GFX, DESKTOP, NET) and user processes talk
only through `sendrec()`, which runs with interrupts masked and blocks its caller. **23-fixes** (noxis) is
a smaller kernel with a weighted round-robin scheduler and an ARP/IP stack on an NE2000 card. **26-PRos**
is a 16-bit, single-threaded system in assembly. Folders 00 to 22 are the lessons that lead to 23-fixes;
24-el-capitan and noxis-linux hold documentation and a Linux image.

| component | state | operations | talks to | hard parts | what makes it correct |
|---|---|---|---|---|---|
| IPC, scheduler (`kernel/proc.c`, `clock.c`) | process table: flags, partner, buffer, sending queue, ticks; `p_proc_ready` | send, receive, inform_int, schedule, clock tick | everybody | interrupts against half-done state, send circles, starvation | messages go from their sender to the one named, once and in order; no wake-up is lost; a runnable process runs; no assertion fails |
| MM (`mm/`) with the stubs (`lib/fork.c` ...) | WAITING, HANGING, FREE_SLOT, parents, exit status | fork, exit, wait, exec | FS, parents, children | several messages per call, callers between their two system calls, zombies and orphans | every call is answered once, with MM's message, in the caller's own memory; wait() reports a child that exited; zombies are reaped |
| terminals (`kernel/tty.c`, FS) | keyboard buffer, `key_pressed`, a buffer and a pending read per terminal, current console | IRQ1, tick, read, write, suspend, resume | FS, clock, processes | reads answered later and by a third party, interrupt against task, full buffers | each request has one answer coming; keys wake TTY; a line reaches its reader |
| files (`fs/`) | descriptors, inode cache, bitmaps, directory, disk blocks | open, close, read, write, seek, stat, unlink, fork, exit, mkfs, mount | HD, MM, TTY | reference counts over fork, exit and failures; updates of many sectors; power failures | counts equal the references; no two files share a sector; the bytes asked for are moved, and no others |
| disk log (`fs/disklog.c`) | log position, saved priorities | freeze, dump, log, thaw, after each unlink() | HD, SYS, scheduler | it takes the processor from everybody while it needs the disk | one moment is dumped, the log is its text, priorities come back, somebody can run |
| disk (`kernel/hd.c`) | command, status, partition table | open, read, write, ioctl, IRQ14 | FS, SYS (ticks) | an interrupt before or after the wait for it, none at all, sector counts | each sector of a request is moved once and in order; every request is answered |
| first process, shell (`kernel/main.c`) | archive position, command line | untar, split, power loss | FS, MM, TTY | the same archive is extracted again until it is marked | commands are whole; edits survive; arguments are the words |
| SYS (`kernel/systask.c`) | the clock chip | get_ticks, get_pid, RTC, power off | everybody | the chip ticks between two registers | the time is not ahead of the clock |
| keyboard, mouse (`kernel/{keyboard,mouse}.c`) | byte buffers, modifiers, packet position, pointer | interrupts, decode | TTY, desktop | lost bytes, prefixes, overflow | a key is what was meant; packets are found again |
| console, graphics (`kernel/{console,vga,gfx}.c`) | ring of lines, cursor, card registers, owner of graphics | output, scroll, switch, enter, blit, leave | TTY, desktop, GFX | two owners, a card with locks and two-faced ports, output during graphics | the end of the text is shown; text mode comes back as it was; one owner |
| desktop (`kernel/{desktop,wm}.c`) | windows and their order, drag, file list, terminal grid, input line | keys, clicks, commands | TTY, FS, NET | copies that commands change behind the view | a press hits what is seen; the list is the directory; the line run is the line shown |
| network (`net/`) | card and software ring, ARP table and pending request, DNS and ping state | poll, IRQ, send, resolve, ping | desktop, SYS | the ring has two drains, answers come late, cut or never | frames in order, once; every wait ends; the address taken is the one answered |
| noxis tasks (`23-fixes/cpu/`) | task slots, quantum, wake ticks, stacks | create, kill, sleep, yield, tick | timer, shell | sleep and kill against tick, slot reuse | table and stacks agree; quanta are respected; a killed task ends |
| noxis network (`23-fixes/net/`, `drivers/shell.c`) | software ring, ARP table, counters | IRQ, PING, ARP | timer, keyboard IRQ | a command that waits with interrupts off; shared answer flag | frames are accounted; fresh answers are counted; waits end |

`PROJECT.json` lists each with its files, every definition with the lines it models, and every hazard
with its line and the properties that cover it or the reason why none does.

## 2. Modules

    Rendezvous  <--refines--  Ipc  <-- MCIpcLive, IpcProofs
        ^
        +-- ProcLife  <-- ProcLifeProofs       (MM, FS and the library stubs)
        +-- TtyFs  <-- MCTtyFs, TtyFsProofs    (keyboard, clock, TTY, FS and the readers)

    MCServices  -->  FsRdwt, DiskLog, Install, SysTask, KeyDecode, Mouse, VgaText,
                     Windows, Explorer, Terminal, NetNames, NoxisNet
    MCDevices   -->  Hd, NicRing, NetServer, Console, Graphics, TaskSched
    MCKernel    -->  Ipc, FsFiles
    MCUnlink -> FsFiles,  MCUnlinkDump -> DiskLog

    FsFilesProofs  -->  FsFiles, FsRdwt, Install
    ServerProofs   -->  SysTask, DiskLog, NetServer, Hd, NicRing
    DesktopProofs  -->  VgaText, Mouse, Graphics, Windows, KeyDecode, Terminal, Console
    NoxisProofs    -->  TaskSched, NoxisNet
    Recursion      <--  FsFilesProofs, ServerProofs     (lemmas about recursive functions)

**Rendezvous** is what `sendrec()` promises: a message passes in one step from a process that sends it to
one that receives from it, whoever came first; an interrupt is one remembered bit; a send circle stops
the machine. It says nothing of scheduling or queue order.

**Ipc** is the kernel. A system call is one action (`sys_sendrec` masks interrupts and only *selects* the
next process): `SendDelivers`, `SendBlocks`, `SendPanics`, `ReceiveInt`, `ReceiveTakes`, `ReceiveBlocks`.
An interrupt is one action, at ring 1-3 or on top of a system call, where `clock_handler()` returns before
`schedule()`. The variables carry the names of `struct proc`; `q_sending[d]` is the list that starts at
`q_sending` and follows `next_sending`; `p_msg` is whether the pointer is null, `buf[p]` what it points
to. `halted` says how the machine stopped: panic, assertion or nobody to run. What the processes say is
free within `SendTo` and `RecvFrom`. `OobSending` is what the word at `proc_table[-10]` looks like.

**ProcLife** is the life of a process, from the library call to the reply. MM is a loop with a program
counter; each action is the code between two system calls of `do_fork`, `do_exit`, `do_wait`, `do_exec`,
so that callers, parents and FS move in between. The two halves of `send_recv(BOTH)` are two actions,
because MM may act while the caller is between them. `Preempts` allows a process to run inside MM's
load-modify-store of `p_flags`. Memory is a slot number, registers are "saved at which system call", an
ELF image is a success or a failure, a file is one shared descriptor.

**TtyFs** is terminal input and output. A key is a character, ENTER, BACKSPACE or Alt+Fn; the keyboard
buffer and the terminals' buffers are bounded sequences. TTY's loop is its program counter `ttyPc`,
FS's `fsPc`. `tty_left_cnt` is cleared in the step that sends RESUME_PROC, not after it: only TTY reads
it and TTY is blocked in between. `request` is a history variable: what a process asked for.
`box[p]` of Rendezvous is the buffer of p's *last* system call; the model keeps what `memset` would
clear, and AnswerArrived checks that nobody reads a buffer before a message has arrived in it.

**FsFiles** is FS's handling of names: `do_open`, `do_close`, `do_stat`, `do_unlink`, fork and exit,
`mkfs` and the mount. A request changes the tables in one step, since FS serves one at a time, and
queues sector images; `WriteSectors` writes them, `PowerFails(k)` comes after the first k.
**FsRdwt** is `do_rdwt()` and `do_lseek()` on one file: the sectors are bytes, those behind the file are
the neighbour's, and each call is compared with "a file is a sequence of bytes".
**DiskLog** is what FS does after each unlink() before it answers: freezing everybody else, taking the
parts of the graph, `disklog()` sector by sector, thawing, each system call a step at which `schedule()`
may choose somebody else. The text is a sequence of numbered bytes.

**Hd** is task HD with the controller: opening (identify and the walk over the partition tables), the
sector loops, the interrupt before or after the RECEIVE, `waitfor()`, a controller that reports an error
or stops. **NicRing** is the NE2000 driver with card ring, software ring, remote DMA and its interrupt;
`ne2000_poll()` is entered by the task and by the handler. **NetServer** is task NET above it: ARP with
its one pending request, echo, name requests, deadlines, answers that come in any later turn or never.
**NetNames** is the bytes of names: dotted quads, DNS queries, and answers cut anywhere.

**Install** is `untar()` chunk by chunk over power losses, and `shabby_shell()`'s splitting in place.
**SysTask** is task SYS with a clock chip that ticks while it is read.
**KeyDecode** is the keyboard from the interrupt to the key with its flags, **Mouse** the packets.
**Console** is one console's memory and window. **Graphics** is who owns the screen, with pictures named
for who drew them; **VgaText** is how the card gets back to text: registers, the CRTC's lock, the
attribute controller's port that takes index and data by turns, the font behind the same registers, and
TTY's writes on an answer that may be old. **Windows** is the stack, the focus, dragging and painting,
**Explorer** the file list and its keys and commands, **Terminal** the grid and the line editor.

**TaskSched** is noxis's `scheduler_tick()` with sleep, yield, kill and the shell's commands, which run
in the keyboard interrupt on somebody's stack; a saved frame is the place where the task resumes.
**NoxisNet** is noxis's ring, ARP table and the commands PING and ARP, which poll.

Lines that start with `\* Mutation:` introduce a variant of the next definition with a plausible bug;
`PROJECT.json` pairs each with the property that rejects it.

## 3. Runs

| run | instance | what it shows |
|---|---|---|
| cores | Ipc: TTY, HD, a server, a client, a spinner, a free slot; or FsFiles: two processes, two files, a disk that may lose its power | kernel: types, assertions, flags and queues that agree, no lost wake-up, no send circle, exact and first-come delivery; files: references count, the disk is consistent between requests and after a power failure |
| ipc_live | server/terminal, HD, a client, two spinners | every runnable process runs; Ipc implements Rendezvous |
| proc_life | INIT, a shell, a slot, fork/exit/wait/exec | everyone is answered by MM, in its own memory; only exec can panic; wait() reports a child that exited |
| proc_adopt | INIT and three slots, fork/exit | nobody loses its parent, no zombie is missed by a waiting INIT, descriptors count |
| proc_live | as proc_life, fewer calls | orphans are reaped, fork() returns |
| proc_wait_nochild | fork/exit/wait | *violation*: wait() with no child left blocks |
| tty | two terminals, one reads and edits, one writes | one answer per request, FS hears its own answer, no key behind a sleeping TTY, counts fit, a line is delivered |
| tty_panic | as tty | *violation*: TTY and FS send to each other |
| services | twelve modules above the kernel, one at a time | file contents, the log, installation, time, keys, mouse, text mode, windows, list, terminal, names, noxis's PING |
| fs_unlink | two processes, three files | *violation*: a live file is behind the end of the directory |
| devices | six modules next to the hardware, one at a time | disk, card, NET, console, graphics, noxis tasks, and that each of them gets back |
| unlink_dump | one unlink(), a slow disk | *violation*: only frozen processes are runnable |

A property that a run checks is the contract of one part and a conjunction of named parts, each with
its own comment and the lines it is about:

| property | parts |
|---|---|
| QueuesAndFlagsAgree, DeliveryExact (Ipc) | BlockedStateCoherent, QueueMatchesSenders; ExactDelivery, FirstComeFirstServed |
| CallersAnswered, FamilyExact, HoldingsExact, ForkAndExitEnd (ProcLife) | NobodyHangs, AnswerArrived; FamilyKept, NoForgottenZombie; OwnMemory, DescriptorCounted; OrphansReaped, ForkReturns |
| RequestsAnswered (TtyFs) | OneAnswer, AnswerFits, FsAssertion |
| ReferencesExact, DiskConsistent (FsFiles) | FsTypeOK, DescriptorCountExact, InodeHeld, OneCopy, OpenFileStays; CacheWrittenBack, SectorsDisjoint, MapsExact, EntriesAllocated, FsAssertionsHold |
| TransfersExact (FsRdwt), LogFaithful (DiskLog) | FullTransfer, WritesItsBytes; DumpOfOneMoment, PrioritiesRestored, LogIsText, AssertedAfterReboot |
| CommandsKept (Install) | InstalledWhenMarked, EditsSurvive |
| KeysFaithful (KeyDecode), PointerFaithful (Mouse) | KeyTypeOK, KeysAsMeant, NoStuckModifier; Realigned, PointerOnScreen, MovesAsMeant |
| TextIsBack (VgaText), WindowsAsSeen (Windows) | TextModeRestored, TextKept, VideoOn, ScreenFollowsCurrent; StackExact, WindowsOnScreen, PressFocusesSeen, MovesWithPointer |
| LineShown (Terminal) | CursorInGrid, ShownIsRun |
| TakenAsMeant (MCServices) | ListShown: SelectionShown, ListIsDirectory (Explorer); ArgvIsWords (Install); NamesRead: QuadsAreNumbers, QueryIsName, AnswerTaken (NetNames) |
| PingAccounted (NoxisNet) | NxFramesAccounted, NxOneEntry, SentIsTransmitted, CountedIsFresh, AsksNeighbours, StuckBehindRequest |
| DiskServed (Hd) | HdTypeOK, SectorsInOrder, DataWhenAsked, NoStaleInterrupt, PartitionsFound |
| FramesServed (NicRing), RequestsServed (NetServer) | NicTypeOK, FramesOnceInOrder, FramesAccounted, TransmitIntact; OneEntryPerHost, GivesUpAfterRetry |
| OutputShown (Console), ScreenLent (Graphics) | ScreenInside, TailShown, KeepsToItsMemory; OneOwner, TextRestored, FrameWhole, OnlyFreshEsc |
| TasksKept (TaskSched) | TaskTypeOK, FramesMatchTable, StacksApart, QuantumKept |
| EveryoneReturns (MCDevices), liveness | HdAnswers, RingDrained, NetReturns, OutputEnds, DemoReturns, KilledEnds |

`cores`, `services` and `devices` put modules side by side that share no state: the first state chooses
one, and the others stay where they are. What each component promises its neighbours is part of its module (HD
answers, TTY has one answer coming), and the kernel under all of them is Ipc, of which Rendezvous is
the abstraction ProcLife and TtyFs are composed with.

**Deadlock** is not checked where a panic, a power-off or a bound ends a behaviour; that the system
does not stop otherwise is what NobodyHangs, OneAnswer, EveryoneReturns and the other liveness properties
say. Ipc is checked for deadlock in `cores` and `ipc_live`: `Halted` is an action of its own, and in
`cores` FsFiles may stutter, since its bounds can end a behaviour.

## 4. Bounds

*Ipc*: three processes are the least that make a send circle longer than the direct one, two
senders the least for an order in a queue, and an unlink from its middle needs a receiver that names its
source, which the server and the client do. Ticks are 1 (safety) and 3 and 2 (liveness), so that a
refill happens while somebody still waits. The theorems of Ipc need no bound.
*ProcLife*: a child, a grandchild and a reused slot need two slots; an exit with one live and one dead
child needs three. *TtyFs*: two terminals, buffers of one key so that every second key finds them full,
reads of two characters so that a line can be edited, end with ENTER or end full.

*FsFiles* (cores): two processes that inherit from each other, two descriptors and one free inode slot more than
one file needs, so that tables run full; two files (three in fs_unlink, the least for a hole in front of
a live entry); `MaxRef` bounds `i_cnt`, which unlink() of an open file raises for ever; one power
failure. *FsRdwt*: two sectors of two bytes, one of the neighbour's, lengths 1 and 3 so that a transfer
starts and ends inside sectors. *DiskLog*: four log sectors, two dumps, two boots; the text stays clear
of the last sector. *Install*: files of one byte, none, and more than a chunk; two power losses; lines
of six characters. *SysTask*: days of two hours of a minute of eleven seconds, so that a carry passes
every pair of registers and BCD has two digits.

*KeyDecode*: one key of each class (letter, modifier, lock, prefixed and the two long ones), a buffer of
four bytes, so that a long code is cut; three presses. *Mouse*: moves in and against both directions and
an overflow, one byte lost, a 4x3 screen so that every edge is met. *VgaText*: two consoles of two
words. *Windows*: a 4x4 screen whose windows overlap and hit every edge. *Explorer*: four names, a list
of three, two rows, so that the list is longer than the window and shorter than the directory.
*Terminal*: five columns and three rows, so that a full line wraps and scrolls. *NetNames*: up to five
words, of no, one, three (255 and 256) and four digits or a letter; answers with up to two aliases, cut
after any byte. *NoxisNet*: a ring of three, a table of two, two commands, two arrivals between
them.

*Hd*: counts modulo 2 in place of 256, transfers of up to three sectors; two extended partitions, one
with more logical ones than the driver takes. *NicRing*: four pages, a software ring of three, two frames
per poll, five arrivals, so that both rings run full. *NetServer*: three hosts that answer and one that
does not, two entries in the table. *Console*: two lines of screen in a memory of three, four lines of
output, so that it wraps. *Graphics*: two programs, two banks. *TaskSched*: two tasks next to the shell,
one that sleeps and one that yields and has two slices.

Four constants keep out a behaviour that the code has and that breaks a property; section 7 tells what
happens with the other value: `OobSending` (Ipc), `IrqDuringPoll` (NicRing), `ForkPending` and
`DiskInTime` (DiskLog; the run unlink_dump has the other value), `RunWhileDying` (TaskSched). `Preempts`
(ProcLife) likewise.

## 5. Fairness

* Ipc: `FairSpec` is weak fairness of `ClockTick(FALSE, ...)` alone: the timer is hardware and keeps
  interrupting the code of rings 1 to 3. Nothing is assumed of the running process: it may compute for
  ever or never call.
* ProcLife: weak fairness of `MmStep`; strong fairness of `FsStep`, of a user's reply being delivered
  (`Awaiting`, `Returning`) and of MM serving its request (`Serves`). Strong, because another copy or call
  can delay each of them again and again; the scheduler comes back to every process (NoStarvation of Ipc)
  and the sending queues are first come, first served (FirstComeFirstServed). `Calling(PID_INIT)` is
  strongly fair because `Init()` ends in a loop of `wait()`; no other user is made to call anything.
* TtyFs: weak fairness of the clock, of TTY, of FS and of a user that awaits its answer, justified by
  NoStarvation. Nobody is made to press keys. Strong fairness of `keyboard_read()` finding the buffer
  empty: without it a keyboard faster than the loop would keep TTY in it for ever; a key takes
  milliseconds, the loop microseconds.
* Hd: weak fairness of the task (NoStarvation), of its interrupt, and of the controller, which gets
  ready unless it has failed. HdAnswers excludes a failed controller.
* NicRing: weak fairness of the steps of a poll, of the handler and of the task; strong fairness of
  `net_poll`, which every turn of NET's wait loops calls, but which the interrupt can disable again.
  Nothing makes a frame arrive.
* NetServer: weak fairness of the task, and strong fairness of the turn of a wait loop, each of which
  takes time. No answer is made to come. Console: the loop goes on. Graphics: a task in its session
  takes its steps, the demo's end comes (it counts ticks), and GFX serves every program in the end: the
  queue of its senders is first come, first served. Nobody presses ESC.
* TaskSched: the timer interrupts; a demo task that is given the processor again and again gets on.

## 6. Theorems

The three kinds of safety property a run checks, type invariants, invariants and action properties, are
theorems for every value of the constants, all but TakenAsMeant; the end of this section says why that one,
and what else, stays with TLC. Each theorem is `Spec => []P` or `Spec => [][A]_vars` by an inductive
invariant; its initial states, its steps, action by action, and what it implies are lemmas.

`IpcProofs` proves of `Ipc`, for any number of tasks, processes, priorities and any calling pattern that
satisfies `CallsAssumption`:

* **TypeCorrect** from the type invariant alone, action by action.
* **RunnerReady, QueuesExact, WakeupsKept, SendGraphAcyclic** from the inductive invariant
  `IInv`. None of these is inductive alone: that a queue is exact needs flags that agree with partners;
  that flags agree needs the caller to be runnable; and that a new sender closes no circle
  needs the test in `deadlock()` read as a closed set of blocked processes. `IInv` adds that free slots
  are untouched, that spinners are always runnable (so `schedule()` finds somebody) and that interrupts
  are reported to tasks that accept them.
* **AssertionsHold**: no assertion of the IPC code fails, *provided* `OobSending = {FALSE}`, which is the
  theorem's hypothesis.
* **MessagesHandedOver** (DeliveryExact): what a receiver finds in its buffer is what the sender it named
  had in its own. It is an action property: `IInv` says of the step's first state that both parties are
  where the code that copies expects them.
* **IpcImplementsRendezvous**: initial states map to initial states; a system call maps to the step of
  its name, an interrupt to Notify, and everything the scheduler does to a stutter. `stopped` is a panic;
  the other ways to halt are excluded by `IInv` under the same hypothesis.

`ProcLifeProofs` proves of `ProcLife`, for any number of processes, files and memory slots, under the
hypothesis `Preempts = FALSE`: with TRUE an interrupted `p_flags |= WAITING` loses a flag and AnswerArrived
is false, see section 7.

* **TypesKept** (TypeOK), **NoAnswerIsLost** (CallersAnswered): whoever is in a library call either is owed
  its answer by the server it called, or has it, or waits for a child that can still end.
* **OnlyExecMeetsDeadlock** (OnlyExecPanics): no process but one whose registers `exec()` replaced ever
  closes a circle of senders.
* **FamilyIsKept** (FamilyExact) and **HoldingsAreCounted** (HoldingsExact): parents, zombies and
  waiters agree with each other, and memory slots and file counts with who holds them, *between* any two
  system calls of MM.
* **WaitReportsTheExited** (WaitReportsExited), an action property.

They share one inductive invariant, `IInv`. Its centre, `CallsOK`, says of each process which of the places
between library call and reply it is in, and for each place what MM's program counter, its message
buffer, the process's flags and the rendezvous' state then are. Without it none of the six is inductive:
whether a zombie's parent is woken depends on where *MM* stands, and whether an answer is lost on
which half of `send_recv()` its caller has done.

`TtyFsProofs` proves of `TtyFs`, for any number of terminals, buffer sizes and keys, that **TypesKept**
(TypeOK), **ReadersAnswered** (RequestsAnswered: a process in a request waits for somebody who has it) and
**KeysAreSeen** (KeysNotStuck: a key that waits in the keyboard's buffer will be looked at). The
hypothesis is `OneReader`: each terminal has at most one process that reads from it, for a second one
replaces the first in `tty_procnr` (section 7); the run satisfies it. The invariant's centre is `Traffic`:
every request is in exactly one place, the process, FS, the message between FS and TTY, the terminal's
fields, or the answer; FS's and TTY's program counters say which.

`FsFilesProofs` proves of `FsFiles`, without a hypothesis, for any number of processes, files, inodes,
descriptors and power failures:

* **TablesAgree** (ReferencesExact): a descriptor's count is the number of processes that hold it, an inode
  slot's count is at least its holders, an inode is cached once, an open file is not removed.
* **DiskStaysConsistent** (DiskConsistent): cache, maps, inodes and directory agree between requests, and
  after a power failure before any sector of a creation or a truncation; the assertions of open() and
  unlink() hold, except the one section 7 reports.

Both follow from **FsInvariant**. Its half about the tables, `TablesOK`, adds what fork() and exit() need:
a process holds a descriptor through one entry of `filp` only (HeldOnce), one that does not exist through none.
How the counts move is stated once per kind of step (OpenCounts, CloseCounts, ForkCounts, ExitCounts) as
cardinalities of sets of pairs of process and entry. Its half about the disk, `DiskOK`, speaks of the
images still to be written: the last one is consistent and agrees with the cache, and each earlier one
at which the power may fail is consistent or `Freeing`, the beginning of a removal or of mkfs(), which
the model does not mount again. DiskConsistent alone is not inductive, since it says nothing while
images wait. The lemmas BitsKeep, NewInodeKeeps, NewEntryKeeps and SyncKeeps are the order of writes in
create_file(), each step of which keeps `Consistent`; UnlinkKeeps says this only of the whole removal.

The same module proves of the two that stand on FS:

* **TransfersAlwaysExact** (TransfersExact of `FsRdwt`), for sectors, buffers, files and requests of any
  size. The state's invariant is only its types; the work is in `TransferIs`: the rounds of `do_rdwt()`,
  of at most `chunk` sectors each, are the recursive function BytesAfter, and what they move together is
  the minimum of what was asked for and what is there.
* **CommandsAlwaysKept** (CommandsKept of `Install`), for any archive. `InstallInv` says of each place in
  `untar()` how much of which file is on the disk; in the middle of a file that is a prefix of it, which is
  why a power failure before the mark costs nothing but the work.

`ServerProofs`, one invariant for each module:

* **TimeNotAhead** (RtcNotAhead of `SysTask`). `SysInv`: after each register, the time read so far,
  filled up with the least values, is not ahead of the clock. Registers may have any size up to 100, what
  two BCD digits hold.
* **LogAlwaysFaithful** (LogFaithful of `DiskLog`), where `ForkPending = FALSE`. `LogInv`: while the graph is
  drawn the others have priority 0 and what is drawn is of one moment; while it is thawed, `thawing` says
  whose priority is back; the text written so far is numbered without gap, and what is still to come fits.
* **LookUpsRetried** (RequestsServed of `NetServer`). `NetInv` relates the age of ARP's one pending
  request to the time left (`AskedInTime`): a second request goes out in time because `ARP_TIMEOUT >
  2 * ARP_RETRY_TICKS`, the module's assumption, true of the constants (arp.c:20, main.c:32).
* **DiskAlwaysInStep** (DiskServed of `Hd`). `HdInv` gives for each place of the driver what the controller
  is doing, how many sectors it has still to move and which have been moved; the interrupt may come
  before or after the RECEIVE for it. `PartInv` follows the walk over the partition tables: what is known of the
  current chain is what lies before the walk's table, the chains before are complete. The assumption is that
  chains lie on the disk; they may end anywhere or not at all.
* **FramesAlwaysServed** (FramesServed of `NicRing`), where `IrqDuringPoll = FALSE`. `NicInv`: the card's ring
  holds the last frames that arrived, in order, the software ring earlier ones, and each frame that was
  moved is in memory, taken, or was dropped when the ring was full; between `sw_push()` and the advance of
  BNRY, one frame is in both.

`DesktopProofs`:

* **TextAlwaysBack** (TextIsBack of `VgaText`). `VgaInv`: the text mode, registers, lock, font, colours,
  text and the place of the current console, is in the card or, during graphics, in what was saved.
* **PointerAlwaysFaithful** (PointerFaithful of `Mouse`). `MouseInv` lists the ways in which the driver can be
  out of step for each number of bytes since the last loss; after four there are none.
* **ScreenAlwaysLent** (ScreenLent of `Graphics`). `GfxInv`: whoever is inside a session is alone there, the
  text is in the memory or saved, the banks below the current one hold the frame, and an ESC that the owner
  can see is fresh.
* **WindowsAlwaysAsSeen** (WindowsAsSeen of `Windows`). `WmInv` adds to the window's place that one that is
  held is where the pointer holds it, or at the edge.
* **KeysAlwaysFaithful** (KeysFaithful of `KeyDecode`). `KeyInv`, while no byte was lost: what the keyboard
  has still to send, what waits in `kb_in` and what the decoder has of a prefix are together the codes
  of the keys meant and not yet out.
* **LineAlwaysShown** (LineShown of `Terminal`), for a newline that is not itself a character of the
  keyboard. `TermInv`: read backwards from the cursor, over wrapped lines and after scrolls, the grid shows
  the prompt and the line.
* **OutputAlwaysShown** (OutputShown of `Console`), for a memory larger than the screen. `ConInv` names the
  row, the column and the first row of the screen, and says which lines of the text each row of the memory
  holds, before and after the copy to the top.

`NoxisProofs`:

* **TasksRunAsSpawned** (TasksKept of `TaskSched`), where `RunWhileDying = FALSE`. `TaskInv`: a frame's place
  fits the slot's state, a slot that was ever used owns a stack that nobody else has, and the slices had
  and the quantum left are at most the weight.
* **PingCountsAlways** (PingAccounted of `NoxisNet`), without a hypothesis. `NxInv`: the frames' numbers ascend
  from the ring's tail to its head and to the card, and each place of PING has its flags; PING waits with
  interrupts off only when it has sent nothing, and then the pending request is an earlier command's.

Assumptions: the named ones of each module, as weak as `kernel_main()`, the check in `sys_sendrec` and the
constants in the headers justify; TLC evaluates them in every run. The hypotheses are `OobSending`,
`Preempts`, `OneReader`, `ForkPending`, `IrqDuringPoll` and `RunWhileDying` as above: each keeps out a
behaviour of the code for which the property is false, and section 7 says what happens then. The runs
have the values that the theorems require.

**Recursive functions.** The library's induction theorems take an operator as their parameter. `Recursion`
proves the principle with a *set* as parameter instead (AllNumbers: a set that contains 0 and, with each number,
the next contains all; by the least number outside of it), and from it that a recursive function of numbers
exists and is unique (RecursionExists, RecursionUnique). BytesAfter, HeaderOf and TablesOf are written as
such functions.

Only model-checked:

* TakenAsMeant. ListShown is about a list sorted with SetToSortSeq, ArgvIsWords and NamesRead about folds and
  sequences flattened over names of any length: folds are defined by a recursion over an operator, which cannot be
  instantiated.
* Liveness (NoStarvation, ForkAndExitEnd, LineDelivered, EveryoneReturns), which needs ENABLED and fairness.
* The expected violations, each a counterexample of a finite instance.


## 7. What the checks found

With a run:

* `do_wait()` counts free slots as children (forkexit.c:261): wait() after the last child was reaped
  never returns, where the comment promises an error.
* TTY resumes a reader with a SEND to FS; when FS is sending another process's request to TTY, either
  order is a send circle and a panic (tty.c:415, read_write.c:69).
* unlink() sets the directory's size to the number of entries in use, although the size counts slots: with
  a hole in front a live file is lost and its removal asserts (link.c:204).
* After every unlink() the dump freezes everybody but four tasks; when those wait for the disk,
  `schedule()` loops with interrupts off and the disk's interrupt never comes (disklog.c:316).

Seen while modelling, with the constant or the property that shows it:

* *Kernel*: RECEIVE from INTERRUPT with none pending indexes `proc_table` with -10 (proc.c:399);
  KernelAssertionsHold fails with `TRUE` in `OobSending`.
* *MM*: `do_exec()` changes the registers of a caller that may still be between SEND and RECEIVE; the new
  program's next call is a send circle (OnlyExecPanics states the exception). `p_flags |= WAITING` can
  lose RECEIVING (`Preempts = TRUE`, AnswerArrived). A fork() that fails is asserted away in the caller
  (lib/fork.c:42, ForkFailureReturns).
* *TTY*: a second reader of a terminal replaces the first, a read of zero characters is never answered
  (OneAnswer). The graphics key queue's count is updated by two tasks without a lock (tty.c:319). END
  is typed as DELETE as well: a `break` is missing (tty.c:216-219).
* *FS*: a removal cut short by a power failure leaks sectors (`torn` in MapsExact). *Disk log*: the
  assertion at disklog.c:101 fails at the first unlink() after a reboot (AssertedAfterReboot says not
  before); `pos` never wraps, so that after about a megabyte the log leaves its partition; every
  `disklog()` overwrites the log's last sector; a process forked during the thaw gets priorities from
  uninitialized memory (`ForkPending = TRUE`, PrioritiesRestored).
* *HD*: `MAX_IO_BYTES` (hd.h:227) is never enforced, and a transfer of 256 sectors or more waits for
  interrupts that do not come (HdAnswers has that limit); an error status is ignored.
* *Network*: with `IrqDuringPoll = TRUE` frames are taken twice, although "both advances are idempotent"
  (ne2000.c:160-164; FramesOnceInOrder). `ip_input()` drops every packet whose header checksum is right
  (ip.c:134; 23-fixes has the test the other way round), and task NET clears the sender before it
  answers (main.c:186), so that the answer goes to process 0 and `ping` hangs the desktop. The DNS
  identifier is fixed (dns.c:149); a name of 141 to 200 characters is refused because its length is
  counted twice (dns.c:89-111; QueryIsName has the limit as it is).
* *Console, graphics*: output to the current console during graphics moves neither cursor nor screen when
  text comes back, until the next output (`missed` in ScreenFollowsCurrent); `clear_screen()` may clear
  the beginning of the next line. *Desktop*: a press beside the windows may drag the active one
  (wm.c:819-828); the file list's view is dead code, as `expl_open_view()` follows a `break` without a
  label (desktop.c:1022-1024); `echo` prints nothing; the file list is not refreshed by commands that fail
  nor by other programs (`foreign` in ListIsDirectory). `wm_close_window()` is never called.
* *Start*: when untar() gives up at one file, the next start extracts the earlier ones again and undoes
  edits (`aborted` in EditsSurvive); a failed exec in the shell leaves a second shell on the
  terminal; an empty line opens the name at address 0 (main.c:306).
* *SYS*: a time read over a carry is late by up to a carry (RtcNotAhead states the side it is on), since
  nobody looks at the chip's update-in-progress bit.
* *noxis*: RUN while a task is dying takes over the stack it stands on (`RunWhileDying = TRUE`,
  FramesMatchTable), although task.h:41-42 calls creation safe from any context; `task_yield()` with slices
  left returns to the same task; a task that never sleeps starves slot 0, the shell; the line buffer of
  256 characters is appended to without a test; `kmalloc()` has no end. PING runs in the keyboard
  interrupt with interrupts off: only the `sti` in some send lets its `hlt` end, and a PING behind
  another's ARP request hangs (StuckBehindRequest says that nothing else does); a late answer with the
  same number is counted whichever host it is from.

## 8. Not modelled

* **Boot code, descriptor tables, port-level set-up** (boot/, start.c, protect.c, i8259.c, the assembly
  entry points): straight-line, without a state that another actor sees; what they leave is the Init of the
  modules. **Formatting and string functions**: functions of their arguments.
* **Drawing of characters and pictures** (most of wm.c and gfx.c that is left, 23-fixes' fb.c):
  no later decision reads a pixel.
* **The Explorer's text view**: not reachable. **noxis's END**: the machine halts.
* **noxis's screen, RTC and heap** are output, one read and a pointer that grows; its line buffer and
  heap have no limit to check, see section 7.
* **PRos** is one thread of 16-bit assembly; its FAT12 writes go through BIOS calls, and it keeps no state
  between commands besides the disk. **Lessons 00 to 22** are contained in 23-fixes. **Distributions,
  build scripts and tests** are no program logic.
* `alloc_mem` is a function of the slot number; its panic depends on the machine's size alone.

## 9. What is left

The modules cover what the repository's systems decide, and the theorems what the runs check of their
safety. Left are

1. **TakenAsMeant**, which would need the file list, the words of a command line and the labels of a name
   written as recursive functions of numbers like BytesAfter, and then inductions over them.
2. **Liveness**, by the arguments that section 5 gives for the fairness: NoStarvation from the sum of the
   ticks, which falls until `schedule()` refills it; EveryoneReturns from deadlines that fall with each turn.
3. **A release of each hypothesis** once the code no longer needs it: a lock around `p_flags` (Preempts), a test
   of INTERRUPT before the index (OobSending), interrupts off in `ne2000_poll()` (IrqDuringPoll).

Every module to be proved about is free of RECURSIVE operators; folds stay in definitions that the proofs
need not expand.
