--------------------------------- MODULE Hd ---------------------------------
(***************************************************************************)
(* The hard disk driver of 25-osfs11 (kernel/hd.c): task HD, the interrupt *)
(* handler and, as far as HD relies on it, the ATA controller.             *)
(*                                                                         *)
(* A request is a sequence of commands; a command moves its sectors one by *)
(* one, each announced by an interrupt (or, for the first sector of a      *)
(* write, by DRQ alone).  Reading the status register takes back the       *)
(* interrupt request of the controller; what has reached the kernel stays. *)
(***************************************************************************)
EXTENDS Integers, Sequences, FiniteSets

CONSTANTS
  COUNT_MOD,         \* 2^8: values of the byte cmd.count; 0 asks for so many
  NR_SUB_PER_PART,
  Mbr,               \* Mbr[i]: primary entry i, a record id, start, nr
  Ebr,               \* Ebr[s]: sector s read as a table, its first two entries
  HdRequests,        \* requests: type, dev, first, sects
  MayFail,           \* the controller may report an error or stop
  MaxOpen            \* bound on open_cnt

NO_PART  == "none"
EXT_PART == "extended"
NR_PART_PER_DRIVE == Len(Mbr)
Prim == 0 .. NR_PART_PER_DRIVE
MINOR_hd1a == NR_PART_PER_DRIVE + 1
LogicalNr(j, i) == MINOR_hd1a + (j - 1) * NR_SUB_PER_PART + i
HdDevices == Prim \cup {LogicalNr(j, i) : j \in 1 .. NR_PART_PER_DRIVE, i \in 0 .. NR_SUB_PER_PART - 1}

ASSUME HdAssumption ==
  /\ Len(Mbr) \in Nat /\ \A i \in 1 .. Len(Mbr) : Mbr[i].start \in Nat
  /\ \A s \in DOMAIN Ebr : s \in Nat /\ Ebr[s][1].start \in Nat /\ Ebr[s][2].start \in Nat
  \* the first table and the next one of a chain lie on the disk
  /\ \A i \in 1 .. Len(Mbr) : Mbr[i].id = EXT_PART =>
       /\ Mbr[i].start \in DOMAIN Ebr
       /\ \A s \in DOMAIN Ebr : Ebr[s][2].id # NO_PART => Mbr[i].start + Ebr[s][2].start \in DOMAIN Ebr
  /\ \A r \in HdRequests : r.first \in Nat /\ r.sects \in Nat \ {0}
  /\ COUNT_MOD \in Nat \ {0} /\ NR_SUB_PER_PART \in Nat \ {0} /\ MaxOpen \in Nat
  /\ \E i \in 1 .. NR_PART_PER_DRIVE : Mbr[i].id # NO_PART
  /\ MayFail \in BOOLEAN

VARIABLES
  hdPc,      \* where task HD is
  hdReq,     \* the request it serves
  hdCmd,     \* the command it gives: op, lba, sects
  hdLeft,    \* sectors it still expects of the command
  moved,     \* the sectors it has moved for the command
  walk,      \* partition(): part j, entry i, table in sector s
  open_cnt, base,  \* hd_info: base[dev], for the devices that are known
  ctl,       \* the controller: busy, drq, irq, left, op, lba
  hdInt,     \* an interrupt has been announced to HD and not yet received
  faulty     \* the controller has failed
hdVars == <<hdPc, hdReq, hdCmd, hdLeft, moved, walk, open_cnt, base, ctl, hdInt, faulty>>

NoReq  == [type |-> "none", dev |-> 0, first |-> 0, sects |-> 0]
NoCmd  == [op |-> "none", lba |-> 0, sects |-> 0]
NoWalk == [j |-> 0, i |-> 0, s |-> 0]
CtlIdle == [busy |-> FALSE, drq |-> FALSE, irq |-> FALSE, left |-> 0, op |-> "none", lba |-> 0]

\* a command is filled in; hd_cmd_out() comes next
Give(op, lba, sects) ==
  /\ hdCmd' = [op |-> op, lba |-> lba, sects |-> sects]
  /\ hdLeft' = sects /\ moved' = <<>> /\ hdPc' = "hd_cmd_out"

(***************************************************************************)
(* task_hd(): a request arrives.                                           *)
(***************************************************************************)
DevOpen(r) ==
  /\ r.type = "DEV_OPEN" /\ open_cnt < MaxOpen
  /\ Give("IDENTIFY", 0, 1) /\ UNCHANGED open_cnt
DevClose(r) ==
  /\ r.type = "DEV_CLOSE" /\ open_cnt > 0
  /\ open_cnt' = open_cnt - 1 /\ hdPc' = "reply" /\ UNCHANGED <<hdCmd, hdLeft, moved>>
hd_rdwt(r) ==
  /\ r.type \in {"READ", "WRITE"} /\ open_cnt > 0 /\ r.dev \in DOMAIN base
  /\ Give(r.type, base[r.dev] + r.first, r.sects) /\ UNCHANGED open_cnt
hd_ioctl(r) ==
  /\ r.type = "DEV_IOCTL" /\ open_cnt > 0 /\ r.dev \in DOMAIN base
  /\ hdPc' = "reply" /\ UNCHANGED <<hdCmd, hdLeft, moved, open_cnt>>

Receive(r) ==
  /\ hdPc = "idle" /\ hdReq' = r
  /\ DevOpen(r) \/ DevClose(r) \/ hd_rdwt(r) \/ hd_ioctl(r)
  /\ UNCHANGED <<walk, base, ctl, hdInt, faulty>>

HdReply == hdPc = "reply" /\ hdPc' = "idle" /\ hdReq' = NoReq
         /\ UNCHANGED <<hdCmd, hdLeft, moved, walk, open_cnt, base, ctl, hdInt, faulty>>

(***************************************************************************)
(* hd_cmd_out() and the loop of hd_rdwt().  waitfor() polls the status     *)
(* register, and panics if the condition does not come in time.            *)
(***************************************************************************)
\* Mutation: the first sector is written without waiting for DRQ.
AfterCommandAtOnce == IF hdCmd.op = "WRITE" THEN "port_write" ELSE "interrupt_wait"
AfterCommand == IF hdCmd.op = "WRITE" THEN "waitfor_drq" ELSE "interrupt_wait"
Stuck == faulty /\ ctl.left = 0
hd_cmd_out ==
  /\ hdPc = "hd_cmd_out"
  /\ \/ /\ ~ ctl.busy
        /\ ctl' = [busy |-> TRUE, drq |-> FALSE, irq |-> FALSE, op |-> hdCmd.op, lba |-> hdCmd.lba,
                   left |-> IF hdCmd.sects % COUNT_MOD = 0 THEN COUNT_MOD ELSE hdCmd.sects % COUNT_MOD]
        /\ hdPc' = AfterCommand
     \/ ctl.busy /\ Stuck /\ hdPc' = "panic" /\ UNCHANGED ctl
  /\ UNCHANGED <<hdReq, hdCmd, hdLeft, moved, walk, open_cnt, base, hdInt, faulty>>

waitfor_drq ==
  /\ hdPc = "waitfor_drq"
  /\ ctl' = [ctl EXCEPT !.irq = FALSE]
  /\ \/ ctl.drq /\ hdPc' = "port_write"
     \/ ~ ctl.drq /\ Stuck /\ hdPc' = "panic"
  /\ UNCHANGED <<hdReq, hdCmd, hdLeft, moved, walk, open_cnt, base, hdInt, faulty>>

\* the controller takes or gives the sector it is at and goes on
MoveSector ==
  /\ ctl' = IF ctl.drq THEN [ctl EXCEPT !.drq = FALSE, !.left = @ - 1, !.lba = @ + 1,
                                        !.busy = ctl.op = "WRITE" \/ ctl.left > 1]
            ELSE ctl
  /\ moved' = Append(moved, IF ctl.drq THEN ctl.lba ELSE -1)

port_write ==
  /\ hdPc = "port_write" /\ MoveSector /\ hdPc' = "interrupt_wait"
  /\ UNCHANGED <<hdReq, hdCmd, hdLeft, walk, open_cnt, base, hdInt, faulty>>

\* interrupt_wait(): the interrupt may come before the RECEIVE
interrupt_wait ==
  /\ hdPc = "interrupt_wait" /\ hdPc' = "receive"
  /\ UNCHANGED <<hdReq, hdCmd, hdLeft, moved, walk, open_cnt, base, ctl, hdInt, faulty>>
hard_int ==
  /\ hdPc = "receive" /\ hdInt /\ hdInt' = FALSE
  /\ IF hdCmd.op = "WRITE"
       THEN hdLeft' = hdLeft - 1 /\ hdPc' = IF hdLeft = 1 THEN "reply" ELSE "waitfor_drq"
       ELSE hdPc' = "port_read" /\ UNCHANGED hdLeft
  /\ UNCHANGED <<hdReq, hdCmd, moved, walk, open_cnt, base, ctl, faulty>>

port_read ==
  /\ hdPc = "port_read" /\ MoveSector /\ hdLeft' = hdLeft - 1
  /\ hdPc' = CASE hdLeft > 1 -> "interrupt_wait"
               [] hdLeft = 1 /\ hdReq.type = "READ" -> "reply"
               [] hdLeft = 1 /\ hdCmd.op = "IDENTIFY" -> "identified"
               [] OTHER -> "table"
  /\ UNCHANGED <<hdReq, hdCmd, walk, open_cnt, base, hdInt, faulty>>

(***************************************************************************)
(* hd_open() after hd_identify(): the first time, partition() reads the    *)
(* primary table and follows the chain of every extended partition.        *)
(***************************************************************************)
Extended == {i \in 1 .. NR_PART_PER_DRIVE : Mbr[i].id = EXT_PART}
NextExt(j) == {i \in Extended : i > j}
\* Mutation: the next table is found from this one, not from the partition.
NextTableFromHere == walk.s + Ebr[walk.s][2].start
NextTable == base[walk.j] + Ebr[walk.s][2].start
GetTable(w) == walk' = w /\ Give("READ", w.s, 1)
GetExtended(j) ==
  IF NextExt(j) = {} THEN walk' = NoWalk /\ hdPc' = "reply" /\ UNCHANGED <<hdCmd, hdLeft, moved>>
  ELSE LET k == CHOOSE k \in NextExt(j) : \A i \in NextExt(j) : k <= i
       IN  GetTable([j |-> k, i |-> 0, s |-> Mbr[k].start])

hd_open ==
  /\ hdPc = "identified"
  /\ open_cnt' = open_cnt + 1
  /\ base' = [d \in DOMAIN base \cup {0} |-> IF d = 0 THEN 0 ELSE base[d]]
  /\ IF open_cnt = 0 THEN GetTable(NoWalk)
     ELSE hdPc' = "reply" /\ UNCHANGED <<walk, hdCmd, hdLeft, moved>>
  /\ UNCHANGED <<hdReq, ctl, hdInt, faulty>>

\* tables the failed controller did not deliver are left out
partition ==
  /\ hdPc = "table" /\ ~ faulty
  /\ IF walk.j = 0
       THEN LET found == {i \in 1 .. NR_PART_PER_DRIVE : Mbr[i].id # NO_PART} IN
            /\ base' = [d \in DOMAIN base \cup found |-> IF d \in found THEN Mbr[d].start ELSE base[d]]
            /\ GetExtended(0)
       ELSE LET dev == LogicalNr(walk.j, walk.i)  t == Ebr[walk.s] IN
            /\ base' = [d \in DOMAIN base \cup {dev} |-> IF d = dev THEN walk.s + t[1].start ELSE base[d]]
            /\ IF t[2].id = NO_PART \/ walk.i + 1 = NR_SUB_PER_PART
                 THEN GetExtended(walk.j)
                 ELSE GetTable([walk EXCEPT !.i = @ + 1, !.s = NextTable])
  /\ UNCHANGED <<hdReq, open_cnt, ctl, hdInt, faulty>>

(***************************************************************************)
(* The interrupt, and the controller.                                      *)
(***************************************************************************)
\* Mutation: the interrupt counts only while HD waits for it.
hd_handlerWaiting ==
  /\ ctl.irq /\ ctl' = [ctl EXCEPT !.irq = FALSE] /\ hdInt' = (hdPc = "receive")
  /\ UNCHANGED <<hdPc, hdReq, hdCmd, hdLeft, moved, walk, open_cnt, base, faulty>>
hd_handler ==
  /\ ctl.irq /\ ctl' = [ctl EXCEPT !.irq = FALSE] /\ hdInt' = TRUE
  /\ UNCHANGED <<hdPc, hdReq, hdCmd, hdLeft, moved, walk, open_cnt, base, faulty>>

CtlUnchanged == UNCHANGED <<hdPc, hdReq, hdCmd, hdLeft, moved, walk, open_cnt, base, hdInt>>
FirstOfWrite == ctl.op = "WRITE" /\ moved = <<>>
CtlReady ==       \* the next sector can be moved
  /\ ctl.busy /\ ctl.left > 0
  /\ ctl' = [ctl EXCEPT !.busy = FALSE, !.drq = TRUE, !.irq = ~ FirstOfWrite]
  /\ UNCHANGED faulty /\ CtlUnchanged
CtlWritten ==     \* the last sector is on the medium
  /\ ctl.busy /\ ctl.left = 0 /\ ctl.op = "WRITE" /\ ~ faulty
  /\ ctl' = [CtlIdle EXCEPT !.irq = TRUE] /\ UNCHANGED faulty /\ CtlUnchanged
CtlFails ==       \* it reports an error, with an interrupt, or is busy for ever
  /\ MayFail /\ ~ faulty
  /\ \/ ctl.busy /\ ctl' = [CtlIdle EXCEPT !.irq = TRUE]
     \/ ctl' = [CtlIdle EXCEPT !.busy = TRUE]
  /\ faulty' = TRUE /\ CtlUnchanged

HdInit ==
  /\ hdPc = "idle" /\ hdReq = NoReq /\ hdCmd = NoCmd /\ hdLeft = 0 /\ moved = <<>>
  /\ walk = NoWalk /\ open_cnt = 0 /\ base = [d \in {} |-> 0]
  /\ ctl = CtlIdle /\ hdInt = FALSE /\ faulty = FALSE
HdTask == HdReply \/ hd_cmd_out \/ waitfor_drq \/ port_write \/ interrupt_wait \/ hard_int \/ port_read
          \/ hd_open \/ partition
Ctl == CtlReady \/ CtlWritten
HdNext == (\E r \in HdRequests : Receive(r)) \/ HdTask \/ hd_handler \/ Ctl \/ CtlFails
\* HD is scheduled, interrupts are taken, a working controller gets ready
HdFairness == WF_hdVars(HdTask) /\ WF_hdVars(hd_handler) /\ WF_hdVars(Ctl)
HdSpec == HdInit /\ [][HdNext]_hdVars /\ HdFairness
-----------------------------------------------------------------------------
(* Properties *)

HdTypeOK ==
  /\ hdLeft \in Nat /\ hdInt \in BOOLEAN /\ faulty \in BOOLEAN /\ open_cnt \in 0 .. MaxOpen
  /\ DOMAIN base \subseteq HdDevices /\ ctl.left \in 0 .. COUNT_MOD

(* HD touches the data port only while the controller asks for data: the   *)
(* interrupt it waits for is never one that was left over (hd.c:200-209).  *)
DataWhenAsked == ~ faulty /\ hdPc \in {"port_read", "port_write"} => ctl.drq

(* When HD takes a request no interrupt is on its way to it: the one bit   *)
(* of the kernel (proc.c:520) is enough for a driver that waits for one    *)
(* interrupt per sector.                                                   *)
NoStaleInterrupt ==
  ~ faulty /\ hdPc \in {"idle", "hd_cmd_out"} => ~ hdInt /\ ~ ctl.irq

(* A request that is answered has moved its sectors, in order and each     *)
(* once.                                                                   *)
SectorsInOrder ==
  ~ faulty /\ hdPc = "reply" /\ hdReq.type \in {"READ", "WRITE"} =>
    moved = [k \in 1 .. hdReq.sects |-> base[hdReq.dev] + hdReq.first + k - 1]

(* partition() finds, for every extended partition, the partitions of its  *)
(* chain of tables up to NR_SUB_PER_PART, at the sector of their table     *)
(* plus their own offset (hd.c:314-335).                                   *)
TablesOf(j) ==
  LET at[i \in Nat] == IF i = 0 THEN Mbr[j].start
                       ELSE IF Ebr[at[i - 1]][2].id = NO_PART THEN at[i - 1]
                       ELSE Mbr[j].start + Ebr[at[i - 1]][2].start
  IN  at
Chain(j) == {i \in 0 .. NR_SUB_PER_PART - 1 : \A k \in 0 .. i - 1 : Ebr[TablesOf(j)[k]][2].id # NO_PART}
PartitionsFound ==
  hdPc = "idle" /\ open_cnt > 0 => \A j \in Extended :
    /\ {i \in 0 .. NR_SUB_PER_PART - 1 : LogicalNr(j, i) \in DOMAIN base} = Chain(j)
    /\ \A i \in Chain(j) : base[LogicalNr(j, i)] = TablesOf(j)[i] + Ebr[TablesOf(j)[i]][1].start

(* Every request is answered, if the controller works and the count fits   *)
(* in the byte it is given in: interrupt_wait() has no time limit          *)
(* (hd.c:482), and a longer request waits for interrupts of sectors that   *)
(* the controller was never asked for (hd.c:186).                          *)
HdAnswers ==
  hdReq # NoReq /\ hdReq.sects <= COUNT_MOD ~> hdPc = "idle" \/ faulty

(* The disk serves its requests right, in step with the controller and at  *)
(* the sectors the partition tables say (hd.c:130-209, 314-335).           *)
DiskServed == HdTypeOK /\ DataWhenAsked /\ NoStaleInterrupt /\ SectorsInOrder /\ PartitionsFound
=============================================================================
