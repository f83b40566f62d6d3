-------------------------------- MODULE DiskLog --------------------------------
(* What task FS does after every UNLINK before it answers (fs/main.c:91-121): *)
(* dump_fd_graph() of fs/disklog.c takes the processor away from everybody    *)
(* but TTY, SYS, HD and FS, writes a graph of all tables into a buffer, logs  *)
(* the buffer with disklog() into the last sectors of the disk, and gives the *)
(* processor back.  The graph is abstracted to the moments its parts are      *)
(* taken from, a byte of it to its number in the text.  TTY and SYS, which    *)
(* always answer, are left out.                                               *)
EXTENDS Integers, FiniteSets, FiniteSetsExt

CONSTANTS
  LOG_SECTOR_SIZE, NR_SECTS_FOR_LOG,
  LOG_HEADER,      \* bytes of the log's header (0x40)
  DumpBytes,       \* length of a graph
  TMP_BYTES,       \* bytes handed to one disklog(): STR_DEFAULT_LEN/2 - 1
  MaxDumps, MaxBoots

(* The bounds keep the text clear of the log's last sector, which every       *)
(* disklog() overwrites.                                                      *)
ASSUME DiskLogAssumption ==
  /\ {LOG_SECTOR_SIZE, NR_SECTS_FOR_LOG, LOG_HEADER, DumpBytes, TMP_BYTES,
      MaxDumps, MaxBoots} \subseteq Nat \ {0}
  /\ LOG_HEADER < LOG_SECTOR_SIZE
  /\ LOG_HEADER + MaxDumps * DumpBytes <= (NR_SECTS_FOR_LOG - 1) * LOG_SECTOR_SIZE

(* The process table: HD, FS, MM, TestA (which spins), a user that has asked  *)
(* MM for a fork, and a free slot.                                            *)
HD == 2
FS == 3
MM == 4
TestA == 5
USER == 6
SPARE == 7
LogProc == HD..SPARE
Exempt == {HD, FS}
Junk == -1          \* read before it is written

VARIABLES
  p_flags,    \* [process -> "runs", "waits" or "free"]
  priority,   \* [process -> 1, 0 when frozen, or Junk]; stands for ticks too
  prio,       \* the array dump_fd_graph() saves it in
  tables,     \* history: the tables as others change them
  newborn,    \* history: whom MM has forked while FS thawed the others
  graph,      \* history: the values of tables that the graph shows
  fsPc, thawing,    \* where FS is; its loop index when it thaws
  hd,         \* FS's disk request: "idle", "busy" or "done"
  bytes_left, chunk,  \* of the graph; of the string disklog() writes
  log_pos, sect_nr,     \* disklog()'s
  said,       \* history: bytes of text since boot
  smapBits,   \* on disk: are the log sectors taken in the sector map?
  logged,     \* on disk: [offset in the log -> number of the byte there]
  header,     \* on disk: log_pos as the log's header has it
  boots, dumps

procVars == <<p_flags, priority, prio>>
world    == <<tables, newborn, boots, dumps>>
textVars == <<bytes_left, chunk, log_pos, sect_nr, said>>
diskVars == <<smapBits, logged, header>>
diskLogVars == <<procVars, world, graph, fsPc, thawing, hd, textVars, diskVars>>

Area == 0..(NR_SECTS_FOR_LOG * LOG_SECTOR_SIZE - 1)
FlagsAtBoot == [p \in LogProc |-> CASE p = SPARE -> "free"
                                    [] p \in {HD, USER} -> "waits" [] OTHER -> "runs"]

DiskLogInit ==
  /\ p_flags = FlagsAtBoot /\ priority = [p \in LogProc |-> 1]
  /\ prio = [p \in LogProc |-> Junk]
  /\ tables = 0 /\ newborn = {} /\ boots = 1 /\ dumps = 0
  /\ graph = {} /\ fsPc = "idle" /\ thawing = HD /\ hd = "idle"
  /\ bytes_left = 0 /\ chunk = 0 /\ log_pos = 0 /\ sect_nr = 0 /\ said = 0
  /\ smapBits = FALSE /\ logged = [i \in Area |-> 0] /\ header = 0

-------------------------------------------------------------------------------
(* schedule() chooses among these; a failed assertion in a task halts the     *)
(* machine.                                                                   *)
Choosable == {p \in LogProc : /\ fsPc # "asserted"
                              /\ p_flags[p] = "runs" /\ priority[p] > 0}

AtFs(l) == FS \in Choosable /\ fsPc = l
Goto(l) == fsPc' = l

(* MM works on a table, as far as it can without FS.                          *)
MmWorks ==
  /\ MM \in Choosable /\ fsPc # "idle"
  /\ tables' = 1 - tables
  /\ UNCHANGED <<procVars, newborn, boots, dumps, graph, fsPc, thawing, hd, textVars, diskVars>>

(* do_fork()'s *p = proc_table[pid], whatever the parent's priority is then.  *)
MmForks ==
  /\ MM \in Choosable /\ p_flags[SPARE] = "free"
  /\ p_flags' = [p_flags EXCEPT ![SPARE] = "waits"]
  /\ priority' = [priority EXCEPT ![SPARE] = priority[USER]]
  /\ newborn' = IF fsPc = "thaw" THEN {SPARE} ELSE {}
  /\ UNCHANGED <<prio, tables, boots, dumps, graph, fsPc, thawing, hd, textVars, diskVars>>

(* rw_sector(): FS waits for HD, and HD for the disk unless that is faster,    *)
(* which it may be or not at every request.                                   *)
HdAsked ==
  /\ FS \in Choosable /\ hd = "idle"
  /\ fsPc \in {"unlink", "maps", "array", "smap", "pad", "text", "head", "last"}
  /\ hd' = "busy"
  /\ p_flags' = [p_flags EXCEPT ![FS] = "waits", ![HD] = "runs"]
  /\ UNCHANGED <<priority, prio, world, graph, fsPc, thawing, textVars, diskVars>>

HdWaits ==
  /\ hd = "busy" /\ HD \in Choosable
  /\ p_flags' = [p_flags EXCEPT ![HD] = "waits"]
  /\ UNCHANGED <<priority, prio, world, graph, fsPc, thawing, hd, textVars, diskVars>>

(* With nobody to choose the kernel is in schedule() with interrupts off.     *)
DiskInterrupts ==
  /\ hd = "busy" /\ Choosable # {}
  /\ hd' = "done"
  /\ p_flags' = [p_flags EXCEPT ![FS] = "runs", ![HD] = "waits"]
  /\ UNCHANGED <<priority, prio, world, graph, fsPc, thawing, textVars, diskVars>>

Served(l) == AtFs(l) /\ hd = "done" /\ hd' = "idle"

-------------------------------------------------------------------------------
(* An UNLINK; do_unlink() uses the disk too.                                  *)
unlink_received ==
  /\ AtFs("idle") /\ dumps < MaxDumps
  /\ dumps' = dumps + 1 /\ graph' = {} /\ Goto("unlink")
  /\ prio' = [p \in LogProc |-> Junk]
  /\ UNCHANGED <<p_flags, priority, tables, newborn, boots, thawing, hd, textVars, diskVars>>

unlink_returns == /\ Served("unlink") /\ Goto("freeze")
             /\ UNCHANGED <<procVars, world, graph, thawing, textVars, diskVars>>

Held == {p \in LogProc \ Exempt : p_flags[p] # "free"}

\* Mutation: the ticks are taken, the priority is not.
FrozenTicksOnly == priority

Frozen == [p \in LogProc |-> IF p \in Held THEN 0 ELSE priority[p]]

(* The loop, after disable_int().                                             *)
dump_freeze ==
  /\ AtFs("freeze") /\ Goto("procs")
  /\ prio' = [p \in LogProc |-> IF p \in Held THEN priority[p] ELSE prio[p]]
  /\ priority' = Frozen
  /\ UNCHANGED <<p_flags, world, graph, thawing, hd, textVars, diskVars>>

(* A part of the graph is made of the tables as they are now.                 *)
Part(next) == /\ graph' = graph \cup {tables} /\ Goto(next)
              /\ UNCHANGED <<procVars, world, thawing, diskVars>>

dump_procs == AtFs("procs") /\ Part("tables") /\ UNCHANGED <<hd, textVars>>
dump_fds_inodes == AtFs("tables") /\ Part("maps") /\ UNCHANGED <<hd, textVars>>
dump_maps == Served("maps") /\ Part("array") /\ UNCHANGED textVars
dump_array_dir == Served("array") /\ Part("arrows") /\ UNCHANGED textVars
dump_arrows == /\ AtFs("arrows") /\ Part("pieces")
               /\ bytes_left' = DumpBytes
               /\ UNCHANGED <<hd, chunk, log_pos, sect_nr, said>>

FirstTime == log_pos = 0

(* The next piece for disklog(), which sets the log up when first called.     *)
dump_pieces ==
  /\ AtFs("pieces")
  /\ IF bytes_left = 0
     THEN Goto("thaw") /\ thawing' = HD /\ UNCHANGED textVars
     ELSE /\ chunk' = Min({bytes_left, TMP_BYTES})
          /\ bytes_left' = bytes_left - chunk'
          /\ Goto(IF FirstTime THEN "smap" ELSE "text")
          /\ sect_nr' = log_pos \div LOG_SECTOR_SIZE
          /\ UNCHANGED <<log_pos, said, thawing>>
  /\ UNCHANGED <<procVars, world, graph, hd, diskVars>>

(* The bits of the log sectors, asserted to be 0.                             *)
log_smap ==
  /\ Served("smap")
  /\ Goto(IF smapBits THEN "asserted" ELSE "pad")
  /\ smapBits' = TRUE
  /\ UNCHANGED <<procVars, world, graph, thawing, textVars, logged, header>>

log_pad ==
  /\ Served("pad") /\ Goto("text")
  /\ logged' = [i \in Area |-> 0]
  /\ log_pos' = LOG_HEADER /\ sect_nr' = LOG_HEADER \div LOG_SECTOR_SIZE
  /\ UNCHANGED <<procVars, world, graph, thawing, bytes_left, chunk, said, smapBits, header>>

Room(off) == LOG_SECTOR_SIZE - off

(* One turn of the loop: a sector is read, filled from log_pos on, written.   *)
log_text ==
  /\ Served("text")
  /\ LET off   == log_pos % LOG_SECTOR_SIZE
         bytes == Min({chunk, Room(off)})
         at    == sect_nr * LOG_SECTOR_SIZE + off
     IN /\ logged' = [i \in Area |-> IF i \in at..(at + bytes - 1)
                                       /\ i < (sect_nr + 1) * LOG_SECTOR_SIZE
                                     THEN said + i - at + 1 ELSE logged[i]]
        /\ log_pos' = log_pos + bytes /\ said' = said + bytes
        /\ chunk' = chunk - bytes /\ sect_nr' = sect_nr + 1
        /\ Goto(IF chunk' = 0 THEN "head" ELSE "text")
  /\ UNCHANGED <<procVars, world, graph, thawing, bytes_left, smapBits, header>>

log_header ==
  /\ Served("head") /\ Goto("last")
  /\ header' = log_pos
  /\ UNCHANGED <<procVars, world, graph, thawing, textVars, smapBits, logged>>

log_last ==
  /\ Served("last") /\ Goto("pieces")
  /\ logged' = [i \in Area |-> IF i \div LOG_SECTOR_SIZE = NR_SECTS_FOR_LOG - 1
                               THEN 0 ELSE logged[i]]
  /\ UNCHANGED <<procVars, world, graph, thawing, textVars, smapBits, header>>

Thaws(p) == p \notin Exempt /\ p_flags[p] # "free"

(* A turn of the second loop; getpid() in its condition waits for SYS, and    *)
(* interrupts are on meanwhile.                                               *)
dump_thaw ==
  /\ AtFs("thaw")
  /\ priority' = IF Thaws(thawing) THEN [priority EXCEPT ![thawing] = prio[thawing]]
                 ELSE priority
  /\ IF thawing = SPARE THEN Goto("idle") /\ UNCHANGED thawing
     ELSE thawing' = thawing + 1 /\ UNCHANGED fsPc
  /\ UNCHANGED <<p_flags, prio, world, graph, hd, textVars, diskVars>>

(* The machine is switched off and on; what is on disk stays.                 *)
reboot ==
  /\ boots < MaxBoots /\ boots' = boots + 1 /\ newborn' = {}
  /\ p_flags' = FlagsAtBoot /\ priority' = [p \in LogProc |-> 1]
  /\ prio' = [p \in LogProc |-> Junk]
  /\ graph' = {} /\ Goto("idle") /\ thawing' = HD /\ hd' = "idle"
  /\ bytes_left' = 0 /\ chunk' = 0 /\ log_pos' = 0 /\ sect_nr' = 0 /\ said' = 0
  /\ UNCHANGED <<tables, dumps, diskVars>>

FsLogs ==
  \/ unlink_received \/ unlink_returns \/ dump_freeze \/ dump_procs \/ dump_fds_inodes \/ dump_maps
  \/ dump_array_dir \/ dump_arrows \/ dump_pieces \/ log_smap \/ log_pad
  \/ log_text \/ log_header \/ log_last \/ dump_thaw

DiskLogNext ==
  FsLogs \/ HdAsked \/ HdWaits \/ DiskInterrupts \/ MmWorks \/ MmForks \/ reboot

-------------------------------------------------------------------------------
(* The graph shows one moment, though it is made with interrupts on: nobody   *)
(* who could change a table gets the processor (disklog.c:301-320).           *)
DumpOfOneMoment == Cardinality(graph) <= 1

(* When FS answers the UNLINK every process has its priority back; a process  *)
(* left with 0 would never be chosen again.  Only a child that MM makes while *)
(* FS thaws the others, with interrupts on in getpid(), may be given what its *)
(* parent had while frozen, or what its place in the array happened to hold.  *)
PrioritiesRestored ==
  fsPc = "idle" =>
    \A p \in LogProc \ newborn : p_flags[p] # "free" => priority[p] = 1

(* Between two calls the log holds the whole text in order, however it falls  *)
(* on sectors, and its header says where it ends.                             *)
LogIsText ==
  fsPc \in {"pieces", "thaw"} /\ said > 0 =>
    /\ \A k \in 1..said : logged[LOG_HEADER + k - 1] = k
    /\ header = LOG_HEADER + said

(* The assertion at disklog.c:101 holds for the life of a newly made file     *)
(* system (it fails at the first unlink() after the next boot).               *)
AssertedAfterReboot == fsPc = "asserted" => boots > 1

(* schedule(): "Choose one proc to run" (proc.c:30).                          *)
SomeoneToRun == fsPc # "asserted" => Choosable # {}

(* What a removal leaves in the log is one moment's graph, whole, and the    *)
(* processes that were stopped for it go on (disklog.c:301-330, 826), however *)
(* slow the disk is.                                                          *)
LogFaithful == DumpOfOneMoment /\ PrioritiesRestored /\ LogIsText /\ AssertedAfterReboot
===============================================================================
