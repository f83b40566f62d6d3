------------------------------ MODULE FsFiles ------------------------------
(***************************************************************************)
(* Names, i-nodes and descriptors of the file system of 25-osfs11: task FS *)
(* (fs/main.c), fs/open.c, fs/link.c and fs/misc.c.                        *)
(*                                                                         *)
(* FS serves one request at a time, so what a request does to the tables   *)
(* in memory is one step.  What it does to the disk is a queue of sector   *)
(* images, written one by one: the power may fail before any of them.      *)
(* A sector of the data area is the bit of the sector map that stands for  *)
(* it, as both conversions of the code are bit = sector - n_1st_sect + 1.  *)
(* Contents of files, positions and sizes are in module FsRdwt.            *)
(***************************************************************************)
EXTENDS Integers, Sequences, FiniteSets, SequencesExt, FiniteSetsExt

CONSTANTS
  FsProc,             \* the processes; one of them is alive at the start
  FileName,           \* names of files a process creates and removes
  TtyName, TarName, DotName, NoName,   \* other names of the directory
  NR_CONSOLES, NR_FILES, NR_FILE_DESC, NR_INODE,
  NR_DEFAULT_FILE_SECTS,
  INSTALL_START,      \* bit of the first sector of cmd.tar
  INSTALL_NR_SECTS,
  NrInodes, NrSects,  \* bits of the i-node map and of the sector map
  DirSlots,           \* entries the sectors of the directory hold
  MaxRef,             \* bound on i_cnt, which unlink() can raise for ever
  MaxFailures         \* bound on power failures

I_REGULAR == "regular"
I_DIRECTORY == "directory"
I_CHAR_SPECIAL == "char"
NO_MODE == "none"
ROOT_INODE == 1
INVALID_INODE == 0
O_RDWR == "O_RDWR"
O_CREAT == "O_CREAT"
O_TRUNC == "O_TRUNC"

TarInode == NR_CONSOLES + 2

ASSUME FsFilesAssumption ==
  /\ IsFiniteSet(FsProc) /\ FsProc # {} /\ IsFiniteSet(FileName)
  /\ {NR_CONSOLES, NR_FILES, NR_FILE_DESC, NR_INODE, NR_DEFAULT_FILE_SECTS,
      INSTALL_NR_SECTS, DirSlots, MaxRef} \subseteq Nat \ {0}
  /\ MaxFailures \in Nat /\ NrInodes \in Nat /\ NrInodes > TarInode
  /\ INSTALL_START \in Nat /\ NrSects \in Nat
  /\ INSTALL_START > NR_DEFAULT_FILE_SECTS /\ NrSects >= INSTALL_START + INSTALL_NR_SECTS
  /\ DirSlots >= TarInode

VARIABLES
  disk,     \* what the disk holds: imap, smap, ino, dir; magic
  toWrite,  \* sector images the current request has still to write
  itab,     \* inode_table[]
  fdesc,    \* f_desc_table[]: fd_inode (a slot of itab or 0) and fd_cnt
  filp,     \* filp[p]: the descriptors of process p, 0 where it has none
  fsAlive,  \* the processes that exist
  running,  \* the machine is on and FS has mounted the disk
  failed,   \* the assertion or panic FS stopped at, or "none"
  failures, \* power failures so far
  torn      \* history: unlink() or mkfs() has been cut short between two sectors
fsFilesVars == <<disk, toWrite, itab, fdesc, filp, fsAlive, running, failed, failures, torn>>

Slot == 1 .. NR_INODE
Desc == 1 .. NR_FILE_DESC
Fd   == 1 .. NR_FILES
Bits(first, n) == first .. first + n - 1
NoInode == [mode |-> NO_MODE, size |-> 0, start |-> 0, nr |-> 0]
Free    == [num |-> 0, cnt |-> 0, ino |-> NoInode]
FreeEntry == [ino |-> INVALID_INODE, name |-> NoName]

(***************************************************************************)
(* mkfs(): the images it writes, in its order; the super block, with the   *)
(* magic number that makes the next start skip mkfs(), is the first.       *)
(***************************************************************************)
BlankDisk == [magic |-> FALSE, imap |-> {}, smap |-> {},
              ino |-> [n \in 1 .. NrInodes - 1 |-> NoInode],
              dir |-> [m \in 1 .. DirSlots |-> FreeEntry]]
FormatImap == 0 .. NR_CONSOLES + 2
FormatSmap == Bits(0, NR_DEFAULT_FILE_SECTS + 1) \cup Bits(INSTALL_START, INSTALL_NR_SECTS)
FormatInodes ==
  [n \in 1 .. NrInodes - 1 |->
     CASE n = ROOT_INODE -> [mode |-> I_DIRECTORY, size |-> NR_CONSOLES + 2,
                             start |-> 1, nr |-> NR_DEFAULT_FILE_SECTS]
       [] n \in 2 .. NR_CONSOLES + 1 -> [NoInode EXCEPT !.mode = I_CHAR_SPECIAL]
       [] n = TarInode -> [mode |-> I_REGULAR, size |-> 1,
                           start |-> INSTALL_START, nr |-> INSTALL_NR_SECTS]
       [] OTHER -> NoInode]
FormatDir ==
  [m \in 1 .. DirSlots |->
     [ino |-> IF m <= TarInode THEN m ELSE INVALID_INODE,
      name |-> CASE m = 1 -> DotName
                 [] m \in 2 .. NR_CONSOLES + 1 -> TtyName
                 [] m = TarInode -> TarName
                 [] OTHER -> NoName]]
mkfs(d) ==
  LET d1 == [d EXCEPT !.magic = TRUE]
      d2 == [d1 EXCEPT !.imap = FormatImap]
      d3 == [d2 EXCEPT !.smap = FormatSmap]
      d4 == [d3 EXCEPT !.ino = FormatInodes]
  IN  <<d1, d2, d3, d4, [d4 EXCEPT !.dir = FormatDir]>>

(***************************************************************************)
(* The i-node cache.  Each operator takes the cache and gives it back.     *)
(***************************************************************************)
CachedAt(tab, num) == {s \in Slot : tab[s].cnt # 0 /\ tab[s].num = num}
FreeSlots(tab) == {s \in Slot : tab[s].cnt = 0}
\* get_inode() panics when neither is there
CanGet(tab, num) == CachedAt(tab, num) # {} \/ FreeSlots(tab) # {}
SlotFor(tab, num) == IF CachedAt(tab, num) # {} THEN Min(CachedAt(tab, num)) ELSE Min(FreeSlots(tab))
get_inode(tab, d, num) ==
  LET s == SlotFor(tab, num) IN
  IF CachedAt(tab, num) # {} THEN [tab EXCEPT ![s].cnt = @ + 1]
  ELSE [tab EXCEPT ![s] = [num |-> num, cnt |-> 1, ino |-> d.ino[num]]]
put_inode(tab, s) == [tab EXCEPT ![s].cnt = @ - 1]
sync_inode(tab, d, s) == [d EXCEPT !.ino[tab[s].num] = tab[s].ino]

RootSlot == 1                   \* root_inode: init_fs() fills an empty cache
Root(tab) == tab[RootSlot].ino

(***************************************************************************)
(* search_file(): it compares one entry more than the directory has,       *)
(* unless that entry would be in another sector.  strip_path() leaves "/"  *)
(* with an empty name, which stands for the directory itself.              *)
(***************************************************************************)
RootPath == "/"
Path == FileName \cup {TtyName, RootPath}
search_file(name) ==
  LET looked == 1 .. Min({Root(itab).size + 1, DirSlots})
      hits   == {m \in looked : disk.dir[m].name = name}
  IN  CASE name = RootPath -> ROOT_INODE
        [] name # RootPath /\ hits = {} -> INVALID_INODE
        [] OTHER -> disk.dir[Min(hits)].ino

\* FS takes a request when it has answered the last one and has not stopped
Serving == running /\ toWrite = <<>> /\ failed = "none"
Fail(why) == failed' = why
FsGoesOn == UNCHANGED <<failed, running, fsAlive, disk, failures>>

(***************************************************************************)
(* create_file(): the cache, the images and the slot of the new file.      *)
(* alloc_smap_bit() takes the first free bit and asserts that the bits     *)
(* after it are free (bits past the map count as taken); alloc_imap_bit()  *)
(* of a full map, or of one that mkfs() has not written yet, returns 0 and *)
(* new_inode() writes through a null pointer: FS counts as stopped there.  *)
(***************************************************************************)
ImapFull == 0 .. NrInodes - 1 \subseteq disk.imap
alloc_imap_bit == IF ImapFull THEN INVALID_INODE ELSE Min((0 .. NrInodes - 1) \ disk.imap)
FreeBits == (0 .. NrSects - 1) \ disk.smap
alloc_smap_bit == Bits(Min(FreeBits), NR_DEFAULT_FILE_SECTS)
NullInode == alloc_imap_bit = INVALID_INODE
NoRun     == ~ \E f \in FreeBits : /\ \A g \in FreeBits : f <= g
                                   /\ Bits(f, NR_DEFAULT_FILE_SECTS) \subseteq FreeBits
new_inode(num) ==
  [get_inode(itab, disk, num) EXCEPT ![SlotFor(itab, num)] =
     [num |-> num, cnt |-> 1,
      ino |-> [mode |-> I_REGULAR, size |-> 0, start |-> Min(alloc_smap_bit),
               nr |-> NR_DEFAULT_FILE_SECTS]]]
FreeEntryIndex ==
  LET nr == Root(itab).size IN Min({m \in 1 .. nr : disk.dir[m].ino = INVALID_INODE} \cup {nr + 1})
\* Mutation: the bit is not written.
WithImapUnwritten == disk
WithImap == [disk EXCEPT !.imap = @ \cup {alloc_imap_bit}]
WithMaps == [WithImap EXCEPT !.smap = @ \cup alloc_smap_bit]
create_file(name) ==
  LET num == alloc_imap_bit
      m   == FreeEntryIndex
      s   == SlotFor(itab, num)
      t1  == new_inode(num)
      t2  == [t1 EXCEPT ![RootSlot].ino.size = IF m > @ THEN m ELSE @]
      d3  == sync_inode(t1, WithMaps, s)
      d4  == [d3 EXCEPT !.dir[m] = [ino |-> num, name |-> name]]
  IN  [tab |-> t2, slot |-> s, writes |-> <<WithImap, WithMaps, d3, d4, sync_inode(t2, d4, RootSlot)>>]

\* the end of do_open(): O_TRUNC, then the descriptor
Connect(p, fd, i, got, flags) ==
  LET cut == [got.tab EXCEPT ![got.slot].ino.size = 0]
      was == IF got.writes = <<>> THEN disk ELSE Last(got.writes)
  IN  /\ filp' = [filp EXCEPT ![p][fd] = i]
      /\ fdesc' = [fdesc EXCEPT ![i] = [ino |-> got.slot, cnt |-> 1]]
      /\ IF O_TRUNC \in flags
           THEN /\ itab' = cut
                /\ toWrite' = Append(got.writes, sync_inode(cut, was, got.slot))
           ELSE itab' = got.tab /\ toWrite' = got.writes

FreeFds(p) == {fd \in Fd : filp[p][fd] = 0}
FreeDescs  == {i \in Desc : fdesc[i].ino = 0}

OpenNew(p, name, flags) ==
  /\ search_file(name) = INVALID_INODE /\ O_CREAT \in flags
  /\ ~ NullInode /\ ~ NoRun /\ CanGet(itab, alloc_imap_bit) /\ FreeEntryIndex <= DirSlots
  /\ Connect(p, Min(FreeFds(p)), Min(FreeDescs), create_file(name), flags)
  /\ FsGoesOn

\* do_open() of what is there needs O_RDWR, and O_TRUNC if it has O_CREAT;
\* any other request returns -1 and changes nothing
OpenOld(p, name, flags) ==
  LET num == search_file(name) IN
  /\ num # INVALID_INODE /\ O_RDWR \in flags /\ (O_CREAT \in flags => O_TRUNC \in flags)
  /\ CanGet(itab, num) /\ itab[SlotFor(itab, num)].cnt < MaxRef
  /\ failed' = IF disk.ino[num].mode = NO_MODE THEN "i_mode" ELSE failed
  /\ Connect(p, Min(FreeFds(p)), Min(FreeDescs),
             [tab |-> get_inode(itab, disk, num), slot |-> SlotFor(itab, num), writes |-> <<>>], flags)
  /\ UNCHANGED <<disk, running, fsAlive, failures>>

OpenFails(p, name, flags) ==
  LET num == search_file(name) IN
  /\ \/ /\ FreeFds(p) = {} \/ FreeDescs = {}
        /\ Fail(IF FreeFds(p) = {} THEN "filp[] is full" ELSE "f_desc_table[] is full")
        /\ UNCHANGED toWrite
     \/ /\ FreeFds(p) # {} /\ FreeDescs # {} /\ num = INVALID_INODE /\ O_CREAT \in flags
        /\ \/ /\ NoRun /\ Fail("alloc_smap_bit") /\ toWrite' = <<WithImap>>
           \/ /\ ~ NoRun /\ (NullInode \/ ~ CanGet(itab, alloc_imap_bit))
              /\ Fail(IF NullInode THEN "alloc_imap_bit" ELSE "the inode table is full")
              /\ toWrite' = <<WithImap, WithMaps>>
     \/ /\ FreeFds(p) # {} /\ FreeDescs # {} /\ num # INVALID_INODE /\ O_RDWR \in flags
        /\ (O_CREAT \in flags => O_TRUNC \in flags) /\ ~ CanGet(itab, num)
        /\ Fail("the inode table is full") /\ UNCHANGED toWrite
  /\ UNCHANGED <<disk, itab, fdesc, filp, fsAlive, running, failures, torn>>

do_open(p, name, flags) ==
  /\ Serving /\ p \in fsAlive
  /\ \/ /\ FreeFds(p) # {} /\ FreeDescs # {}
        /\ OpenNew(p, name, flags) \/ OpenOld(p, name, flags)
        /\ UNCHANGED torn
     \/ OpenFails(p, name, flags)

\* a slot without references is the same as a cleared one once nobody has a
\* descriptor that points to it
Pointed(fp, fd, s) == \E p \in FsProc, f \in Fd : fp[p][f] # 0 /\ fd[fp[p][f]].ino = s
Freed(slot, pointed) == IF slot.cnt = 0 /\ ~ pointed THEN Free ELSE slot
\* Mutation: the last close() does not free the descriptor.
DroppedOnly(i) == [i EXCEPT !.cnt = @ - 1]
Dropped(i) == IF i.cnt = 1 THEN [ino |-> 0, cnt |-> 0] ELSE [i EXCEPT !.cnt = @ - 1]
do_close(p, fd) ==
  /\ Serving /\ p \in fsAlive /\ filp[p][fd] # 0
  /\ LET i == filp[p][fd]  s == fdesc[i].ino IN
     \/ /\ itab[s].cnt > 0
        /\ fdesc' = [fdesc EXCEPT ![i] = Dropped(@)]
        /\ filp' = [filp EXCEPT ![p][fd] = 0]
        /\ itab' = [put_inode(itab, s) EXCEPT ![s] = Freed(@, Pointed(filp', fdesc', s))]
        /\ UNCHANGED failed
     \/ itab[s].cnt <= 0 /\ Fail("put_inode") /\ UNCHANGED <<itab, fdesc, filp>>
  /\ UNCHANGED <<disk, toWrite, fsAlive, running, failures, torn>>

\* stat() gives back the i-node it takes
do_stat(name) ==
  /\ Serving /\ search_file(name) # INVALID_INODE
  /\ failed' = IF CanGet(itab, search_file(name)) THEN failed ELSE "the inode table is full"
  /\ UNCHANGED <<disk, toWrite, itab, fdesc, filp, fsAlive, running, failures, torn>>

(***************************************************************************)
(* do_unlink(): the maps, the i-node and last the directory entry.  A file *)
(* that is open, or not regular, keeps the reference get_inode() took.     *)
(***************************************************************************)
Removable(s, tab) == tab[s].ino.mode = I_REGULAR /\ tab[s].cnt = 1
UnlinkRefused(s, tab) ==
  /\ ~ Removable(s, tab)
  /\ tab[s].cnt <= MaxRef
  /\ itab' = tab /\ UNCHANGED toWrite /\ FsGoesOn

UnlinkFile(num, s, tab) ==
  LET file == tab[s].ino
      used == Bits(file.start, file.nr)
      nr   == Root(tab).size
      at   == {m \in 1 .. nr : disk.dir[m].ino = num}
      m    == Min(at)
      before == Cardinality({e \in 1 .. m - 1 : disk.dir[e].ino # INVALID_INODE})
      t1   == [tab EXCEPT ![s] = Freed([@ EXCEPT !.cnt = 0, !.ino = NoInode], Pointed(filp, fdesc, s))]
      t2   == IF m = nr THEN [t1 EXCEPT ![RootSlot].ino.size = before] ELSE t1
      d1   == [disk EXCEPT !.imap = @ \ {num}]
      d2   == [d1 EXCEPT !.smap = @ \ used]
      d3   == [d2 EXCEPT !.ino[num] = NoInode]
      d4   == [d3 EXCEPT !.dir[m] = FreeEntry]
  IN
  /\ Removable(s, tab)
  /\ \/ num \notin disk.imap /\ Fail("i-map") /\ itab' = tab /\ toWrite' = <<>>
     \/ num \in disk.imap /\ ~ used \subseteq disk.smap /\ Fail("s-map") /\ itab' = tab /\ toWrite' = <<d1>>
     \/ /\ num \in disk.imap /\ used \subseteq disk.smap
        /\ failed' = IF at = {} THEN "assert(flg)" ELSE "none"
        /\ itab' = IF at = {} THEN t1 ELSE t2
        /\ toWrite' = (IF at = {} THEN <<d1, d2, d3>> ELSE <<d1, d2, d3, d4>>)
                      \o (IF at # {} /\ m = nr THEN <<sync_inode(t2, d4, RootSlot)>> ELSE <<>>)
  /\ UNCHANGED <<disk, running, fsAlive, failures>>

do_unlink(name) ==
  LET num == search_file(name) IN
  /\ Serving /\ name # RootPath /\ num # INVALID_INODE
  /\ \/ CanGet(itab, num) /\ LET s == SlotFor(itab, num)  tab == get_inode(itab, disk, num)
                             IN  UnlinkRefused(s, tab) \/ UnlinkFile(num, s, tab)
     \/ /\ ~ CanGet(itab, num) /\ Fail("the inode table is full")
        /\ UNCHANGED <<disk, toWrite, itab, fsAlive, running, failures>>
  /\ UNCHANGED <<filp, fdesc, torn>>

(***************************************************************************)
(* fork() and exit(): MM has copied, or will free, the process table entry.*)
(***************************************************************************)
RefsOf(p, i) == Cardinality({fd \in Fd : filp[p][fd] = i})
InodeRefsOf(p, s) == Cardinality({fd \in Fd : filp[p][fd] # 0 /\ fdesc[filp[p][fd]].ino = s})

fs_fork(p, child) ==
  /\ Serving /\ p \in fsAlive /\ child \notin fsAlive
  /\ \A s \in Slot : itab[s].cnt + InodeRefsOf(p, s) <= MaxRef
  /\ fsAlive' = fsAlive \cup {child}
  /\ filp' = [filp EXCEPT ![child] = filp[p]]
  /\ fdesc' = [i \in Desc |-> [fdesc[i] EXCEPT !.cnt = @ + RefsOf(p, i)]]
  /\ itab' = [s \in Slot |-> [itab[s] EXCEPT !.cnt = @ + InodeRefsOf(p, s)]]
  /\ UNCHANGED <<disk, toWrite, running, failed, failures, torn>>

fs_exit(p) ==
  /\ Serving /\ p \in fsAlive /\ fsAlive # {p}
  /\ fsAlive' = fsAlive \ {p}
  /\ fdesc' = [i \in Desc |-> IF RefsOf(p, i) > 0 THEN Dropped(fdesc[i]) ELSE fdesc[i]]
  /\ filp' = [filp EXCEPT ![p] = [fd \in Fd |-> 0]]
  /\ itab' = [s \in Slot |-> Freed([itab[s] EXCEPT !.cnt = @ - InodeRefsOf(p, s)], Pointed(filp', fdesc', s))]
  /\ UNCHANGED <<disk, toWrite, running, failed, failures, torn>>

\* the WR_SECTs of the request are done; nobody sees the disk in between
WriteSectors ==
  /\ toWrite # <<>>
  /\ disk' = Last(toWrite) /\ toWrite' = <<>>
  /\ UNCHANGED <<itab, fdesc, filp, fsAlive, running, failed, failures, torn>>

(***************************************************************************)
(* init_fs(): the tables are cleared, a disk without the magic number is   *)
(* formatted and the root i-node is read, which comes after the writes of  *)
(* mkfs() and finds what they wrote.  A disk that unlink() or mkfs() has   *)
(* left torn is mounted as it is: nothing looks further than the magic.    *)
(***************************************************************************)
Unformatted == ~ disk.magic
EmptyTables ==
  /\ fdesc' = [i \in Desc |-> [ino |-> 0, cnt |-> 0]]
  /\ filp' = [p \in FsProc |-> [fd \in Fd |-> 0]]
init_fs ==
  /\ ~ running
  /\ running' = TRUE /\ failed' = "none" /\ \E p \in FsProc : fsAlive' = {p}
  /\ toWrite' = IF Unformatted THEN mkfs(disk) ELSE <<>>
  /\ itab' = get_inode([s \in Slot |-> Free],
                       IF Unformatted THEN Last(mkfs(disk)) ELSE disk, ROOT_INODE)
  /\ EmptyTables /\ UNCHANGED <<disk, failures, torn>>

\* the memory is lost, the disk is not; k sectors of the request were written
Written(k) == IF k = 0 THEN disk ELSE toWrite[k]
Freeing(k) ==
  /\ k > 0
  /\ \/ Written(k).ino[ROOT_INODE].mode # I_DIRECTORY
     \/ \E m \in 1 .. DirSlots : Written(k).dir[m].ino # INVALID_INODE /\ Last(toWrite).dir[m].ino = INVALID_INODE
PowerFails(k) ==
  /\ running /\ failures < MaxFailures
  /\ disk' = Written(k)
  /\ running' = FALSE /\ fsAlive' = {} /\ failed' = "none" /\ failures' = failures + 1
  /\ torn' = (torn \/ Freeing(k) \/ failed = "assert(flg)")
  /\ toWrite' = <<>> /\ itab' = [s \in Slot |-> Free] /\ EmptyTables

FsFilesInit ==
  /\ disk = BlankDisk /\ toWrite = <<>> /\ itab = [s \in Slot |-> Free]
  /\ fdesc = [i \in Desc |-> [ino |-> 0, cnt |-> 0]]
  /\ filp = [p \in FsProc |-> [fd \in Fd |-> 0]]
  /\ fsAlive = {} /\ running = FALSE /\ failed = "none" /\ failures = 0 /\ torn = FALSE

\* the flags that pass the assertions of do_open()
Flags == {{O_RDWR}, {O_RDWR, O_TRUNC}, {O_RDWR, O_CREAT}, {O_RDWR, O_CREAT, O_TRUNC}}
FsFilesNext ==
  \/ init_fs \/ WriteSectors
  \/ \E k \in 0 .. Len(toWrite) : PowerFails(k)
  \/ \E p \in FsProc, name \in Path, flags \in Flags : do_open(p, name, flags)
  \/ \E p \in FsProc, fd \in Fd : do_close(p, fd)
  \/ \E name \in Path : do_stat(name) \/ do_unlink(name)
  \/ \E p, q \in FsProc : fs_fork(p, q)
  \/ \E p \in FsProc : fs_exit(p)
FsFilesSpec == FsFilesInit /\ [][FsFilesNext]_fsFilesVars

-----------------------------------------------------------------------------
(* Properties *)

FsTypeOK ==
  /\ disk.imap \subseteq 0 .. NrInodes - 1 /\ disk.smap \subseteq 0 .. NrSects - 1
  /\ \A s \in Slot : itab[s].num \in 0 .. NrInodes - 1 /\ (torn \/ itab[s].cnt \in 0 .. MaxRef + 1)
  /\ fdesc \in [Desc -> [ino : 0 .. NR_INODE, cnt : 0 .. Cardinality(FsProc) * NR_FILES]]
  /\ filp \in [FsProc -> [Fd -> 0 .. NR_FILE_DESC]]
  /\ fsAlive \subseteq FsProc /\ running \in BOOLEAN /\ torn \in BOOLEAN

(* fd_cnt is the number of processes that hold the descriptor, through any *)
(* order of open(), close(), fork() and exit(), and a descriptor is free   *)
(* exactly when nobody holds it (open.c:197, main.c:573, main.c:599).      *)
DescriptorCountExact ==
  \A i \in Desc :
    /\ fdesc[i].cnt = Cardinality({h \in FsProc \X Fd : filp[h[1]][h[2]] = i})
    /\ fdesc[i].cnt = 0 <=> fdesc[i].ino = 0

(* i_cnt is never below the references that exist, so the slot of an open  *)
(* file, or of the root directory, is not given to another i-node while a  *)
(* descriptor still points to it (main.c:482, open.c:196, main.c:597).     *)
InodeHeld ==
  running => \A s \in Slot :
    itab[s].cnt >= Cardinality({h \in FsProc \X Fd : /\ filp[h[1]][h[2]] # 0
                                                    /\ fdesc[filp[h[1]][h[2]]].ino = s})
                   + (IF s = RootSlot THEN 1 ELSE 0)

(* Two processes never have two cached copies of one i-node.               *)
OneCopy ==
  \A s, t \in Slot : itab[s].cnt > 0 /\ itab[t].cnt > 0 /\ itab[s].num = itab[t].num => s = t

(* Between requests the cached i-nodes are those of the disk: what another *)
(* request, or the next start, reads is what the last one left             *)
(* (sync_inode(), main.c:542).                                             *)
CacheWrittenBack ==
  Serving => \A s \in Slot : itab[s].cnt > 0 => itab[s].ino = disk.ino[itab[s].num]

(* No two files share a sector, after power failures too: a creation that  *)
(* was cut short only leaks bits of the maps (open.c:298, link.c:109).     *)
Data(n) == IF disk.ino[n].mode \in {I_REGULAR, I_DIRECTORY} THEN Bits(disk.ino[n].start, disk.ino[n].nr) ELSE {}
SectorsDisjoint ==
  Serving => \A n, k \in 1 .. NrInodes - 1 : n # k => Data(n) \cap Data(k) = {}

(* While the power stays on, the maps are exactly what the i-nodes use.    *)
MapsExact ==
  failures = 0 /\ Serving =>
    /\ disk.imap = {0} \cup {n \in 1 .. NrInodes - 1 : disk.ino[n].mode # NO_MODE}
    /\ disk.smap = {0} \cup UNION {Data(n) : n \in 1 .. NrInodes - 1}

(* A directory entry names an i-node that is allocated, and no i-node has  *)
(* two entries, whenever the power fails during a creation: the entry is   *)
(* written after the i-node (open.c:174-180).                              *)
EntriesAllocated ==
  Serving =>
    /\ \A m \in 1 .. DirSlots : disk.dir[m].ino # INVALID_INODE =>
         disk.dir[m].ino \in disk.imap /\ disk.ino[disk.dir[m].ino].mode # NO_MODE
    /\ \A m, k \in 1 .. DirSlots : disk.dir[m].ino # INVALID_INODE /\ disk.dir[m].ino = disk.dir[k].ino => m = k

(* A file that somebody has open is not removed under him (link.c:74).     *)
OpenFileStays ==
  \A i \in Desc : fdesc[i].ino # 0 => itab[fdesc[i].ino].ino.mode # NO_MODE

(* The other assertions of FS hold: the bits unlink() clears are set, what *)
(* open() finds has a mode, put_inode() has something to put.              *)
FsAssertionsHold == failed \notin {"i-map", "s-map", "i_mode", "put_inode"}

(* "including unused slots (the file has been deleted but the slot is      *)
(* still there)" (link.c:168): unlink() finds the entry of the file that   *)
(* search_file() has just found.                                           *)
UnlinkFindsEntry == failed # "assert(flg)"

(* The tables in memory agree with each other: descriptors, slots and      *)
(* their counts, through open(), close(), fork(), exit() and unlink() in   *)
(* any order and failures of each (fs/main.c:480, 573-600; open.c:196).    *)
(* What depends on i-nodes that have one owner is lost with the first      *)
(* removal or format that is cut short: DiskConsistent says why.           *)
ReferencesExact ==
  /\ FsTypeOK /\ DescriptorCountExact
  /\ torn \/ (InodeHeld /\ OneCopy /\ OpenFileStays)

(* The disk is consistent: i-nodes, maps and directory agree, with the     *)
(* cache between requests and with each other after a power failure at any *)
(* sector of open(), and before the first or after the last sector of      *)
(* unlink() and mkfs() (open.c:174-180, 298; link.c:109).  Between two     *)
(* sectors of those the disk is left torn, and what this says is not true  *)
(* of it any more: unlink() frees the bit of the i-node map first          *)
(* (link.c:89-92) and the directory entry last (link.c:189), so the next   *)
(* open() of a new name hands out the i-node the old entry still names.    *)
DiskConsistent ==
  torn \/ (CacheWrittenBack /\ SectorsDisjoint /\ MapsExact /\ EntriesAllocated /\ FsAssertionsHold)
=============================================================================
