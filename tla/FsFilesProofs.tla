---------------------------- MODULE FsFilesProofs ----------------------------
(***************************************************************************)
(* What FS keeps of names, i-nodes and descriptors, for any number of      *)
(* processes, files and table entries: the tables in memory agree with     *)
(* each other, and the disk with the maps whenever the power may fail; the *)
(* bytes that a read() and a write() move, and the commands untar() puts   *)
(* on the disk.                                                            *)
(***************************************************************************)
EXTENDS FsFiles, FsRdwt, Install, Recursion, FiniteSetTheorems, SequenceTheorems

-----------------------------------------------------------------------------
(***************************************************************************)
(* The inductive invariant: the tables.                                    *)
(***************************************************************************)
InodeNo == 0 .. NrInodes - 1
Inode == [mode : {I_REGULAR, I_DIRECTORY, I_CHAR_SPECIAL, NO_MODE}, size : 0 .. DirSlots,
          start : Nat, nr : Nat]
Entry == [ino : InodeNo, name : FileName \cup {TtyName, TarName, DotName, NoName}]
Disk  == [magic : BOOLEAN, imap : SUBSET InodeNo, smap : SUBSET (0 .. NrSects - 1),
          ino : [1 .. NrInodes - 1 -> Inode], dir : [1 .. DirSlots -> Entry]]
Cached == [num : InodeNo, cnt : 0 .. MaxRef + 1, ino : Inode]
Tables == [Slot -> Cached]

TypesOK ==
  /\ disk \in Disk /\ toWrite \in Seq(Disk)
  /\ itab \in Tables
  /\ fdesc \in [Desc -> [ino : 0 .. NR_INODE, cnt : Nat]]
  /\ filp \in [FsProc -> [Fd -> 0 .. NR_FILE_DESC]]
  /\ fsAlive \subseteq FsProc /\ running \in BOOLEAN /\ torn \in BOOLEAN /\ failures \in Nat

Handle == FsProc \X Fd
\* who holds descriptor i, and who holds slot s through a descriptor
Holds(fp, i) == {h \in Handle : fp[h[1]][h[2]] = i}
Uses(fp, fd, s) == {h \in Handle : fp[h[1]][h[2]] # 0 /\ fd[fp[h[1]][h[2]]].ino = s}

\* a process has a descriptor once: fork() copies into an empty filp[]
HeldOnce == \A p \in FsProc : \A f, g \in Fd : (filp[p][f] = filp[p][g] /\ filp[p][f] # 0) => f = g
DeadHoldNothing == \A p \in FsProc \ fsAlive : \A f \in Fd : filp[p][f] = 0
CountsExact ==
  \A i \in Desc : fdesc[i].cnt = Cardinality(Holds(filp, i)) /\ (fdesc[i].cnt = 0 <=> fdesc[i].ino = 0)
SlotsHeld == \A s \in Slot : itab[s].cnt >= Cardinality(Uses(filp, fdesc, s)) + (IF s = RootSlot THEN 1 ELSE 0)
\* no two slots cache one i-node, and what is cached exists
OneEach(tab) ==
  \A s, t \in Slot : (tab[s].cnt > 0 /\ tab[t].cnt > 0 /\ tab[s].num = tab[t].num) => s = t
CachedExist(tab) == \A s \in Slot : tab[s].cnt > 0 => (tab[s].num # 0 /\ tab[s].ino.mode # NO_MODE)

NothingHeld ==
  /\ \A i \in Desc : fdesc[i] = [ino |-> 0, cnt |-> 0]
  /\ \A p \in FsProc : \A f \in Fd : filp[p][f] = 0
  /\ \A s \in Slot : itab[s] = Free
TablesOK ==
  /\ HeldOnce /\ DeadHoldNothing /\ CountsExact /\ OneEach(itab) /\ CachedExist(itab)
  /\ IF running THEN SlotsHeld /\ itab[RootSlot].num = ROOT_INODE
     ELSE NothingHeld /\ toWrite = <<>> /\ failed = "none"

(***************************************************************************)
(* The disk: what holds of it whenever the power may fail (Consistent),    *)
(* while the power has never failed (Exact), and what the images that are  *)
(* still to write will leave.                                              *)
(***************************************************************************)
DataIn(d, n) ==
  IF d.ino[n].mode \in {I_REGULAR, I_DIRECTORY} THEN Bits(d.ino[n].start, d.ino[n].nr) ELSE {}
MapsCover(d) ==
  /\ 0 \in d.imap /\ 0 \in d.smap
  /\ \A n \in 1 .. NrInodes - 1 : /\ d.ino[n].mode # NO_MODE => n \in d.imap
                                  /\ DataIn(d, n) \subseteq d.smap \ {0}
Apart(d) == \A n, k \in 1 .. NrInodes - 1 : n # k => DataIn(d, n) \cap DataIn(d, k) = {}
EntriesOK(d) ==
  /\ \A m \in 1 .. DirSlots : d.dir[m].ino # INVALID_INODE =>
       (d.dir[m].ino \in d.imap /\ d.ino[d.dir[m].ino].mode # NO_MODE)
  /\ \A m, k \in 1 .. DirSlots : (d.dir[m].ino # INVALID_INODE /\ d.dir[m].ino = d.dir[k].ino) => m = k
Consistent(d) ==
  /\ d.magic /\ d.ino[ROOT_INODE].mode = I_DIRECTORY
  /\ MapsCover(d) /\ Apart(d) /\ EntriesOK(d)
Exact(d) ==
  /\ \A n \in d.imap \ {0} : d.ino[n].mode # NO_MODE
  /\ \A b \in d.smap \ {0} : \E n \in 1 .. NrInodes - 1 : b \in DataIn(d, n)

Startable(d) == d = BlankDisk \/ Consistent(d)
Agrees(tab, d) == \A s \in Slot : tab[s].cnt > 0 => tab[s].ino = d.ino[tab[s].num]
After == IF toWrite = <<>> THEN disk ELSE toWrite[Len(toWrite)]
DiskOK ==
  /\ FsAssertionsHold
  /\ torn => ~ running
  /\ ~ running /\ failures = 0 => disk = BlankDisk
  /\ ~ running /\ ~ torn => Startable(disk)
  /\ running /\ failed = "none" => (Agrees(itab, After) /\ (failures = 0 => Exact(After)))
  /\ running /\ failed # "assert(flg)" =>
       /\ Consistent(After)
       /\ \A k \in 0 .. Len(toWrite) : ~ Freeing(k) => Startable(Written(k))

IInv == TypesOK /\ TablesOK /\ DiskOK

-----------------------------------------------------------------------------
\* Min() of FiniteSetsExt, on sets of naturals.
LEMMA MinFacts ==
  ASSUME NEW S \in SUBSET Nat, S # {}
  PROVE  Min(S) \in S /\ \A y \in S : Min(S) <= y
<1> DEFINE R == {ss \in Nat \X Nat : ss[1] < ss[2]}
<1>1. IsWellFoundedOn(R, Nat)
  BY NatLessThanWellFounded DEF OpToRel
<1>2. PICK x \in S : \A y \in S : <<y, x>> \notin R
  <2> HIDE DEF R
  <2> QED
    BY <1>1, WFMin
<1>3. \A y \in S : x <= y
  <2> SUFFICES ASSUME NEW y \in S PROVE x <= y
    OBVIOUS
  <2>1. ~ (y < x)
    BY <1>2
  <2> QED
    BY <2>1
<1> QED
  BY <1>2, <1>3 DEF Min

LEMMA MinIs ==
  ASSUME NEW S \in SUBSET Nat, NEW x \in S, \A y \in S : x <= y
  PROVE  Min(S) = x
<1> DEFINE m == Min(S)
<1>1. m \in S /\ \A y \in S : m <= y
  BY MinFacts
<1>2. m <= x /\ x <= m
  BY <1>1
<1>3. m \in Nat /\ x \in Nat
  BY <1>1
<1> HIDE DEF m
<1>4. m = x
  BY <1>2, <1>3
<1> QED
  BY <1>4 DEF m

\* What the assumption on the constants says, one fact at a time.
LEMMA SizeFacts ==
  /\ IsFiniteSet(FsProc)
  /\ NR_CONSOLES \in Nat \ {0} /\ NR_FILES \in Nat \ {0} /\ NR_FILE_DESC \in Nat \ {0}
  /\ NR_INODE \in Nat \ {0} /\ NR_DEFAULT_FILE_SECTS \in Nat \ {0} /\ INSTALL_NR_SECTS \in Nat \ {0}
  /\ DirSlots \in Nat \ {0} /\ MaxRef \in Nat \ {0} /\ MaxFailures \in Nat
  /\ INSTALL_START \in Nat /\ NrSects \in Nat
  /\ NrInodes \in Nat /\ NrInodes > NR_CONSOLES + 2 /\ DirSlots >= NR_CONSOLES + 2
  /\ INSTALL_START > NR_DEFAULT_FILE_SECTS /\ NrSects >= INSTALL_START + INSTALL_NR_SECTS
BY FsFilesAssumption DEF FsFilesAssumption, TarInode

-----------------------------------------------------------------------------
(***************************************************************************)
(* Counting who holds what.                                                *)
(***************************************************************************)
Filps  == [FsProc -> [Fd -> 0 .. NR_FILE_DESC]]
Fdescs == [Desc -> [ino : 0 .. NR_INODE, cnt : Nat]]

LEMMA NonzeroDesc == \A v \in 0 .. NR_FILE_DESC : v # 0 => v \in Desc
BY SizeFacts DEF Desc

LEMMA HandleFacts ==
  /\ \A h \in Handle : h[1] \in FsProc /\ h[2] \in Fd /\ h = <<h[1], h[2]>>
  /\ \A X \in SUBSET Handle :
       IsFiniteSet(X) /\ Cardinality(X) \in Nat /\ Cardinality(X) <= Cardinality(FsProc) * NR_FILES
  /\ Cardinality(FsProc) \in Nat
<1>1. IsFiniteSet(FsProc) /\ NR_FILES \in Nat /\ NR_FILES > 0
  BY SizeFacts
<1>2. IsFiniteSet(Fd) /\ Cardinality(Fd) = NR_FILES
  BY <1>1, FS_Interval DEF Fd
<1>3. IsFiniteSet(Handle) /\ Cardinality(Handle) = Cardinality(FsProc) * NR_FILES
  BY <1>1, <1>2, FS_Product DEF Handle
<1>4. \A X \in SUBSET Handle :
        IsFiniteSet(X) /\ Cardinality(X) \in Nat /\ Cardinality(X) <= Cardinality(FsProc) * NR_FILES
  BY <1>3, FS_Subset, FS_CardinalityType
<1>5. \A h \in Handle : h[1] \in FsProc /\ h[2] \in Fd /\ h = <<h[1], h[2]>>
  BY DEF Handle
<1> QED
  BY <1>1, <1>4, <1>5, FS_CardinalityType

\* What the sets of holders are subsets of.
LEMMA HoldersAreHandles ==
  ASSUME NEW fp, NEW fd, NEW i
  PROVE  Holds(fp, i) \in SUBSET Handle /\ Uses(fp, fd, i) \in SUBSET Handle
BY DEF Holds, Uses

LEMMA HandleUnion ==
  ASSUME NEW X \in SUBSET Handle, NEW Y \in SUBSET Handle, X \cap Y = {}
  PROVE  Cardinality(X \cup Y) = Cardinality(X) + Cardinality(Y)
<1>1. IsFiniteSet(X) /\ IsFiniteSet(Y) /\ Cardinality(X) \in Nat /\ Cardinality(Y) \in Nat
  BY HandleFacts
<1>2. Cardinality(X \cup Y) = Cardinality(X) + Cardinality(Y) - Cardinality(X \cap Y)
  BY <1>1, FS_Union
<1>3. Cardinality(X \cap Y) = 0
  BY FS_EmptySet
<1> QED
  BY <1>1, <1>2, <1>3

LEMMA HandleMinus ==
  ASSUME NEW X \in SUBSET Handle, NEW Y \in SUBSET Handle, Y \subseteq X
  PROVE  Cardinality(X \ Y) = Cardinality(X) - Cardinality(Y)
<1>1. IsFiniteSet(X) /\ X \cap Y = Y
  BY HandleFacts
<1>2. Cardinality(X \ Y) = Cardinality(X) - Cardinality(X \cap Y)
  BY <1>1, FS_Difference
<1> QED
  BY <1>1, <1>2

\* A descriptor that was free and is given to process p (open.c:120-198).
Opened(fp, fd, fp2, fd2, p, f, i, s) ==
  /\ p \in FsProc /\ f \in Fd /\ i \in Desc /\ s \in Slot /\ fp[p][f] = 0 /\ Holds(fp, i) = {}
  /\ fp2 = [fp EXCEPT ![p][f] = i] /\ fd2 = [fd EXCEPT ![i] = [ino |-> s, cnt |-> 1]]
CountedOnce(fp, fd, fp2, fd2, i, s) ==
  /\ Cardinality(Holds(fp2, i)) = 1
  /\ \A j \in Desc \ {i} : Holds(fp2, j) = Holds(fp, j)
  /\ Cardinality(Uses(fp2, fd2, s)) = Cardinality(Uses(fp, fd, s)) + 1
  /\ \A r \in Slot \ {s} : Uses(fp2, fd2, r) = Uses(fp, fd, r)
LEMMA OpenCounts ==
  ASSUME NEW fp \in Filps, NEW fd \in Fdescs, NEW fp2, NEW fd2, NEW p, NEW f, NEW i, NEW s,
         Opened(fp, fd, fp2, fd2, p, f, i, s)
  PROVE  CountedOnce(fp, fd, fp2, fd2, i, s)
<1> USE DEF Opened
<1>0. i # 0 /\ 0 \notin Desc
  BY SizeFacts DEF Desc
<1>1. \A h \in Handle : /\ fp2[h[1]][h[2]] = IF h = <<p, f>> THEN i ELSE fp[h[1]][h[2]]
                        /\ fp[h[1]][h[2]] \in 0 .. NR_FILE_DESC
  BY HandleFacts DEF Filps
<1>2. <<p, f>> \in Handle
  BY DEF Handle
<1>3. \A h \in Handle : fp[h[1]][h[2]] # i
  BY DEF Holds
<1>4. \A h \in Handle : fp[h[1]][h[2]] # 0 => fd2[fp[h[1]][h[2]]] = fd[fp[h[1]][h[2]]]
  <2> SUFFICES ASSUME NEW h \in Handle, fp[h[1]][h[2]] # 0
               PROVE  fd2[fp[h[1]][h[2]]] = fd[fp[h[1]][h[2]]]
    OBVIOUS
  <2>1. PICK j \in Desc : j = fp[h[1]][h[2]]
    BY <1>1, NonzeroDesc
  <2>2. j # i
    BY <2>1, <1>3
  <2> QED
    BY <2>1, <2>2 DEF Fdescs
<1>5. fd2[i].ino = s
  BY DEF Fdescs
<1>6. Holds(fp2, i) = {<<p, f>>}
  BY <1>1, <1>2, <1>3 DEF Holds
<1>7. \A j \in Desc \ {i} : Holds(fp2, j) = Holds(fp, j)
  BY <1>0, <1>1, <1>2 DEF Holds
<1>8. fp[p][f] = 0 /\ <<p, f>>[1] = p /\ <<p, f>>[2] = f
  OBVIOUS
<1>9. Uses(fp2, fd2, s) = Uses(fp, fd, s) \cup {<<p, f>>}
  <2>1. \A h \in Handle : h \in Uses(fp2, fd2, s) <=> h \in Uses(fp, fd, s) \cup {<<p, f>>}
    BY <1>0, <1>1, <1>4, <1>5, <1>8 DEF Uses
  <2> QED
    BY <2>1, <1>2, HoldersAreHandles
<1>10. <<p, f>> \notin Uses(fp, fd, s)
  BY <1>8 DEF Uses
<1>11. Cardinality(Uses(fp2, fd2, s)) = Cardinality(Uses(fp, fd, s)) + 1
  BY <1>9, <1>10, FS_AddElement, HoldersAreHandles, HandleFacts, ZenonT(60)
<1>12. ASSUME NEW r \in Slot \ {s} PROVE Uses(fp2, fd2, r) = Uses(fp, fd, r)
  <2>1. \A h \in Handle : h \in Uses(fp2, fd2, r) <=> h \in Uses(fp, fd, r)
    BY <1>0, <1>1, <1>4, <1>5, <1>8 DEF Uses
  <2> QED
    BY <2>1, HoldersAreHandles, ZenonT(40)
<1> QED
  BY <1>6, <1>7, <1>11, <1>12, FS_Singleton DEF CountedOnce

\* A descriptor that process p holds is given up (open.c:207-218).
OneClosed(fp, fd, fp2, fd2, p, f, i, s) ==
  /\ p \in FsProc /\ f \in Fd /\ i \in Desc /\ s \in Slot /\ fp[p][f] = i /\ fd[i].ino = s
  /\ fd[i].cnt = Cardinality(Holds(fp, i))
  /\ fp2 = [fp EXCEPT ![p][f] = 0] /\ fd2 = [fd EXCEPT ![i] = Dropped(@)]
CountedDown(fp, fd, fp2, fd2, i, s) ==
  /\ Cardinality(Holds(fp2, i)) = Cardinality(Holds(fp, i)) - 1
  /\ \A j \in Desc \ {i} : Holds(fp2, j) = Holds(fp, j)
  /\ Cardinality(Uses(fp, fd, s)) > 0
  /\ Cardinality(Uses(fp2, fd2, s)) = Cardinality(Uses(fp, fd, s)) - 1
  /\ \A r \in Slot \ {s} : Uses(fp2, fd2, r) = Uses(fp, fd, r)
LEMMA CloseCounts ==
  ASSUME NEW fp \in Filps, NEW fd \in Fdescs, NEW fp2, NEW fd2, NEW p, NEW f, NEW i, NEW s,
         OneClosed(fp, fd, fp2, fd2, p, f, i, s)
  PROVE  CountedDown(fp, fd, fp2, fd2, i, s)
<1> USE DEF OneClosed
<1>0. i # 0 /\ 0 \notin Desc
  BY SizeFacts DEF Desc
<1>1. \A h \in Handle : /\ fp2[h[1]][h[2]] = IF h = <<p, f>> THEN 0 ELSE fp[h[1]][h[2]]
                        /\ fp[h[1]][h[2]] \in 0 .. NR_FILE_DESC
  BY HandleFacts DEF Filps
<1>2. <<p, f>> \in Handle /\ <<p, f>>[1] = p /\ <<p, f>>[2] = f
  BY DEF Handle
<1>3. <<p, f>> \in Holds(fp, i)
  BY <1>2 DEF Holds
<1>4. \A h \in Handle : (h # <<p, f>> /\ fp[h[1]][h[2]] = i) => fd[i].cnt # 1
  <2> SUFFICES ASSUME NEW h \in Handle, h # <<p, f>>, fp[h[1]][h[2]] = i, fd[i].cnt = 1
               PROVE  FALSE
    OBVIOUS
  <2>1. h \in Holds(fp, i)
    BY DEF Holds
  <2>2. PICK x : Holds(fp, i) = {x}
    BY FS_Singleton, HoldersAreHandles, HandleFacts
  <2> QED
    BY <2>1, <2>2, <1>3
<1>5. \A h \in Handle : (h # <<p, f>> /\ fp[h[1]][h[2]] # 0)
                          => fd2[fp[h[1]][h[2]]].ino = fd[fp[h[1]][h[2]]].ino
  <2> SUFFICES ASSUME NEW h \in Handle, h # <<p, f>>, fp[h[1]][h[2]] # 0
               PROVE  fd2[fp[h[1]][h[2]]].ino = fd[fp[h[1]][h[2]]].ino
    OBVIOUS
  <2>1. PICK j \in Desc : j = fp[h[1]][h[2]]
    BY <1>1, NonzeroDesc
  <2>2. fd[j] \in [ino : 0 .. NR_INODE, cnt : Nat] /\ fd2[j] = IF j = i THEN Dropped(fd[j]) ELSE fd[j]
    BY DEF Fdescs
  <2>3. j = i => fd[j].cnt # 1
    BY <2>1, <1>4
  <2>4. fd2[j].ino = fd[j].ino
    BY <2>2, <2>3 DEF Dropped
  <2> QED
    BY <2>1, <2>4
<1>6. Holds(fp2, i) = Holds(fp, i) \ {<<p, f>>}
  BY <1>0, <1>1 DEF Holds
<1>7. \A j \in Desc \ {i} : Holds(fp2, j) = Holds(fp, j)
  BY <1>0, <1>1, <1>2 DEF Holds
<1>8. Uses(fp2, fd2, s) = Uses(fp, fd, s) \ {<<p, f>>}
  <2>1. \A h \in Handle : h \in Uses(fp2, fd2, s) <=> h \in Uses(fp, fd, s) \ {<<p, f>>}
    BY <1>0, <1>1, <1>5 DEF Uses
  <2> QED
    BY <2>1, <1>2, HoldersAreHandles
<1>9. <<p, f>> \in Uses(fp, fd, s)
  BY <1>0, <1>2 DEF Uses
<1>10. ASSUME NEW r \in Slot \ {s} PROVE Uses(fp2, fd2, r) = Uses(fp, fd, r)
  <2>1. \A h \in Handle : h \in Uses(fp2, fd2, r) <=> h \in Uses(fp, fd, r)
    BY <1>0, <1>1, <1>2, <1>5 DEF Uses
  <2>2. Uses(fp2, fd2, r) \in SUBSET Handle /\ Uses(fp, fd, r) \in SUBSET Handle
    BY HoldersAreHandles
  <2> QED
    BY <2>1, <2>2
<1>11. /\ Cardinality(Uses(fp2, fd2, s)) = Cardinality(Uses(fp, fd, s)) - 1
       /\ Cardinality(Holds(fp2, i)) = Cardinality(Holds(fp, i)) - 1
  <2>1. IsFiniteSet(Uses(fp, fd, s)) /\ IsFiniteSet(Holds(fp, i))
    BY HoldersAreHandles, HandleFacts
  <2>2. /\ Cardinality(Uses(fp, fd, s) \ {<<p, f>>}) = Cardinality(Uses(fp, fd, s)) - 1
        /\ Cardinality(Holds(fp, i) \ {<<p, f>>}) = Cardinality(Holds(fp, i)) - 1
    BY <2>1, <1>3, <1>9, FS_RemoveElement
  <2> QED
    BY <2>2, <1>6, <1>8
<1>12. Cardinality(Uses(fp, fd, s)) > 0
  <2>1. Cardinality(Uses(fp, fd, s)) \in Nat /\ IsFiniteSet(Uses(fp, fd, s))
    BY HoldersAreHandles, HandleFacts
  <2>2. Cardinality(Uses(fp, fd, s)) # 0
    BY <2>1, <1>9, FS_EmptySet
  <2> QED
    BY <2>1, <2>2
<1> QED
  BY <1>7, <1>10, <1>11, <1>12 DEF CountedDown

\* The handles of one process.
LEMMA OfOneProcess ==
  ASSUME NEW p \in FsProc, NEW X \in SUBSET Fd
  PROVE  /\ IsFiniteSet({p} \X X) /\ Cardinality({p} \X X) = Cardinality(X)
         /\ {p} \X X \in SUBSET Handle /\ IsFiniteSet(X) /\ Cardinality(X) \in Nat
<1>1. IsFiniteSet(X) /\ Cardinality(X) \in Nat
  <2>1. IsFiniteSet(Fd)
    BY SizeFacts, FS_Interval DEF Fd
  <2>2. IsFiniteSet(X)
    BY <2>1, FS_Subset
  <2> QED
    BY <2>2, FS_CardinalityType
<1>2. IsFiniteSet({p}) /\ Cardinality({p}) = 1
  BY FS_Singleton
<1>3. IsFiniteSet({p} \X X) /\ Cardinality({p} \X X) = 1 * Cardinality(X)
  BY <1>1, <1>2, FS_Product
<1>4. {p} \X X \in SUBSET Handle
  BY DEF Handle
<1> QED
  BY <1>1, <1>3, <1>4

Fds(fp, p, i) == {f \in Fd : fp[p][f] = i}
SlotFds(fp, fd, p, s) == {f \in Fd : fp[p][f] # 0 /\ fd[fp[p][f]].ino = s}

\* fork(): the child holds what its parent holds (fs/main.c:570-579).
Forked(fp, fd, fp2, fd2, p, c) ==
  /\ p \in FsProc /\ c \in FsProc /\ c # p /\ \A f \in Fd : fp[c][f] = 0
  /\ fp2 = [fp EXCEPT ![c] = fp[p]]
  /\ \A i \in Desc : fd2[i].ino = fd[i].ino
CountedFor(fp, fd, fp2, fd2, p) ==
  /\ \A i \in Desc : Cardinality(Holds(fp2, i)) = Cardinality(Holds(fp, i)) + Cardinality(Fds(fp, p, i))
  /\ \A s \in Slot : Cardinality(Uses(fp2, fd2, s))
                       = Cardinality(Uses(fp, fd, s)) + Cardinality(SlotFds(fp, fd, p, s))
LEMMA ForkCounts ==
  ASSUME NEW fp \in Filps, NEW fd \in Fdescs, NEW fp2, NEW fd2, NEW p, NEW c,
         Forked(fp, fd, fp2, fd2, p, c)
  PROVE  CountedFor(fp, fd, fp2, fd2, p)
<1> USE DEF Forked
<1>0. 0 \notin Desc
  BY SizeFacts DEF Desc
<1>1. \A h \in Handle : /\ fp2[h[1]][h[2]] = IF h[1] = c THEN fp[p][h[2]] ELSE fp[h[1]][h[2]]
                        /\ fp[h[1]][h[2]] \in 0 .. NR_FILE_DESC
                        /\ h[1] = c => fp[h[1]][h[2]] = 0
                        /\ h[1] \in FsProc /\ h[2] \in Fd
  BY HandleFacts DEF Filps
<1>3. ASSUME NEW i \in Desc
      PROVE  Cardinality(Holds(fp2, i)) = Cardinality(Holds(fp, i)) + Cardinality(Fds(fp, p, i))
  <2> DEFINE C == {c} \X Fds(fp, p, i)
  <2>1. Fds(fp, p, i) \in SUBSET Fd
    BY DEF Fds
  <2>2. C \in SUBSET Handle /\ Cardinality(C) = Cardinality(Fds(fp, p, i))
    BY <2>1, OfOneProcess
  <2>3. \A h \in Handle : h \in C <=> h[1] = c /\ fp[p][h[2]] = i
    BY <1>1, HandleFacts DEF Fds
  <2>4. \A h \in Handle : h \in Holds(fp2, i) <=> h \in Holds(fp, i) \cup C
    BY <2>3, <1>0, <1>1 DEF Holds
  <2>5. Holds(fp, i) \cap C = {}
    BY <2>2, <2>3, <1>0, <1>1 DEF Holds
  <2>6. Holds(fp2, i) = Holds(fp, i) \cup C
    BY <2>4, <2>2, HoldersAreHandles
  <2> QED
    <3> HIDE DEF C
    <3>1. Holds(fp, i) \in SUBSET Handle
      BY HoldersAreHandles
    <3>2. Cardinality(Holds(fp, i) \cup C) = Cardinality(Holds(fp, i)) + Cardinality(C)
      BY <3>1, <2>2, <2>5, HandleUnion
    <3> QED
      BY <3>2, <2>2, <2>6
<1>4. ASSUME NEW s \in Slot
      PROVE  Cardinality(Uses(fp2, fd2, s)) = Cardinality(Uses(fp, fd, s)) + Cardinality(SlotFds(fp, fd, p, s))
  <2> DEFINE C == {c} \X SlotFds(fp, fd, p, s)
  <2>1. SlotFds(fp, fd, p, s) \in SUBSET Fd
    BY DEF SlotFds
  <2>2. C \in SUBSET Handle /\ Cardinality(C) = Cardinality(SlotFds(fp, fd, p, s))
    BY <2>1, OfOneProcess
  <2>3. \A h \in Handle : h \in C <=> (h[1] = c /\ fp[p][h[2]] # 0 /\ fd[fp[p][h[2]]].ino = s)
    BY <1>1, HandleFacts DEF SlotFds
  <2>4. \A n \in 0 .. NR_FILE_DESC : n # 0 => fd2[n].ino = fd[n].ino
    BY SizeFacts DEF Desc
  <2>5. \A h \in Handle : fp[p][h[2]] \in 0 .. NR_FILE_DESC
    BY <1>1 DEF Filps
  <2>6. \A h \in Handle : h \in Uses(fp2, fd2, s) <=> h \in Uses(fp, fd, s) \cup C
    BY <2>3, <2>4, <2>5, <1>1 DEF Uses
  <2>7. Uses(fp, fd, s) \cap C = {}
    BY <2>2, <2>3, <1>1 DEF Uses
  <2>8. Uses(fp2, fd2, s) = Uses(fp, fd, s) \cup C
    BY <2>6, <2>2, HoldersAreHandles
  <2> QED
    <3> HIDE DEF C
    <3>1. Uses(fp, fd, s) \in SUBSET Handle
      BY HoldersAreHandles
    <3>2. Cardinality(Uses(fp, fd, s) \cup C) = Cardinality(Uses(fp, fd, s)) + Cardinality(C)
      BY <3>1, <2>2, <2>7, HandleUnion
    <3> QED
      BY <3>2, <2>2, <2>8
<1> QED
  BY <1>3, <1>4 DEF CountedFor

\* exit(): what a process held once each is given up (fs/main.c:588-602).
Exited(fp, fd, fp2, fd2, p) ==
  /\ p \in FsProc /\ \A f, g \in Fd : (fp[p][f] = fp[p][g] /\ fp[p][f] # 0) => f = g
  /\ \A i \in Desc : fd[i].cnt = Cardinality(Holds(fp, i))
  /\ fp2 = [fp EXCEPT ![p] = [f \in Fd |-> 0]]
  /\ fd2 = [i \in Desc |-> IF Cardinality(Fds(fp, p, i)) > 0 THEN Dropped(fd[i]) ELSE fd[i]]
CountedWithout(fp, fd, fp2, fd2, p) ==
  /\ \A i \in Desc : /\ Cardinality(Fds(fp, p, i)) \in {0, 1}
                      /\ Cardinality(Holds(fp2, i)) = Cardinality(Holds(fp, i)) - Cardinality(Fds(fp, p, i))
  /\ \A s \in Slot : /\ Cardinality(SlotFds(fp, fd, p, s)) <= Cardinality(Uses(fp, fd, s))
                      /\ Cardinality(Uses(fp2, fd2, s))
                           = Cardinality(Uses(fp, fd, s)) - Cardinality(SlotFds(fp, fd, p, s))
LEMMA ExitCounts ==
  ASSUME NEW fp \in Filps, NEW fd \in Fdescs, NEW fp2, NEW fd2, NEW p, Exited(fp, fd, fp2, fd2, p)
  PROVE  CountedWithout(fp, fd, fp2, fd2, p)
<1> USE DEF Exited
<1>0. 0 \notin Desc
  BY SizeFacts DEF Desc
<1>1. \A h \in Handle : /\ fp2[h[1]][h[2]] = IF h[1] = p THEN 0 ELSE fp[h[1]][h[2]]
                        /\ fp[h[1]][h[2]] \in 0 .. NR_FILE_DESC
                        /\ h[1] \in FsProc /\ h[2] \in Fd
  BY HandleFacts DEF Filps
<1>3. ASSUME NEW i \in Desc
      PROVE  /\ Cardinality(Fds(fp, p, i)) \in {0, 1}
             /\ Cardinality(Holds(fp2, i)) = Cardinality(Holds(fp, i)) - Cardinality(Fds(fp, p, i))
             /\ Fds(fp, p, i) # {} => Cardinality(Fds(fp, p, i)) > 0
  <2> DEFINE F == Fds(fp, p, i)
             C == {p} \X F
  <2>1. F \in SUBSET Fd
    BY DEF Fds
  <2>2. C \in SUBSET Handle /\ Cardinality(C) = Cardinality(F)
    BY <2>1, OfOneProcess
  <2>3. \A h \in Handle : h \in C <=> h[1] = p /\ fp[p][h[2]] = i
    BY <1>1, HandleFacts DEF Fds
  <2>4. \A h \in Handle : h \in Holds(fp2, i) <=> h \in Holds(fp, i) \ C
    BY <2>3, <1>0, <1>1 DEF Holds
  <2>5. C \subseteq Holds(fp, i)
    BY <2>2, <2>3, <1>1 DEF Holds
  <2>6. Holds(fp2, i) = Holds(fp, i) \ C
    BY <2>4, <2>2, HoldersAreHandles
  <2>7. Cardinality(F) = 0 \/ Cardinality(F) = 1
    <3>1. CASE F = {}
      BY <3>1, FS_EmptySet
    <3>2. CASE F # {}
      <4>1. PICK g \in F : TRUE
        BY <3>2
      <4>2. F = {g}
        BY <4>1, <1>0 DEF Fds
      <4> QED
        BY <4>2, FS_Singleton
    <3> QED
      BY <3>1, <3>2
  <2>8. F # {} => Cardinality(F) # 0
    <3>1. IsFiniteSet(F)
      BY <2>1, OfOneProcess
    <3> QED
      BY <3>1, FS_EmptySet
  <2> QED
    <3>1. Cardinality(Holds(fp2, i)) = Cardinality(Holds(fp, i)) - Cardinality(F)
      <4> HIDE DEF C
      <4>1. Holds(fp, i) \in SUBSET Handle
        BY HoldersAreHandles
      <4>2. Cardinality(Holds(fp, i) \ C) = Cardinality(Holds(fp, i)) - Cardinality(C)
        BY <4>1, <2>2, <2>5, HandleMinus
      <4> QED
        BY <4>2, <2>2, <2>6
    <3> QED
      BY <3>1, <2>7, <2>8
<1>4. \A h \in Handle : (h[1] # p /\ fp[h[1]][h[2]] # 0) => fd2[fp[h[1]][h[2]]].ino = fd[fp[h[1]][h[2]]].ino
  <2> SUFFICES ASSUME NEW h \in Handle, h[1] # p, fp[h[1]][h[2]] # 0
               PROVE  fd2[fp[h[1]][h[2]]].ino = fd[fp[h[1]][h[2]]].ino
    OBVIOUS
  <2> DEFINE i == fp[h[1]][h[2]]
  <2>1. i \in Desc
    BY <1>1, NonzeroDesc
  <2>2. CASE Cardinality(Fds(fp, p, i)) > 0
    <3>1. PICK g \in Fds(fp, p, i) : TRUE
      <4>1. Fds(fp, p, i) # {}
        <5>1. Cardinality(Fds(fp, p, i)) # 0
          BY <2>2
        <5> QED
          BY <5>1, FS_EmptySet
      <4> QED
        BY <4>1
    <3>2. h \in Holds(fp, i) /\ <<p, g>> \in Holds(fp, i)
      BY <3>1 DEF Holds, Handle, Fds
    <3>3. <<p, g>> # h
      OBVIOUS
    <3>4. Cardinality(Holds(fp, i)) # 1
      <4>1. IsFiniteSet(Holds(fp, i))
        BY HoldersAreHandles, HandleFacts
      <4>2. ~ \E x : Holds(fp, i) = {x}
        BY <3>2, <3>3
      <4> QED
        BY <4>1, <4>2, FS_Singleton
    <3>5. fd2[i] = [fd[i] EXCEPT !.cnt = @ - 1]
      BY <2>1, <2>2, <3>4 DEF Dropped
    <3> QED
      BY <3>5, <2>1 DEF Fdescs
  <2>3. CASE ~ (Cardinality(Fds(fp, p, i)) > 0)
    BY <2>1, <2>3
  <2> QED
    BY <2>2, <2>3
<1>5. ASSUME NEW s \in Slot
      PROVE  /\ Cardinality(SlotFds(fp, fd, p, s)) <= Cardinality(Uses(fp, fd, s))
             /\ Cardinality(Uses(fp2, fd2, s)) = Cardinality(Uses(fp, fd, s)) - Cardinality(SlotFds(fp, fd, p, s))
  <2> DEFINE C == {p} \X SlotFds(fp, fd, p, s)
  <2>1. SlotFds(fp, fd, p, s) \in SUBSET Fd
    BY DEF SlotFds
  <2>2. C \in SUBSET Handle /\ Cardinality(C) = Cardinality(SlotFds(fp, fd, p, s))
    BY <2>1, OfOneProcess
  <2>3. \A h \in Handle : h \in C <=> (h[1] = p /\ fp[p][h[2]] # 0 /\ fd[fp[p][h[2]]].ino = s)
    BY <1>1, HandleFacts DEF SlotFds
  <2>4. \A h \in Handle : h \in Uses(fp2, fd2, s) <=> h \in Uses(fp, fd, s) \ C
    BY <2>3, <1>1, <1>4 DEF Uses
  <2>5. C \subseteq Uses(fp, fd, s)
    BY <2>2, <2>3, <1>1 DEF Uses
  <2>6. Uses(fp2, fd2, s) = Uses(fp, fd, s) \ C
    BY <2>4, <2>2, HoldersAreHandles
  <2> QED
    <3> HIDE DEF C
    <3>1. Uses(fp, fd, s) \in SUBSET Handle
      BY HoldersAreHandles
    <3>2. Cardinality(Uses(fp, fd, s) \ C) = Cardinality(Uses(fp, fd, s)) - Cardinality(C)
      BY <3>1, <2>2, <2>5, HandleMinus
    <3>3. Cardinality(C) <= Cardinality(Uses(fp, fd, s))
      BY <3>1, <2>5, HandleFacts, FS_Subset
    <3> QED
      BY <3>2, <3>3, <2>2, <2>6
<1> QED
  BY <1>3, <1>5 DEF CountedWithout

-----------------------------------------------------------------------------
(***************************************************************************)
(* The i-node cache and the search in the directory.                       *)
(***************************************************************************)
LEMMA SlotForFacts ==
  ASSUME NEW tab \in Tables, NEW num, CanGet(tab, num)
  PROVE  /\ SlotFor(tab, num) \in Slot
         /\ IF CachedAt(tab, num) # {} THEN tab[SlotFor(tab, num)].cnt # 0 /\ tab[SlotFor(tab, num)].num = num
            ELSE tab[SlotFor(tab, num)].cnt = 0
<1>1. CachedAt(tab, num) \in SUBSET Nat /\ FreeSlots(tab) \in SUBSET Nat
  BY SizeFacts DEF CachedAt, FreeSlots, Slot
<1>2. CASE CachedAt(tab, num) # {}
  <2>1. Min(CachedAt(tab, num)) \in CachedAt(tab, num)
    BY <1>1, <1>2, MinFacts
  <2> QED
    BY <2>1, <1>2 DEF SlotFor, CachedAt
<1>3. CASE CachedAt(tab, num) = {}
  <2>1. Min(FreeSlots(tab)) \in FreeSlots(tab)
    BY <1>1, <1>3, MinFacts DEF CanGet
  <2> QED
    BY <2>1, <1>3 DEF SlotFor, FreeSlots
<1> QED
  BY <1>2, <1>3

\* get_inode() (fs/main.c:461-505): the i-node of the disk, one reference more.
LEMMA GetInodeFacts ==
  ASSUME NEW tab \in Tables, NEW d \in Disk, NEW num \in InodeNo \ {0}, CanGet(tab, num),
         OneEach(tab), Agrees(tab, d),
         NEW s, s = SlotFor(tab, num), tab[s].cnt <= MaxRef
  PROVE  /\ s \in Slot /\ get_inode(tab, d, num) \in Tables
         /\ get_inode(tab, d, num)[s] = [num |-> num, cnt |-> tab[s].cnt + 1, ino |-> d.ino[num]]
         /\ \A r \in Slot \ {s} : get_inode(tab, d, num)[r] = tab[r]
         /\ \A r \in Slot \ {s} : tab[r].cnt > 0 => tab[r].num # num
         /\ tab[s].cnt > 0 => tab[s].num = num
<1>1. /\ s \in Slot
      /\ IF CachedAt(tab, num) # {} THEN tab[s].cnt # 0 /\ tab[s].num = num ELSE tab[s].cnt = 0
  BY SlotForFacts
<1>2. \A r \in Slot : /\ tab[r].num \in InodeNo /\ tab[r].cnt \in 0 .. MaxRef + 1 /\ tab[r].ino \in Inode
                      /\ tab[r].cnt # 0 => tab[r].cnt > 0
  BY SizeFacts DEF Tables, Cached
<1>3. d.ino[num] \in Inode
  BY SizeFacts, SMTT(40) DEF Disk, InodeNo
<1>4. \A r \in Slot \ {s} : tab[r].cnt > 0 => tab[r].num # num
  <2> SUFFICES ASSUME NEW r \in Slot \ {s}, tab[r].cnt > 0, tab[r].num = num PROVE FALSE
    OBVIOUS
  <2>1. r \in CachedAt(tab, num)
    BY <1>2, SizeFacts DEF CachedAt
  <2>2. tab[s].cnt > 0 /\ tab[s].num = num
    BY <2>1, <1>1, <1>2
  <2> QED
    BY <2>2, <1>1 DEF OneEach
<1> DEFINE new == [num |-> num, cnt |-> tab[s].cnt + 1, ino |-> d.ino[num]]
<1>5. new \in Cached
  <2>1. tab[s].cnt + 1 \in 0 .. MaxRef + 1
    BY <1>1, <1>2, SizeFacts
  <2> QED
    BY <2>1, <1>3 DEF Cached
<1>6. get_inode(tab, d, num) = [tab EXCEPT ![s] = new]
  <2>1. CASE CachedAt(tab, num) # {}
    <3>1. tab[s].cnt > 0 /\ tab[s].num = num
      BY <2>1, <1>1, <1>2
    <3>2. tab[s].ino = d.ino[num]
      BY <3>1, <1>1 DEF Agrees
    <3>3. [tab[s] EXCEPT !.cnt = @ + 1] = new
      <4>1. tab[s] \in Cached
        BY <1>1 DEF Tables
      <4> QED
        BY <3>1, <3>2, <4>1 DEF Cached
    <3>4. get_inode(tab, d, num) = [tab EXCEPT ![s] = [tab[s] EXCEPT !.cnt = @ + 1]]
      BY <2>1 DEF get_inode
    <3> QED
      BY <3>3, <3>4
  <2>2. CASE CachedAt(tab, num) = {}
    <3>1. tab[s].cnt = 0
      BY <2>2, <1>1
    <3> QED
      BY <2>2, <3>1 DEF get_inode
  <2> QED
    BY <2>1, <2>2
<1>7. tab[s].cnt > 0 => tab[s].num = num
  BY <1>1
<1> QED
  BY <1>1, <1>4, <1>5, <1>6, <1>7 DEF Tables

LEMMA RootSlotIs == RootSlot \in Slot /\ ROOT_INODE \in 1 .. NrInodes - 1
BY SizeFacts DEF RootSlot, Slot, ROOT_INODE

\* search_file() (fs/misc.c:41-85) gives the number of an entry.
LEMMA SearchFacts ==
  ASSUME TypesOK, NEW name \in Path, NEW num, num = search_file(name)
  PROVE  /\ num \in InodeNo
         /\ name = RootPath => num = ROOT_INODE
         /\ name # RootPath /\ num # INVALID_INODE => \E m \in 1 .. DirSlots : disk.dir[m].ino = num
<1> DEFINE looked == 1 .. Min({Root(itab).size + 1, DirSlots})
           hits   == {m \in looked : disk.dir[m].name = name}
<1>1. CASE name = RootPath
  BY <1>1, RootSlotIs DEF search_file, InodeNo
<1>2. CASE name # RootPath /\ hits = {}
  BY <1>2, SizeFacts DEF search_file, InodeNo, INVALID_INODE
<1>3. CASE name # RootPath /\ hits # {}
  <2>1. Root(itab).size \in 0 .. DirSlots
    BY RootSlotIs DEF TypesOK, Tables, Cached, Inode, Root
  <2>2. {Root(itab).size + 1, DirSlots} \in SUBSET Nat /\ DirSlots \in Nat
    BY <2>1, SizeFacts
  <2>3. Min({Root(itab).size + 1, DirSlots}) <= DirSlots /\ Min({Root(itab).size + 1, DirSlots}) \in Nat
    BY <2>2, MinFacts
  <2>4. looked \subseteq 1 .. DirSlots
    BY <2>2, <2>3
  <2>5. hits \in SUBSET Nat
    BY <2>4
  <2>6. Min(hits) \in hits
    BY <2>5, <1>3, MinFacts
  <2>7. num = disk.dir[Min(hits)].ino
    BY <1>3 DEF search_file
  <2>8. Min(hits) \in 1 .. DirSlots
    BY <2>4, <2>6
  <2>9. disk.dir[Min(hits)].ino \in InodeNo
    BY <2>8 DEF TypesOK, Disk, Entry
  <2> QED
    BY <2>7, <2>8, <2>9, <1>3
<1> QED
  BY <1>1, <1>2, <1>3

\* and that i-node exists.
LEMMA FoundExists ==
  ASSUME TypesOK, Consistent(disk), NEW name \in Path, NEW num, num = search_file(name), num # INVALID_INODE
  PROVE  num \in 1 .. NrInodes - 1 /\ num \in InodeNo \ {0} /\ disk.ino[num].mode # NO_MODE
<1>1. num \in 1 .. NrInodes - 1 /\ num \in InodeNo \ {0}
  BY SearchFacts, SizeFacts DEF InodeNo, INVALID_INODE
<1>2. CASE name = RootPath
  <2>1. num = ROOT_INODE
    BY <1>2, SearchFacts
  <2>2. disk.ino[ROOT_INODE].mode = I_DIRECTORY
    BY DEF Consistent
  <2> QED
    BY <1>1, <2>1, <2>2 DEF I_DIRECTORY, NO_MODE
<1>3. CASE name # RootPath
  <2>1. PICK m \in 1 .. DirSlots : disk.dir[m].ino = num
    BY <1>3, SearchFacts
  <2>2. EntriesOK(disk)
    BY DEF Consistent
  <2> QED
    BY <1>1, <2>1, <2>2 DEF EntriesOK
<1> QED
  BY <1>1, <1>2, <1>3

-----------------------------------------------------------------------------
(***************************************************************************)
(* What the runs check follows from the invariant.                         *)
(***************************************************************************)
LEMMA ReferencesFollow == IInv => ReferencesExact
<1> SUFFICES ASSUME IInv PROVE ReferencesExact
  OBVIOUS
<1> USE DEF IInv
<1>1. FsTypeOK
  <2>1. \A i \in Desc : fdesc[i].cnt = Cardinality(Holds(filp, i)) /\ Holds(filp, i) \in SUBSET Handle
    BY HoldersAreHandles DEF TablesOK, CountsExact
  <2>2. \A i \in Desc : fdesc[i].cnt \in 0 .. Cardinality(FsProc) * NR_FILES
    BY <2>1, HandleFacts, SizeFacts
  <2>3. fdesc \in [Desc -> [ino : 0 .. NR_INODE, cnt : 0 .. Cardinality(FsProc) * NR_FILES]]
    <3>1. \A i \in Desc : fdesc[i] \in [ino : 0 .. NR_INODE, cnt : 0 .. Cardinality(FsProc) * NR_FILES]
      BY <2>2 DEF TypesOK
    <3> QED
      BY <3>1 DEF TypesOK
  <2>4. disk.imap \subseteq 0 .. NrInodes - 1 /\ disk.smap \subseteq 0 .. NrSects - 1
    BY DEF TypesOK, Disk, InodeNo
  <2>5. \A s \in Slot : itab[s].cnt \in 0 .. MaxRef + 1 /\ itab[s].num \in 0 .. NrInodes - 1
    BY DEF TypesOK, Tables, Cached, InodeNo
  <2> QED
    BY <2>3, <2>4, <2>5 DEF TypesOK, FsTypeOK
<1>2. DescriptorCountExact
  BY DEF TablesOK, CountsExact, Holds, Handle, DescriptorCountExact
<1>3. InodeHeld
  BY DEF TablesOK, SlotsHeld, Uses, Handle, InodeHeld
<1>4. OneCopy
  BY DEF TablesOK, OneEach, OneCopy
<1>5. OpenFileStays
  <2> SUFFICES ASSUME NEW i \in Desc, fdesc[i].ino # 0 PROVE itab[fdesc[i].ino].ino.mode # NO_MODE
    BY DEF OpenFileStays
  <2> DEFINE s == fdesc[i].ino
  <2>1. running /\ s \in Slot
    BY SizeFacts DEF TablesOK, NothingHeld, TypesOK, Slot
  <2>2. Cardinality(Holds(filp, i)) # 0
    BY DEF TablesOK, CountsExact
  <2>3. PICK h \in Holds(filp, i) : TRUE
    BY <2>2, FS_EmptySet
  <2>4. h \in Uses(filp, fdesc, s)
    BY <2>3, SizeFacts DEF Holds, Uses, Desc
  <2>5. Cardinality(Uses(filp, fdesc, s)) \in Nat /\ Cardinality(Uses(filp, fdesc, s)) # 0
    BY <2>4, HoldersAreHandles, HandleFacts, FS_EmptySet
  <2>6. itab[s].cnt >= Cardinality(Uses(filp, fdesc, s)) + (IF s = RootSlot THEN 1 ELSE 0)
    BY <2>1 DEF TablesOK, SlotsHeld
  <2>7. itab[s].cnt \in Nat
    BY <2>1, SizeFacts DEF TypesOK, Tables, Cached
  <2>8. itab[s].cnt > 0
    BY <2>5, <2>6, <2>7
  <2> QED
    BY <2>1, <2>8 DEF TablesOK, CachedExist
<1> QED
  BY <1>1, <1>2, <1>3, <1>4, <1>5 DEF ReferencesExact

LEMMA ConsistencyFollows == IInv => DiskConsistent
<1> SUFFICES ASSUME IInv PROVE DiskConsistent
  OBVIOUS
<1> USE DEF IInv
<1>1. Serving => /\ Consistent(disk) /\ Agrees(itab, disk) /\ (failures = 0 => Exact(disk))
  BY DEF DiskOK, Serving, After
<1>2. \A n : Data(n) = DataIn(disk, n)
  BY DEF Data, DataIn
<1>3. CacheWrittenBack
  BY <1>1 DEF CacheWrittenBack, Agrees
<1>4. SectorsDisjoint
  BY <1>1, <1>2 DEF SectorsDisjoint, Consistent, Apart
<1>5. EntriesAllocated
  BY <1>1 DEF EntriesAllocated, Consistent, EntriesOK
<1>6. MapsExact
  <2> SUFFICES ASSUME failures = 0, Serving
               PROVE  /\ disk.imap = {0} \cup {n \in 1 .. NrInodes - 1 : disk.ino[n].mode # NO_MODE}
                      /\ disk.smap = {0} \cup UNION {Data(n) : n \in 1 .. NrInodes - 1}
    BY DEF MapsExact
  <2>1. MapsCover(disk) /\ Exact(disk)
    BY <1>1 DEF Consistent
  <2>2. disk.imap \subseteq InodeNo
    BY DEF TypesOK, Disk
  <2>3. InodeNo = {0} \cup 1 .. NrInodes - 1
    BY SizeFacts DEF InodeNo
  <2>4. disk.imap = {0} \cup {n \in 1 .. NrInodes - 1 : disk.ino[n].mode # NO_MODE}
    BY <2>1, <2>2, <2>3 DEF MapsCover, Exact
  <2>5. disk.smap \subseteq {0} \cup UNION {Data(n) : n \in 1 .. NrInodes - 1}
    BY <2>1, <1>2 DEF Exact
  <2>6. {0} \cup UNION {Data(n) : n \in 1 .. NrInodes - 1} \subseteq disk.smap
    BY <2>1, <1>2 DEF MapsCover
  <2> QED
    BY <2>4, <2>5, <2>6
<1> QED
  BY <1>3, <1>4, <1>5, <1>6 DEF DiskConsistent, DiskOK

-----------------------------------------------------------------------------
(***************************************************************************)
(* The images of the disk that a request writes.                           *)
(***************************************************************************)
\* Numbers in entries and in the map.
LEMMA EntryRange ==
  ASSUME NEW d \in Disk, NEW m \in 1 .. DirSlots, d.dir[m].ino # INVALID_INODE
  PROVE  d.dir[m].ino \in 1 .. NrInodes - 1
<1>1. d.dir[m] \in Entry
  BY DEF Disk
<1>2. d.dir[m].ino \in InodeNo /\ d.dir[m].ino # 0
  BY <1>1 DEF Entry, INVALID_INODE
<1> QED
  BY <1>2, SizeFacts DEF InodeNo

LEMMA ImapRange ==
  ASSUME NEW d \in Disk, NEW k \in d.imap \ {0}
  PROVE  k \in 1 .. NrInodes - 1
<1>1. d.imap \subseteq InodeNo
  BY DEF Disk
<1>2. k \in InodeNo /\ k # 0
  BY <1>1
<1> QED
  BY <1>2, SizeFacts DEF InodeNo

\* Only the size changes: O_TRUNC and the size of the directory (open.c:176, 188).
Sized(d, n, x, e) ==
  /\ x.mode = d.ino[n].mode /\ x.start = d.ino[n].start /\ x.nr = d.ino[n].nr
  /\ e = [d EXCEPT !.ino[n] = x]
LEMMA SyncKeeps ==
  ASSUME NEW d \in Disk, Consistent(d), NEW n \in 1 .. NrInodes - 1, NEW x \in Inode,
         NEW e, Sized(d, n, x, e)
  PROVE  /\ e \in Disk /\ Consistent(e) /\ (Exact(d) => Exact(e))
         /\ e.dir = d.dir /\ e.ino[n] = x /\ \A k \in (1 .. NrInodes - 1) \ {n} : e.ino[k] = d.ino[k]
<1> USE DEF Sized
<1>1. /\ e \in Disk /\ e.dir = d.dir /\ e.imap = d.imap /\ e.smap = d.smap /\ e.magic = d.magic
      /\ e.ino[n] = x /\ \A k \in (1 .. NrInodes - 1) \ {n} : e.ino[k] = d.ino[k]
  BY DEF Disk
<1>2. \A k \in 1 .. NrInodes - 1 : e.ino[k].mode = d.ino[k].mode /\ DataIn(e, k) = DataIn(d, k)
  <2>1. \A k \in 1 .. NrInodes - 1 : /\ e.ino[k].mode = d.ino[k].mode
                                    /\ e.ino[k].start = d.ino[k].start /\ e.ino[k].nr = d.ino[k].nr
    BY <1>1
  <2> QED
    BY <2>1 DEF DataIn
<1>3. MapsCover(e) /\ Apart(e)
  BY <1>1, <1>2 DEF Consistent, MapsCover, Apart
<1>4. EntriesOK(e)
  <2>1. \A m \in 1 .. DirSlots : d.dir[m].ino # INVALID_INODE => d.dir[m].ino \in 1 .. NrInodes - 1
    BY EntryRange
  <2>2. EntriesOK(d)
    BY DEF Consistent
  <2> QED
    BY <2>1, <2>2, <1>1, <1>2 DEF EntriesOK
<1>5. e.ino[ROOT_INODE].mode = I_DIRECTORY /\ e.magic
  <2>1. d.ino[ROOT_INODE].mode = I_DIRECTORY /\ d.magic
    BY DEF Consistent
  <2> QED
    BY <2>1, <1>1, <1>2, RootSlotIs
<1>6. Exact(d) => Exact(e)
  <2> SUFFICES ASSUME Exact(d) PROVE Exact(e)
    OBVIOUS
  <2>1. \A k \in d.imap \ {0} : k \in 1 .. NrInodes - 1
    BY ImapRange
  <2> QED
    BY <2>1, <1>1, <1>2 DEF Exact
<1> QED
  BY <1>1, <1>3, <1>4, <1>5, <1>6 DEF Consistent

\* More bits in the maps: what a creation writes first (open.c:159-166).
LEMMA BitsKeep ==
  ASSUME NEW d \in Disk, Consistent(d), NEW I \in SUBSET InodeNo, NEW B \in SUBSET (0 .. NrSects - 1),
         NEW e, e = [d EXCEPT !.imap = @ \cup I] \/ e = [d EXCEPT !.smap = @ \cup B]
  PROVE  e \in Disk /\ Consistent(e)
<1>1. /\ e \in Disk /\ e.dir = d.dir /\ e.ino = d.ino /\ e.magic = d.magic
      /\ d.imap \subseteq e.imap /\ d.smap \subseteq e.smap
  BY DEF Disk
<1>2. \A k \in 1 .. NrInodes - 1 : DataIn(e, k) = DataIn(d, k)
  BY <1>1 DEF DataIn
<1>3. MapsCover(e) /\ Apart(e)
  <2>1. MapsCover(d) /\ Apart(d)
    BY DEF Consistent
  <2> QED
    BY <2>1, <1>1, <1>2 DEF MapsCover, Apart
<1>4. EntriesOK(e)
  BY <1>1 DEF Consistent, EntriesOK
<1> QED
  BY <1>1, <1>3, <1>4 DEF Consistent

\* The i-node of a new file, on sectors nobody has (open.c:168, 280-335).
Unused(d, n, x, e) ==
  /\ n \in d.imap /\ d.ino[n].mode = NO_MODE /\ x.mode = I_REGULAR
  /\ Bits(x.start, x.nr) \subseteq d.smap \ {0}
  /\ \A k \in 1 .. NrInodes - 1 : Bits(x.start, x.nr) \cap DataIn(d, k) = {}
  /\ e = [d EXCEPT !.ino[n] = x]
LEMMA NewInodeKeeps ==
  ASSUME NEW d \in Disk, Consistent(d), NEW n \in 1 .. NrInodes - 1, NEW x \in Inode,
         NEW e, Unused(d, n, x, e)
  PROVE  /\ e \in Disk /\ Consistent(e)
         /\ DataIn(e, n) = Bits(x.start, x.nr)
         /\ \A k \in (1 .. NrInodes - 1) \ {n} : DataIn(e, k) = DataIn(d, k) /\ e.ino[k] = d.ino[k]
         /\ e.imap = d.imap /\ e.smap = d.smap /\ e.dir = d.dir /\ e.ino[n] = x
<1> USE DEF Unused
<1>1. /\ e \in Disk /\ e.dir = d.dir /\ e.imap = d.imap /\ e.smap = d.smap /\ e.magic = d.magic
      /\ e.ino[n] = x /\ \A k \in (1 .. NrInodes - 1) \ {n} : e.ino[k] = d.ino[k]
  BY DEF Disk
<1>2. \A k \in (1 .. NrInodes - 1) \ {n} : DataIn(e, k) = DataIn(d, k)
  BY <1>1 DEF DataIn
<1>3. DataIn(e, n) = Bits(x.start, x.nr)
  BY <1>1 DEF DataIn
<1>4. MapsCover(d) /\ Apart(d) /\ EntriesOK(d)
  BY DEF Consistent
<1>5. MapsCover(e)
  BY <1>1, <1>2, <1>3, <1>4 DEF MapsCover
<1>6. Apart(e)
  <2> SUFFICES ASSUME NEW i \in 1 .. NrInodes - 1, NEW k \in 1 .. NrInodes - 1, i # k
               PROVE  DataIn(e, i) \cap DataIn(e, k) = {}
    BY DEF Apart
  <2>1. CASE i = n
    BY <2>1, <1>2, <1>3
  <2>2. CASE k = n
    BY <2>2, <1>2, <1>3
  <2>3. CASE i # n /\ k # n
    BY <2>3, <1>2, <1>4 DEF Apart
  <2> QED
    BY <2>1, <2>2, <2>3
<1>7. EntriesOK(e)
  <2>1. \A m \in 1 .. DirSlots : d.dir[m].ino # INVALID_INODE => d.dir[m].ino \in 1 .. NrInodes - 1
    BY EntryRange
  <2>2. e.ino[n].mode # NO_MODE
    BY <1>1 DEF I_REGULAR, NO_MODE
  <2> QED
    BY <2>1, <2>2, <1>4, <1>1 DEF EntriesOK
<1>8. e.ino[ROOT_INODE].mode = I_DIRECTORY /\ e.magic
  <2>1. d.ino[ROOT_INODE].mode = I_DIRECTORY /\ d.magic
    BY DEF Consistent
  <2>2. n # ROOT_INODE
    BY <2>1 DEF I_DIRECTORY, NO_MODE
  <2> QED
    BY <2>1, <2>2, <1>1, RootSlotIs
<1> QED
  BY <1>1, <1>2, <1>3, <1>5, <1>6, <1>7, <1>8 DEF Consistent

\* Its entry, the first anybody finds of it (open.c:170-174).
Entered(d, n, m, x, e) ==
  /\ n \in d.imap /\ d.ino[n].mode # NO_MODE /\ \A k \in 1 .. DirSlots : d.dir[k].ino # n
  /\ x.ino = n /\ e = [d EXCEPT !.dir[m] = x]
LEMMA NewEntryKeeps ==
  ASSUME NEW d \in Disk, Consistent(d), NEW n \in 1 .. NrInodes - 1, NEW m \in 1 .. DirSlots,
         NEW x \in Entry, NEW e, Entered(d, n, m, x, e)
  PROVE  /\ e \in Disk /\ Consistent(e) /\ (Exact(d) => Exact(e)) /\ e.ino = d.ino
         /\ e.dir[m] = x /\ \A k \in (1 .. DirSlots) \ {m} : e.dir[k] = d.dir[k]
<1> USE DEF Entered
<1>1. /\ e \in Disk /\ e.ino = d.ino /\ e.imap = d.imap /\ e.smap = d.smap /\ e.magic = d.magic
      /\ e.dir[m] = x /\ \A k \in (1 .. DirSlots) \ {m} : e.dir[k] = d.dir[k]
  BY DEF Disk
<1>2. \A k \in 1 .. NrInodes - 1 : DataIn(e, k) = DataIn(d, k)
  BY <1>1 DEF DataIn
<1>3. MapsCover(d) /\ Apart(d) /\ EntriesOK(d)
  BY DEF Consistent
<1>4. MapsCover(e) /\ Apart(e)
  <2>1. MapsCover(e)
    BY <1>1, <1>2, <1>3 DEF MapsCover
  <2>2. Apart(e)
    BY <1>2, <1>3 DEF Apart
  <2> QED
    BY <2>1, <2>2
<1>5. EntriesOK(e)
  BY <1>1, <1>3 DEF EntriesOK
<1>6. Exact(d) => Exact(e)
  BY <1>1, <1>2 DEF Exact
<1> QED
  BY <1>1, <1>4, <1>5, <1>6 DEF Consistent

\* unlink() takes the i-node, its sectors and its entry away (link.c:88-187).
Removing(d, n, m, e1, e2, e3, e4) ==
  /\ d.ino[n].mode = I_REGULAR /\ d.dir[m].ino = n
  /\ e1 = [d EXCEPT !.imap = @ \ {n}]
  /\ e2 = [e1 EXCEPT !.smap = @ \ Bits(d.ino[n].start, d.ino[n].nr)]
  /\ e3 = [e2 EXCEPT !.ino[n] = NoInode]
  /\ e4 = [e3 EXCEPT !.dir[m] = FreeEntry]
LEMMA UnlinkKeeps ==
  ASSUME NEW d \in Disk, Consistent(d), NEW n \in 1 .. NrInodes - 1, NEW m \in 1 .. DirSlots,
         NEW e1, NEW e2, NEW e3, NEW e4, Removing(d, n, m, e1, e2, e3, e4)
  PROVE  /\ e1 \in Disk /\ e2 \in Disk /\ e3 \in Disk /\ e4 \in Disk
         /\ Consistent(e4) /\ (Exact(d) => Exact(e4))
         /\ \A k \in (1 .. NrInodes - 1) \ {n} : e4.ino[k] = d.ino[k]
         /\ e1.dir = d.dir /\ e2.dir = d.dir /\ e3.dir = d.dir /\ e4.dir[m].ino = INVALID_INODE
<1>17. d.ino[n].mode = I_REGULAR /\ d.dir[m].ino = n
  BY DEF Removing
<1>18. e1 = [d EXCEPT !.imap = @ \ {n}]
  BY DEF Removing
<1>19. e2 = [e1 EXCEPT !.smap = @ \ Bits(d.ino[n].start, d.ino[n].nr)]
  BY DEF Removing
<1>20. e3 = [e2 EXCEPT !.ino[n] = NoInode]
  BY DEF Removing
<1>21. e4 = [e3 EXCEPT !.dir[m] = FreeEntry]
  BY DEF Removing
<1>1. NoInode \in Inode /\ FreeEntry \in Entry /\ INVALID_INODE = 0
  BY SizeFacts DEF NoInode, Inode, FreeEntry, Entry, INVALID_INODE, InodeNo
<1> DEFINE used == Bits(d.ino[n].start, d.ino[n].nr)
<1>2. e1 \in Disk /\ e1.dir = d.dir /\ e1.ino = d.ino /\ e1.magic = d.magic /\ e1.smap = d.smap
      /\ e1.imap = d.imap \ {n}
  BY <1>18 DEF Disk
<1>3. e2 \in Disk /\ e2.dir = d.dir /\ e2.ino = d.ino /\ e2.magic = d.magic /\ e2.smap = d.smap \ used
      /\ e2.imap = d.imap \ {n}
  <2> HIDE DEF used
  <2>1. e2 = [e1 EXCEPT !.smap = @ \ used]
    BY <1>19 DEF used
  <2>2. e1.smap \ used \subseteq 0 .. NrSects - 1
    BY <1>2 DEF Disk
  <2> QED
    BY <1>2, <2>1, <2>2 DEF Disk
<1> HIDE DEF used
<1>4. e3 \in Disk /\ e3.dir = d.dir /\ e3.magic = d.magic /\ e3.smap = d.smap \ used
      /\ e3.imap = d.imap \ {n} /\ e3.ino = [d.ino EXCEPT ![n] = NoInode]
  BY <1>1, <1>3, <1>20 DEF Disk
<1>5. e4 \in Disk /\ e4.magic = d.magic /\ e4.smap = d.smap \ used
      /\ e4.imap = d.imap \ {n} /\ e4.ino = [d.ino EXCEPT ![n] = NoInode]
      /\ e4.dir = [d.dir EXCEPT ![m] = FreeEntry]
  BY <1>1, <1>4, <1>21 DEF Disk
<1>6. /\ e4.ino[n] = NoInode /\ \A k \in (1 .. NrInodes - 1) \ {n} : e4.ino[k] = d.ino[k]
      /\ e4.dir[m] = FreeEntry /\ \A k \in (1 .. DirSlots) \ {m} : e4.dir[k] = d.dir[k]
  BY <1>5 DEF Disk
<1>7. DataIn(e4, n) = {}
  BY <1>6 DEF DataIn, NoInode, NO_MODE, I_REGULAR, I_DIRECTORY
<1>8. \A k \in (1 .. NrInodes - 1) \ {n} : DataIn(e4, k) = DataIn(d, k)
  BY <1>6 DEF DataIn
<1>9. DataIn(d, n) = used
  BY <1>17 DEF DataIn, used
<1>10. MapsCover(d) /\ Apart(d) /\ EntriesOK(d)
  BY DEF Consistent
<1>11. MapsCover(e4)
  <2>1. 0 \in e4.imap /\ 0 \in e4.smap
    BY <1>5, <1>9, <1>10 DEF MapsCover
  <2>2. ASSUME NEW k \in 1 .. NrInodes - 1
        PROVE  /\ e4.ino[k].mode # NO_MODE => k \in e4.imap
               /\ DataIn(e4, k) \subseteq e4.smap \ {0}
    <3>1. CASE k = n
      BY <3>1, <1>6, <1>7 DEF NoInode
    <3>2. CASE k # n
      <4>1. DataIn(d, k) \cap used = {}
        BY <3>2, <1>9, <1>10 DEF Apart
      <4> QED
        BY <4>1, <3>2, <1>5, <1>6, <1>8, <1>10 DEF MapsCover
    <3> QED
      BY <3>1, <3>2
  <2> QED
    BY <2>1, <2>2 DEF MapsCover
<1>12. Apart(e4)
  BY <1>7, <1>8, <1>10 DEF Apart
<1>13. EntriesOK(e4)
  <2>1. \A k \in (1 .. DirSlots) \ {m} : d.dir[k].ino # INVALID_INODE =>
          (d.dir[k].ino \in 1 .. NrInodes - 1 /\ d.dir[k].ino # n)
    BY EntryRange, <1>10, <1>17 DEF EntriesOK
  <2>2. ASSUME NEW k \in 1 .. DirSlots, e4.dir[k].ino # INVALID_INODE
        PROVE  k # m /\ e4.dir[k].ino \in e4.imap /\ e4.ino[e4.dir[k].ino].mode # NO_MODE
    <3>1. k # m
      BY <2>2, <1>6 DEF FreeEntry
    <3>2. e4.dir[k] = d.dir[k]
      BY <3>1, <1>6
    <3>3. d.dir[k].ino \in 1 .. NrInodes - 1 /\ d.dir[k].ino # n
      BY <2>1, <2>2, <3>1, <3>2
    <3> QED
      BY <3>1, <3>2, <3>3, <2>2, <1>5, <1>6, <1>10 DEF EntriesOK
  <2>3. ASSUME NEW k \in 1 .. DirSlots, NEW j \in 1 .. DirSlots,
               e4.dir[k].ino # INVALID_INODE, e4.dir[k].ino = e4.dir[j].ino
        PROVE  k = j
    <3>1. k # m /\ j # m
      BY <2>2, <2>3
    <3> QED
      BY <3>1, <2>3, <1>6, <1>10 DEF EntriesOK
  <2> QED
    BY <2>2, <2>3 DEF EntriesOK
<1>14. e4.magic /\ e4.ino[ROOT_INODE].mode = I_DIRECTORY
  <2>1. d.magic /\ d.ino[ROOT_INODE].mode = I_DIRECTORY
    BY DEF Consistent
  <2>2. n # ROOT_INODE
    BY <2>1, <1>17 DEF I_REGULAR, I_DIRECTORY
  <2> QED
    BY <2>1, <2>2, <1>5, <1>6, RootSlotIs
<1>15. Exact(d) => Exact(e4)
  <2> SUFFICES ASSUME Exact(d) PROVE Exact(e4)
    OBVIOUS
  <2>1. ASSUME NEW k \in e4.imap \ {0} PROVE e4.ino[k].mode # NO_MODE
    <3>1. k \in d.imap \ {0} /\ k # n /\ k \in 1 .. NrInodes - 1
      BY <1>5, ImapRange
    <3> QED
      BY <3>1, <1>6 DEF Exact
  <2>2. ASSUME NEW b \in e4.smap \ {0} PROVE \E k \in 1 .. NrInodes - 1 : b \in DataIn(e4, k)
    <3>1. b \in d.smap \ {0} /\ b \notin used
      BY <1>5
    <3>2. PICK k \in 1 .. NrInodes - 1 : b \in DataIn(d, k)
      BY <3>1 DEF Exact
    <3>3. k # n
      BY <3>1, <3>2, <1>9
    <3> QED
      BY <3>2, <3>3, <1>8
  <2> QED
    BY <2>1, <2>2 DEF Exact
<1>16. e4.dir[m].ino = INVALID_INODE
  BY <1>6 DEF FreeEntry
<1> QED
  BY <1>2, <1>3, <1>4, <1>5, <1>6, <1>11, <1>12, <1>13, <1>14, <1>15, <1>16 DEF Consistent

\* mkfs(): before its fourth image the root is not a directory, from then on
\* the disk is consistent (fs/main.c:237-424).
LEMMA FormatFacts ==
  /\ BlankDisk \in Disk /\ Len(mkfs(BlankDisk)) = 5 /\ mkfs(BlankDisk) \in Seq(Disk)
  /\ \A k \in 1 .. 3 : mkfs(BlankDisk)[k].ino[ROOT_INODE].mode # I_DIRECTORY
  /\ \A k \in 4 .. 5 : Consistent(mkfs(BlankDisk)[k])
  /\ Exact(mkfs(BlankDisk)[5])
<1> DEFINE d1 == [BlankDisk EXCEPT !.magic = TRUE]
           d2 == [d1 EXCEPT !.imap = FormatImap]
           d3 == [d2 EXCEPT !.smap = FormatSmap]
           d4 == [d3 EXCEPT !.ino = FormatInodes]
           d5 == [d4 EXCEPT !.dir = FormatDir]
           blank == [n \in 1 .. NrInodes - 1 |-> NoInode]
           empty == [m \in 1 .. DirSlots |-> FreeEntry]
<1>1. NoInode \in Inode /\ FreeEntry \in Entry
  BY SizeFacts DEF NoInode, Inode, FreeEntry, Entry, INVALID_INODE, InodeNo
<1>2. blank \in [1 .. NrInodes - 1 -> Inode] /\ empty \in [1 .. DirSlots -> Entry]
  BY <1>1
<1>3. FormatImap \subseteq InodeNo /\ FormatSmap \subseteq 0 .. NrSects - 1
  BY SizeFacts DEF FormatImap, FormatSmap, InodeNo, Bits
<1>4. \A n \in 1 .. NrInodes - 1 :
        /\ FormatInodes[n] \in Inode
        /\ n = ROOT_INODE => FormatInodes[n].mode = I_DIRECTORY
        /\ FormatInodes[n].mode # NO_MODE <=> n \in 1 .. NR_CONSOLES + 2
        /\ FormatInodes[n].mode \in {I_REGULAR, I_DIRECTORY} => (n = ROOT_INODE \/ n = TarInode)
        /\ n = ROOT_INODE => FormatInodes[n].start = 1 /\ FormatInodes[n].nr = NR_DEFAULT_FILE_SECTS
        /\ n = TarInode => /\ FormatInodes[n].start = INSTALL_START /\ FormatInodes[n].nr = INSTALL_NR_SECTS
                           /\ FormatInodes[n].mode = I_REGULAR
  <2> SUFFICES ASSUME NEW n \in 1 .. NrInodes - 1
      PROVE /\ FormatInodes[n] \in Inode
            /\ n = ROOT_INODE => FormatInodes[n].mode = I_DIRECTORY
            /\ FormatInodes[n].mode # NO_MODE <=> n \in 1 .. NR_CONSOLES + 2
            /\ FormatInodes[n].mode \in {I_REGULAR, I_DIRECTORY} => (n = ROOT_INODE \/ n = TarInode)
            /\ n = ROOT_INODE => FormatInodes[n].start = 1 /\ FormatInodes[n].nr = NR_DEFAULT_FILE_SECTS
            /\ n = TarInode => /\ FormatInodes[n].start = INSTALL_START /\ FormatInodes[n].nr = INSTALL_NR_SECTS
                               /\ FormatInodes[n].mode = I_REGULAR
    OBVIOUS
  <2>1. CASE n = 1
    <3>1. FormatInodes[n] = [mode |-> I_DIRECTORY, size |-> NR_CONSOLES + 2,
                             start |-> 1, nr |-> NR_DEFAULT_FILE_SECTS]
      BY <2>1, SizeFacts DEF FormatInodes, ROOT_INODE, TarInode
    <3> QED
      BY <2>1, <3>1, SizeFacts DEF Inode, ROOT_INODE, TarInode, I_DIRECTORY, NO_MODE, I_REGULAR
  <2>2. CASE n \in 2 .. NR_CONSOLES + 1
    <3>1. FormatInodes[n] = [NoInode EXCEPT !.mode = I_CHAR_SPECIAL]
      BY <2>2, SizeFacts DEF FormatInodes, ROOT_INODE, TarInode
    <3> QED
      BY <2>2, <3>1, SizeFacts
         DEF Inode, NoInode, ROOT_INODE, TarInode, I_DIRECTORY, NO_MODE, I_REGULAR, I_CHAR_SPECIAL
  <2>3. CASE n = NR_CONSOLES + 2
    <3>1. FormatInodes[n] = [mode |-> I_REGULAR, size |-> 1,
                             start |-> INSTALL_START, nr |-> INSTALL_NR_SECTS]
      BY <2>3, SizeFacts DEF FormatInodes, ROOT_INODE, TarInode
    <3> QED
      BY <2>3, <3>1, SizeFacts DEF Inode, ROOT_INODE, TarInode, I_DIRECTORY, NO_MODE, I_REGULAR
  <2>4. CASE n > NR_CONSOLES + 2
    <3>1. FormatInodes[n] = NoInode
      BY <2>4, SizeFacts DEF FormatInodes, ROOT_INODE, TarInode
    <3> QED
      BY <2>4, <3>1, <1>1, SizeFacts DEF NoInode, ROOT_INODE, TarInode, I_DIRECTORY, NO_MODE, I_REGULAR
  <2> QED
    BY <2>1, <2>2, <2>3, <2>4, SizeFacts
<1>5. FormatInodes \in [1 .. NrInodes - 1 -> Inode]
  BY <1>4 DEF FormatInodes
<1>6. \A m \in 1 .. DirSlots : /\ FormatDir[m] \in Entry
                               /\ FormatDir[m].ino = IF m <= NR_CONSOLES + 2 THEN m ELSE 0
  <2> SUFFICES ASSUME NEW m \in 1 .. DirSlots
               PROVE  /\ FormatDir[m] \in Entry
                      /\ FormatDir[m].ino = IF m <= NR_CONSOLES + 2 THEN m ELSE 0
    OBVIOUS
  <2> DEFINE nm == CASE m = 1 -> DotName
                     [] m \in 2 .. NR_CONSOLES + 1 -> TtyName
                     [] m = TarInode -> TarName
                     [] OTHER -> NoName
  <2>1. FormatDir[m] = [ino |-> IF m <= TarInode THEN m ELSE INVALID_INODE, name |-> nm]
    BY DEF FormatDir
  <2>2. nm \in FileName \cup {TtyName, TarName, DotName, NoName}
    OBVIOUS
  <2>3. (IF m <= TarInode THEN m ELSE INVALID_INODE) \in InodeNo
    BY SizeFacts DEF TarInode, INVALID_INODE, InodeNo
  <2> HIDE DEF nm
  <2> QED
    BY <2>1, <2>2, <2>3 DEF Entry, TarInode, INVALID_INODE
<1>7. FormatDir \in [1 .. DirSlots -> Entry]
  BY <1>6 DEF FormatDir
<1>8. BlankDisk = [magic |-> FALSE, imap |-> {}, smap |-> {}, ino |-> blank, dir |-> empty]
  BY DEF BlankDisk
<1> HIDE DEF blank, empty
<1>9. BlankDisk \in Disk
  BY <1>2, <1>8 DEF Disk
<1>10. mkfs(BlankDisk) = <<d1, d2, d3, d4, d5>>
  BY DEF mkfs
<1>11. d1 = [BlankDisk EXCEPT !.magic = TRUE] /\ d2 = [d1 EXCEPT !.imap = FormatImap]
       /\ d3 = [d2 EXCEPT !.smap = FormatSmap] /\ d4 = [d3 EXCEPT !.ino = FormatInodes]
       /\ d5 = [d4 EXCEPT !.dir = FormatDir]
  OBVIOUS
<1> HIDE DEF d1, d2, d3, d4, d5
<1>12. BlankDisk.ino = blank /\ BlankDisk.dir = empty
  BY <1>8
<1>13. d1 \in Disk /\ d1.magic /\ d1.ino = blank /\ d1.dir = empty
  BY <1>9, <1>11, <1>12 DEF Disk
<1>14. d2 \in Disk /\ d2.magic /\ d2.imap = FormatImap /\ d2.ino = blank /\ d2.dir = empty
  BY <1>3, <1>11, <1>13 DEF Disk
<1>15. d3 \in Disk /\ d3.magic /\ d3.imap = FormatImap /\ d3.smap = FormatSmap
       /\ d3.ino = blank /\ d3.dir = empty
  BY <1>3, <1>11, <1>14 DEF Disk
<1>16. d4 \in Disk /\ d4.magic /\ d4.imap = FormatImap /\ d4.smap = FormatSmap
       /\ d4.ino = FormatInodes /\ d4.dir = empty
  BY <1>5, <1>11, <1>15 DEF Disk
<1>26. d5 \in Disk /\ d5.magic /\ d5.imap = FormatImap /\ d5.smap = FormatSmap
       /\ d5.ino = FormatInodes /\ d5.dir = FormatDir
  BY <1>7, <1>11, <1>16 DEF Disk
<1>17. mkfs(BlankDisk) \in Seq(Disk) /\ Len(mkfs(BlankDisk)) = 5
  BY <1>10, <1>13, <1>14, <1>15, <1>16, <1>26
<1>18. d1.ino = blank /\ d2.ino = blank /\ d3.ino = blank /\ blank[ROOT_INODE].mode # I_DIRECTORY
  <2>1. blank[ROOT_INODE] = NoInode
    BY RootSlotIs DEF blank
  <2> QED
    BY <2>1, <1>13, <1>14, <1>15 DEF NoInode, NO_MODE, I_DIRECTORY
<1>19. ASSUME NEW d \in {d4, d5} PROVE Consistent(d) /\ (\A k \in d.imap \ {0} : d.ino[k].mode # NO_MODE)
                                      /\ (\A b \in d.smap \ {0} : \E n \in 1 .. NrInodes - 1 : b \in DataIn(d, n))
  <2>1. /\ d.magic /\ d.imap = FormatImap /\ d.smap = FormatSmap /\ d.ino = FormatInodes
        /\ d.dir = empty \/ d.dir = FormatDir
    BY <1>16, <1>26
  <2>2. \A n \in 1 .. NrInodes - 1 : DataIn(d, n) = IF n = ROOT_INODE THEN 1 .. NR_DEFAULT_FILE_SECTS
                                       ELSE IF n = TarInode THEN Bits(INSTALL_START, INSTALL_NR_SECTS) ELSE {}
    <3> SUFFICES ASSUME NEW n \in 1 .. NrInodes - 1
                 PROVE  DataIn(d, n) = IF n = ROOT_INODE THEN 1 .. NR_DEFAULT_FILE_SECTS
                                       ELSE IF n = TarInode THEN Bits(INSTALL_START, INSTALL_NR_SECTS) ELSE {}
      OBVIOUS
    <3>1. CASE n = ROOT_INODE
      <4>1. DataIn(d, n) = Bits(1, NR_DEFAULT_FILE_SECTS)
        BY <3>1, <1>4, <2>1 DEF DataIn
      <4>2. Bits(1, NR_DEFAULT_FILE_SECTS) = 1 .. NR_DEFAULT_FILE_SECTS
        BY SizeFacts DEF Bits
      <4> QED
        BY <3>1, <4>1, <4>2
    <3>2. CASE n # ROOT_INODE /\ n = TarInode
      BY <3>2, <1>4, <2>1 DEF DataIn
    <3>3. CASE n # ROOT_INODE /\ n # TarInode
      BY <3>3, <1>4, <2>1 DEF DataIn
    <3> QED
      BY <3>1, <3>2, <3>3
  <2>3. FormatSmap = (0 .. NR_DEFAULT_FILE_SECTS) \cup Bits(INSTALL_START, INSTALL_NR_SECTS)
    BY SizeFacts DEF FormatSmap, Bits
  <2>4. ROOT_INODE # TarInode /\ TarInode \in 1 .. NrInodes - 1
    BY SizeFacts DEF ROOT_INODE, TarInode
  <2>5. 0 \notin Bits(INSTALL_START, INSTALL_NR_SECTS)
        /\ (1 .. NR_DEFAULT_FILE_SECTS) \cap Bits(INSTALL_START, INSTALL_NR_SECTS) = {}
    BY SizeFacts DEF Bits
  <2>6. MapsCover(d)
    <3>1. \A n \in 1 .. NrInodes - 1 : DataIn(d, n) \subseteq d.smap \ {0}
      BY <2>1, <2>2, <2>3, <2>5, SizeFacts
    <3>2. \A n \in 1 .. NrInodes - 1 : d.ino[n].mode # NO_MODE => n \in d.imap
      BY <2>1, <1>4 DEF FormatImap
    <3>3. 0 \in d.imap /\ 0 \in d.smap
      BY <2>1, <2>3, SizeFacts DEF FormatImap
    <3> QED
      BY <3>1, <3>2, <3>3 DEF MapsCover
  <2>7. Apart(d)
    BY <2>2, <2>5 DEF Apart
  <2>8. EntriesOK(d)
    <3>1. CASE d.dir = empty
      BY <3>1 DEF empty, FreeEntry, EntriesOK
    <3>2. CASE d.dir = FormatDir
      <4>1. \A m \in 1 .. DirSlots : d.dir[m].ino = IF m <= NR_CONSOLES + 2 THEN m ELSE 0
        BY <3>2, <1>6
      <4>2. \A m \in 1 .. DirSlots : d.dir[m].ino # 0 =>
              (d.dir[m].ino = m /\ m \in FormatImap /\ FormatInodes[m].mode # NO_MODE)
        BY <4>1, <1>4, SizeFacts DEF FormatImap
      <4> QED
        BY <4>1, <4>2, <2>1 DEF EntriesOK, INVALID_INODE
    <3> QED
      BY <2>1, <3>1, <3>2
  <2>9. \A k \in d.imap \ {0} : d.ino[k].mode # NO_MODE
    BY <2>1, <1>4, SizeFacts DEF FormatImap
  <2>10. \A b \in d.smap \ {0} : \E n \in 1 .. NrInodes - 1 : b \in DataIn(d, n)
    <3> SUFFICES ASSUME NEW b \in d.smap \ {0} PROVE \E n \in 1 .. NrInodes - 1 : b \in DataIn(d, n)
      OBVIOUS
    <3>1. CASE b \in 1 .. NR_DEFAULT_FILE_SECTS
      BY <3>1, <2>2, RootSlotIs
    <3>2. CASE b \in Bits(INSTALL_START, INSTALL_NR_SECTS)
      BY <3>2, <2>2, <2>4
    <3> QED
      BY <3>1, <3>2, <2>1, <2>3, SizeFacts
  <2>11. d.ino[ROOT_INODE].mode = I_DIRECTORY
    BY <2>1, <1>4, RootSlotIs
  <2> QED
    BY <2>1, <2>6, <2>7, <2>8, <2>9, <2>10, <2>11 DEF Consistent
<1>20. mkfs(BlankDisk)[1] = d1 /\ mkfs(BlankDisk)[2] = d2 /\ mkfs(BlankDisk)[3] = d3
       /\ mkfs(BlankDisk)[4] = d4 /\ mkfs(BlankDisk)[5] = d5
  BY <1>10
<1>21. \A k \in 1 .. 3 : k = 1 \/ k = 2 \/ k = 3
  OBVIOUS
<1>22. \A k \in 4 .. 5 : k = 4 \/ k = 5
  OBVIOUS
<1>23. \A k \in 1 .. 3 : mkfs(BlankDisk)[k].ino[ROOT_INODE].mode # I_DIRECTORY
  BY <1>18, <1>20, <1>21
<1>24. \A k \in 4 .. 5 : Consistent(mkfs(BlankDisk)[k])
  BY <1>19, <1>20, <1>22
<1>25. Exact(mkfs(BlankDisk)[5])
  BY <1>19, <1>20 DEF Exact
<1> QED
  BY <1>9, <1>17, <1>23, <1>24, <1>25

-----------------------------------------------------------------------------
(***************************************************************************)
(* Between requests, and what a request has to show.                       *)
(***************************************************************************)
LEMMA ServingFacts ==
  ASSUME IInv, Serving
  PROVE  /\ running /\ toWrite = <<>> /\ failed = "none" /\ torn = FALSE
         /\ Consistent(disk) /\ Agrees(itab, disk) /\ (failures = 0 => Exact(disk))
         /\ disk \in Disk /\ itab \in Tables /\ filp \in Filps /\ fdesc \in Fdescs
         /\ SlotsHeld /\ itab[RootSlot].num = ROOT_INODE
         /\ \A s \in Slot : itab[s].cnt \in Nat
         /\ \A s \in Slot : Cardinality(Uses(filp, fdesc, s)) \in Nat
<1>1. running /\ toWrite = <<>> /\ failed = "none"
  BY DEF Serving
<1>2. torn = FALSE /\ Consistent(disk) /\ Agrees(itab, disk) /\ (failures = 0 => Exact(disk))
  BY <1>1 DEF IInv, DiskOK, After, TypesOK
<1>3. disk \in Disk /\ itab \in Tables /\ filp \in Filps /\ fdesc \in Fdescs
  BY DEF IInv, TypesOK, Filps, Fdescs
<1>4. SlotsHeld /\ itab[RootSlot].num = ROOT_INODE
  BY <1>1 DEF IInv, TablesOK
<1>5. \A s \in Slot : itab[s].cnt \in Nat
  BY <1>3, SizeFacts DEF Tables, Cached
<1>6. \A s \in Slot : Cardinality(Uses(filp, fdesc, s)) \in Nat
  BY HoldersAreHandles, HandleFacts
<1> QED
  BY <1>1, <1>2, <1>3, <1>4, <1>5, <1>6

\* The root's slot is held without a descriptor (fs/main.c:85).
LEMMA RootHeld ==
  ASSUME IInv, Serving
  PROVE  itab[RootSlot].cnt > 0 /\ itab[RootSlot].ino.mode = I_DIRECTORY
<1>1. itab[RootSlot].cnt >= Cardinality(Uses(filp, fdesc, RootSlot)) + 1
  BY ServingFacts, RootSlotIs DEF SlotsHeld
<1>2. itab[RootSlot].cnt > 0
  BY <1>1, ServingFacts, RootSlotIs
<1>3. itab[RootSlot].ino = disk.ino[ROOT_INODE]
  BY <1>2, ServingFacts, RootSlotIs DEF Agrees
<1> QED
  BY <1>2, <1>3, ServingFacts DEF Consistent

\* A request that does not fail.
LEMMA RequestDisk ==
  ASSUME IInv, Serving, UNCHANGED <<disk, running, failures, torn>>, failed' = "none",
         Consistent(After'), Agrees(itab', After'), failures = 0 => Exact(After'),
         \A k \in 1 .. Len(toWrite') : (~ Freeing(k)') => Consistent(toWrite'[k])
  PROVE  DiskOK'
<1>1. FsAssertionsHold'
  BY DEF FsAssertionsHold
<1>2. \A k \in 0 .. Len(toWrite)' : (~ Freeing(k)') => Startable(Written(k))'
  <2> SUFFICES ASSUME NEW k \in 0 .. Len(toWrite'), ~ Freeing(k)' PROVE Startable(Written(k))'
    OBVIOUS
  <2>1. CASE k = 0
    <3>1. Written(k)' = disk
      BY <2>1 DEF Written
    <3> QED
      BY <3>1, ServingFacts DEF Startable
  <2>2. CASE k # 0
    <3>1. Written(k)' = toWrite'[k] /\ k \in 1 .. Len(toWrite')
      BY <2>2 DEF Written
    <3> QED
      BY <3>1 DEF Startable
  <2> QED
    BY <2>1, <2>2
<1>3. running' /\ torn' = FALSE /\ failures' = failures
  BY ServingFacts
<1> QED
  BY <1>1, <1>2, <1>3 DEF DiskOK

\* One that only changes the tables.
LEMMA TablesOnlyDisk ==
  ASSUME IInv, Serving, UNCHANGED <<disk, running, failures, torn, toWrite>>, failed' = "none",
         Agrees(itab', disk)
  PROVE  DiskOK'
<1>1. toWrite' = <<>> /\ After' = disk
  BY ServingFacts DEF After
<1>2. \A k \in 1 .. Len(toWrite') : FALSE
  BY <1>1
<1> QED
  BY <1>1, <1>2, ServingFacts, RequestDisk

\* And one at which FS stops.
LEMMA FailureDisk ==
  ASSUME IInv, Serving, UNCHANGED <<disk, running, failures, torn>>, failed' # "none",
         failed' \notin {"i-map", "s-map", "i_mode", "put_inode"},
         \/ failed' = "assert(flg)"
         \/ \A k \in 1 .. Len(toWrite') : Consistent(toWrite'[k])
  PROVE  DiskOK'
<1>1. FsAssertionsHold'
  BY DEF FsAssertionsHold
<1>2. running' /\ torn' = FALSE
  BY ServingFacts
<1>3. CASE failed' = "assert(flg)"
  BY <1>1, <1>2, <1>3 DEF DiskOK
<1>4. CASE \A k \in 1 .. Len(toWrite') : Consistent(toWrite'[k])
  <2>1. Consistent(disk)
    BY ServingFacts
  <2>2. Consistent(After')
    BY <1>4, <2>1, ServingFacts DEF After
  <2>3. ASSUME NEW k \in 0 .. Len(toWrite') PROVE Startable(Written(k))'
    BY <1>4, <2>1 DEF Startable, Written
  <2> QED
    BY <1>1, <1>2, <2>2, <2>3 DEF DiskOK
<1> QED
  BY <1>3, <1>4

\* Nothing in memory changes.
LEMMA SameTables ==
  ASSUME IInv, Serving, UNCHANGED <<itab, fdesc, filp, fsAlive, running>>
  PROVE  TablesOK'
<1>1. TablesOK /\ running
  BY ServingFacts DEF IInv
<1> QED
  BY <1>1 DEF TablesOK, HeldOnce, DeadHoldNothing, CountsExact, SlotsHeld

\* The end of do_open(), whatever the cache t it has come to (open.c:183-198).
LEMMA ConnectTables ==
  ASSUME IInv, Serving, NEW p \in fsAlive, FreeFds(p) # {}, FreeDescs # {},
         NEW s \in Slot, NEW t \in Tables, OneEach(t), CachedExist(t),
         t[s].cnt = itab[s].cnt + 1, \A r \in Slot \ {s} : t[r].cnt = itab[r].cnt,
         t[RootSlot].num = ROOT_INODE, itab' = t,
         filp' = [filp EXCEPT ![p][Min(FreeFds(p))] = Min(FreeDescs)],
         fdesc' = [fdesc EXCEPT ![Min(FreeDescs)] = [ino |-> s, cnt |-> 1]],
         UNCHANGED <<fsAlive, running>>
  PROVE  /\ TablesOK' /\ filp' \in Filps /\ fdesc' \in Fdescs
<1> DEFINE f == Min(FreeFds(p))
           i == Min(FreeDescs)
<1>1. f \in Fd /\ filp[p][f] = 0 /\ i \in Desc /\ fdesc[i].ino = 0
  <2>1. FreeFds(p) \in SUBSET Nat /\ FreeDescs \in SUBSET Nat
    BY DEF FreeFds, FreeDescs, Fd, Desc
  <2>2. f \in FreeFds(p) /\ i \in FreeDescs
    BY <2>1, MinFacts
  <2> QED
    BY <2>2 DEF FreeFds, FreeDescs
<1> HIDE DEF f, i
<1>2. filp' = [filp EXCEPT ![p][f] = i] /\ fdesc' = [fdesc EXCEPT ![i] = [ino |-> s, cnt |-> 1]]
  BY DEF f, i
<1>3. p \in FsProc /\ filp \in Filps /\ fdesc \in Fdescs
  BY ServingFacts DEF IInv, TypesOK
<1>4. TablesOK /\ running
  BY ServingFacts DEF IInv
<1>5. Holds(filp, i) = {}
  <2>1. Cardinality(Holds(filp, i)) = 0
    BY <1>1, <1>4 DEF TablesOK, CountsExact
  <2> QED
    BY <2>1, FS_EmptySet, HoldersAreHandles, HandleFacts
<1>6. /\ Cardinality(Holds(filp', i)) = 1
      /\ \A j \in Desc \ {i} : Holds(filp', j) = Holds(filp, j)
      /\ Cardinality(Uses(filp', fdesc', s)) = Cardinality(Uses(filp, fdesc, s)) + 1
      /\ \A r \in Slot \ {s} : Uses(filp', fdesc', r) = Uses(filp, fdesc, r)
  <2>1. Opened(filp, fdesc, filp', fdesc', p, f, i, s)
    BY <1>1, <1>2, <1>3, <1>5 DEF Opened
  <2>2. CountedOnce(filp, fdesc, filp', fdesc', i, s)
    BY <2>1, <1>3, OpenCounts
  <2> QED
    BY <2>2 DEF CountedOnce
<1>7. filp' \in Filps /\ fdesc' \in Fdescs
  <2>1. i \in 0 .. NR_FILE_DESC /\ s \in 0 .. NR_INODE
    BY <1>1, SizeFacts DEF Desc, Slot
  <2>2. filp' \in Filps
    <3>1. filp[p] \in [Fd -> 0 .. NR_FILE_DESC]
      BY <1>3 DEF Filps
    <3>2. [filp[p] EXCEPT ![f] = i] \in [Fd -> 0 .. NR_FILE_DESC]
      BY <3>1, <2>1, <1>1
    <3>3. filp' = [filp EXCEPT ![p] = [filp[p] EXCEPT ![f] = i]]
      BY <1>2
    <3> QED
      BY <3>2, <3>3, <1>3, Zenon DEF Filps
  <2>3. [ino |-> s, cnt |-> 1] \in [ino : 0 .. NR_INODE, cnt : Nat]
    BY <2>1
  <2>4. fdesc' \in Fdescs
    BY <2>3, <1>2, <1>3 DEF Fdescs
  <2> QED
    BY <2>2, <2>4
<1>8. \A q \in FsProc, g \in Fd : filp'[q][g] = IF q = p /\ g = f THEN i ELSE filp[q][g]
  BY <1>1, <1>2, <1>3 DEF Filps
<1>9. \A j \in Desc : fdesc'[j] = IF j = i THEN [ino |-> s, cnt |-> 1] ELSE fdesc[j]
  BY <1>2, <1>3 DEF Fdescs
<1>10. HeldOnce'
  <2>1. \A g \in Fd : filp[p][g] # i
    <3> SUFFICES ASSUME NEW g \in Fd, filp[p][g] = i PROVE FALSE
      OBVIOUS
    <3>1. <<p, g>> \in Holds(filp, i)
      BY <1>3 DEF Holds, Handle
    <3> QED
      BY <3>1, <1>5
  <2>2. HeldOnce
    BY <1>4 DEF TablesOK
  <2> SUFFICES ASSUME NEW q \in FsProc, NEW g \in Fd, NEW h \in Fd,
                      filp'[q][g] = filp'[q][h], filp'[q][g] # 0
               PROVE  g = h
    BY DEF HeldOnce
  <2>3. filp'[q][g] = (IF q = p /\ g = f THEN i ELSE filp[q][g])
        /\ filp'[q][h] = (IF q = p /\ h = f THEN i ELSE filp[q][h])
    BY <1>8
  <2> QED
    BY <2>1, <2>2, <2>3 DEF HeldOnce
<1>11. DeadHoldNothing'
  <2>1. DeadHoldNothing
    BY <1>4 DEF TablesOK
  <2> QED
    BY <2>1, <1>8 DEF DeadHoldNothing
<1>12. CountsExact'
  <2>1. CountsExact
    BY <1>4 DEF TablesOK
  <2>2. s # 0
    BY SizeFacts DEF Slot
  <2>3. ASSUME NEW j \in Desc
        PROVE  fdesc'[j].cnt = Cardinality(Holds(filp', j)) /\ (fdesc'[j].cnt = 0 <=> fdesc'[j].ino = 0)
    <3>1. CASE j = i
      BY <3>1, <2>2, <1>6, <1>9
    <3>2. CASE j # i
      <4>1. fdesc'[j] = fdesc[j] /\ Holds(filp', j) = Holds(filp, j)
        BY <3>2, <1>6, <1>9
      <4>2. fdesc[j].cnt = Cardinality(Holds(filp, j)) /\ (fdesc[j].cnt = 0 <=> fdesc[j].ino = 0)
        BY <2>1 DEF CountsExact
      <4> QED
        BY <4>1, <4>2
    <3> QED
      BY <3>1, <3>2
  <2> QED
    BY <2>3 DEF CountsExact
<1>13. SlotsHeld'
  <2>1. \A r \in Slot : itab[r].cnt >= Cardinality(Uses(filp, fdesc, r)) + (IF r = RootSlot THEN 1 ELSE 0)
    BY ServingFacts DEF SlotsHeld
  <2>2. \A r \in Slot : Cardinality(Uses(filp, fdesc, r)) \in Nat /\ itab[r].cnt \in Nat
    BY ServingFacts
  <2>3. ASSUME NEW r \in Slot
        PROVE  t[r].cnt >= Cardinality(Uses(filp', fdesc', r)) + (IF r = RootSlot THEN 1 ELSE 0)
    <3>1. CASE r = s
      <4> DEFINE n == Cardinality(Uses(filp, fdesc, s))
                 c == IF s = RootSlot THEN 1 ELSE 0
      <4>1. n \in Nat /\ itab[s].cnt \in Nat /\ c \in Nat /\ itab[s].cnt >= n + c
        BY <2>1, <2>2
      <4>2. Cardinality(Uses(filp', fdesc', s)) = n + 1
        BY <1>6
      <4> HIDE DEF n, c
      <4>3. t[s].cnt >= (n + 1) + c
        BY <4>1
      <4> QED
        BY <3>1, <4>2, <4>3 DEF c
    <3>2. CASE r # s
      BY <3>2, <2>1, <1>6
    <3> QED
      BY <3>1, <3>2
  <2> QED
    BY <2>3 DEF SlotsHeld
<1> QED
  BY <1>4, <1>7, <1>10, <1>11, <1>12, <1>13 DEF TablesOK

-----------------------------------------------------------------------------
(***************************************************************************)
(* The requests, one lemma each.                                           *)
(***************************************************************************)
\* References are given back, and a slot without one is cleared.
Given(tab, t, c) ==
  \A s \in Slot : \/ \E pointed \in BOOLEAN : t[s] = Freed([tab[s] EXCEPT !.cnt = @ - c[s]], pointed)
                  \/ c[s] = 0 /\ t[s] = tab[s]
LEMMA GivenBack ==
  ASSUME NEW tab \in Tables, NEW t, NEW c \in [Slot -> Nat], t = [s \in Slot |-> t[s]],
         \A s \in Slot : c[s] <= tab[s].cnt, Given(tab, t, c),
         OneEach(tab), CachedExist(tab), NEW d, Agrees(tab, d)
  PROVE  /\ t \in Tables /\ OneEach(t) /\ CachedExist(t) /\ Agrees(t, d)
         /\ \A s \in Slot : t[s].cnt = tab[s].cnt - c[s] /\ (t[s].cnt > 0 => t[s].num = tab[s].num)
<1>1. Free \in Cached
  BY SizeFacts DEF Free, Cached, NoInode, Inode, InodeNo
<1>2. ASSUME NEW s \in Slot
      PROVE  /\ t[s] \in Cached /\ t[s].cnt = tab[s].cnt - c[s]
             /\ t[s].cnt > 0 => (tab[s].cnt > 0 /\ t[s].num = tab[s].num /\ t[s].ino = tab[s].ino)
  <2> DEFINE r == [tab[s] EXCEPT !.cnt = @ - c[s]]
  <2>1. tab[s] \in Cached /\ tab[s].cnt \in 0 .. MaxRef + 1 /\ c[s] \in Nat /\ c[s] <= tab[s].cnt
    BY DEF Tables, Cached
  <2>2. r \in Cached /\ r.cnt = tab[s].cnt - c[s] /\ r.num = tab[s].num /\ r.ino = tab[s].ino
    <3>1. tab[s].cnt - c[s] \in 0 .. MaxRef + 1
      BY <2>1, SizeFacts
    <3> QED
      BY <2>1, <3>1 DEF Cached
  <2> HIDE DEF r
  <2>3. ASSUME NEW pointed \in BOOLEAN, t[s] = Freed(r, pointed)
        PROVE  /\ t[s] \in Cached /\ t[s].cnt = tab[s].cnt - c[s]
               /\ t[s].cnt > 0 => (tab[s].cnt > 0 /\ t[s].num = tab[s].num /\ t[s].ino = tab[s].ino)
    <3>1. CASE r.cnt = 0 /\ ~ pointed
      BY <2>2, <2>3, <3>1, <1>1 DEF Freed, Free
    <3>2. CASE ~ (r.cnt = 0 /\ ~ pointed)
      BY <2>1, <2>2, <2>3, <3>2, SizeFacts DEF Freed
    <3> QED
      BY <3>1, <3>2
  <2>4. CASE c[s] = 0 /\ t[s] = tab[s]
    BY <2>1, <2>4
  <2> QED
    BY <2>3, <2>4 DEF Given, r
<1>3. t \in Tables
  BY <1>2 DEF Tables
<1>4. OneEach(t)
  BY <1>2 DEF OneEach
<1>5. CachedExist(t)
  BY <1>2 DEF CachedExist
<1>6. Agrees(t, d)
  BY <1>2 DEF Agrees
<1> QED
  BY <1>2, <1>3, <1>4, <1>5, <1>6

\* do_close() (open.c:207-218).
LEMMA CloseStep ==
  ASSUME IInv, NEW p \in FsProc, NEW fd \in Fd, do_close(p, fd)
  PROVE  IInv'
<1> DEFINE i == filp[p][fd]
           s == fdesc[i].ino
           c == [r \in Slot |-> IF r = s THEN 1 ELSE 0]
<1>1. Serving /\ p \in fsAlive /\ i # 0
  BY DEF do_close
<1> DEFINE pt == Pointed(filp', fdesc', s)
<1>31. /\ \/ /\ itab[s].cnt > 0
             /\ itab' = [put_inode(itab, s) EXCEPT ![s] = Freed(@, pt)]
             /\ fdesc' = [fdesc EXCEPT ![i] = Dropped(@)]
             /\ filp' = [filp EXCEPT ![p][fd] = 0]
             /\ UNCHANGED failed
          \/ itab[s].cnt <= 0
       /\ UNCHANGED <<disk, toWrite, fsAlive, running, failures, torn>>
  BY DEF do_close, Fail
<1>32. pt \in BOOLEAN
  BY DEF Pointed
<1> HIDE DEF i, s, c, pt
<1>3. /\ filp \in Filps /\ fdesc \in Fdescs /\ itab \in Tables /\ TablesOK /\ TypesOK
      /\ running /\ failed = "none" /\ toWrite = <<>> /\ Agrees(itab, disk)
  BY <1>1, ServingFacts DEF IInv
<1>4. HeldOnce /\ DeadHoldNothing /\ CountsExact /\ OneEach(itab) /\ CachedExist(itab) /\ SlotsHeld
  BY <1>3 DEF TablesOK
<1>5. i \in Desc /\ filp[p][fd] = i
  BY <1>1, <1>3, SizeFacts DEF i, Filps, Desc
<1>6. s \in Slot /\ fdesc[i].ino = s /\ fdesc[i].cnt = Cardinality(Holds(filp, i))
  <2>1. <<p, fd>> \in Holds(filp, i)
    BY <1>5 DEF Holds, Handle
  <2>2. Cardinality(Holds(filp, i)) # 0
    BY <2>1, FS_EmptySet, HoldersAreHandles, HandleFacts
  <2>3. fdesc[i].ino # 0 /\ fdesc[i].cnt = Cardinality(Holds(filp, i))
    BY <2>2, <1>4, <1>5 DEF CountsExact
  <2>4. fdesc[i].ino \in 0 .. NR_INODE
    BY <1>3, <1>5 DEF Fdescs
  <2> QED
    BY <2>3, <2>4, SizeFacts DEF s, Slot
<1>2. /\ UNCHANGED failed /\ itab[s].cnt > 0
      /\ itab' = [put_inode(itab, s) EXCEPT ![s] = Freed(@, pt)]
      /\ fdesc' = [fdesc EXCEPT ![i] = Dropped(@)]
      /\ filp' = [filp EXCEPT ![p][fd] = 0]
      /\ UNCHANGED <<disk, toWrite, fsAlive, running, failures, torn>>
  <2>1. <<p, fd>> \in Uses(filp, fdesc, s)
    BY <1>1, <1>5, <1>6 DEF Uses, Handle
  <2>2. Cardinality(Uses(filp, fdesc, s)) \in Nat /\ Cardinality(Uses(filp, fdesc, s)) # 0
    BY <2>1, FS_EmptySet, HoldersAreHandles, HandleFacts
  <2>3. itab[s].cnt >= Cardinality(Uses(filp, fdesc, s)) + (IF s = RootSlot THEN 1 ELSE 0) /\ itab[s].cnt \in Nat
    BY <1>1, <1>6, ServingFacts DEF SlotsHeld
  <2>4. itab[s].cnt > 0
    BY <2>2, <2>3
  <2> QED
    BY <2>3, <2>4, <1>31
<1>7. OneClosed(filp, fdesc, filp', fdesc', p, fd, i, s)
  BY <1>2, <1>5, <1>6 DEF OneClosed
<1>8. CountedDown(filp, fdesc, filp', fdesc', i, s)
  BY <1>3, <1>7, CloseCounts
<1>9. /\ \A r \in Slot : Cardinality(Uses(filp, fdesc, r)) \in Nat /\ itab[r].cnt \in Nat
      /\ \A r \in Slot : itab[r].cnt >= Cardinality(Uses(filp, fdesc, r)) + (IF r = RootSlot THEN 1 ELSE 0)
  BY <1>1, ServingFacts DEF SlotsHeld
<1>10. itab[s].cnt >= 1 + (IF s = RootSlot THEN 1 ELSE 0)
  <2> DEFINE n == Cardinality(Uses(filp, fdesc, s))
             e == IF s = RootSlot THEN 1 ELSE 0
  <2>1. n \in Nat /\ n > 0 /\ itab[s].cnt \in Nat /\ itab[s].cnt >= n + e /\ e \in Nat
    BY <1>6, <1>8, <1>9 DEF CountedDown
  <2> HIDE DEF n, e
  <2>2. itab[s].cnt >= 1 + e
    BY <2>1
  <2> QED
    BY <2>2 DEF e
<1>11. itab[s].cnt > 0 /\ failed' = "none"
  BY <1>2, <1>3
<1>12. /\ c \in [Slot -> Nat] /\ (\A r \in Slot : c[r] <= itab[r].cnt) /\ Given(itab, itab', c)
       /\ itab' = [r \in Slot |-> itab'[r]]
  <2>1. c \in [Slot -> Nat] /\ c[s] = 1 /\ \A r \in Slot \ {s} : c[r] = 0
    BY <1>6 DEF c
  <2>2. \A r \in Slot : c[r] <= itab[r].cnt
    BY <2>1, <1>9, <1>11
  <2>3. itab' = [itab EXCEPT ![s] = Freed([itab[s] EXCEPT !.cnt = @ - 1], pt)]
    BY <1>2, <1>3, <1>6 DEF put_inode, Tables
  <2>4. /\ itab'[s] = Freed([itab[s] EXCEPT !.cnt = @ - 1], pt)
        /\ \A r \in Slot \ {s} : itab'[r] = itab[r]
        /\ itab' = [r \in Slot |-> itab'[r]]
    BY <2>3, <1>3, <1>6 DEF Tables
  <2>5. itab'[s] = Freed([itab[s] EXCEPT !.cnt = @ - c[s]], pt)
    BY <2>1, <2>4
  <2> QED
    BY <2>1, <2>2, <2>4, <2>5, <1>32 DEF Given
<1>13. /\ itab' \in Tables /\ OneEach(itab') /\ CachedExist(itab') /\ Agrees(itab', disk)
       /\ \A r \in Slot : itab'[r].cnt = itab[r].cnt - c[r] /\ (itab'[r].cnt > 0 => itab'[r].num = itab[r].num)
  BY <1>3, <1>4, <1>12, GivenBack
<1>14. \A r \in Slot : c[r] = IF r = s THEN 1 ELSE 0
  BY DEF c
<1>15. itab'[RootSlot].num = ROOT_INODE
  <2>1. itab'[RootSlot].cnt > 0
    <3>1. CASE s = RootSlot
      BY <3>1, <1>6, <1>9, <1>10, <1>13, <1>14
    <3>2. CASE s # RootSlot
      BY <3>2, <1>1, <1>13, <1>14, RootHeld, RootSlotIs, <1>9
    <3> QED
      BY <3>1, <3>2
  <2> QED
    BY <2>1, <1>1, <1>13, ServingFacts, RootSlotIs
<1>16. SlotsHeld'
  <2> SUFFICES ASSUME NEW r \in Slot
      PROVE  itab'[r].cnt >= Cardinality(Uses(filp', fdesc', r)) + (IF r = RootSlot THEN 1 ELSE 0)
    BY DEF SlotsHeld
  <2> DEFINE n == Cardinality(Uses(filp, fdesc, r))
             n2 == Cardinality(Uses(filp', fdesc', r))
             e == IF r = RootSlot THEN 1 ELSE 0
  <2>1. n2 = n - c[r]
    BY <1>6, <1>8, <1>9, <1>14 DEF CountedDown
  <2>2. n \in Nat /\ itab[r].cnt \in Nat /\ itab[r].cnt >= n + e /\ e \in Nat /\ c[r] \in Nat
    BY <1>9, <1>14
  <2>3. itab'[r].cnt = itab[r].cnt - c[r]
    BY <1>13
  <2> HIDE DEF n, n2, e
  <2>4. itab'[r].cnt >= n2 + e
    BY <2>1, <2>2, <2>3
  <2> QED
    BY <2>4 DEF n2, e
<1>17. \A q \in FsProc, g \in Fd : filp'[q][g] = IF q = p /\ g = fd THEN 0 ELSE filp[q][g]
  BY <1>2, <1>3 DEF Filps
<1>18. filp' \in Filps
  <2>1. [filp[p] EXCEPT ![fd] = 0] \in [Fd -> 0 .. NR_FILE_DESC]
    BY <1>3, SizeFacts DEF Filps
  <2>2. filp' = [filp EXCEPT ![p] = [filp[p] EXCEPT ![fd] = 0]]
    BY <1>2
  <2> QED
    BY <2>1, <2>2, <1>3, Zenon DEF Filps
<1>19. /\ fdesc'[i] = Dropped(fdesc[i]) /\ \A j \in Desc \ {i} : fdesc'[j] = fdesc[j]
       /\ fdesc[i] \in [ino : 0 .. NR_INODE, cnt : Nat] /\ fdesc[i].cnt > 0
  <2>1. fdesc[i].cnt # 0 /\ fdesc[i].cnt \in Nat
    BY <1>3, <1>4, <1>5, <1>6, SizeFacts DEF CountsExact, Slot, Fdescs
  <2> QED
    BY <2>1, <1>2, <1>3, <1>5 DEF Fdescs
<1>20. /\ Dropped(fdesc[i]) \in [ino : 0 .. NR_INODE, cnt : Nat]
       /\ Dropped(fdesc[i]).cnt = fdesc[i].cnt - 1
       /\ Dropped(fdesc[i]).cnt = 0 <=> Dropped(fdesc[i]).ino = 0
  <2>1. CASE fdesc[i].cnt = 1
    BY <2>1, SizeFacts DEF Dropped
  <2>2. CASE fdesc[i].cnt # 1
    BY <2>2, <1>6, <1>19, SizeFacts DEF Dropped, Slot
  <2> QED
    BY <2>1, <2>2
<1>21. fdesc' \in Fdescs
  BY <1>2, <1>3, <1>20 DEF Fdescs
<1>22. CountsExact'
  <2> SUFFICES ASSUME NEW j \in Desc
      PROVE  fdesc'[j].cnt = Cardinality(Holds(filp', j)) /\ (fdesc'[j].cnt = 0 <=> fdesc'[j].ino = 0)
    BY DEF CountsExact
  <2>1. CASE j = i
    BY <2>1, <1>6, <1>8, <1>19, <1>20 DEF CountedDown
  <2>2. CASE j # i
    BY <2>2, <1>4, <1>8, <1>19 DEF CountedDown, CountsExact
  <2> QED
    BY <2>1, <2>2
<1>23. HeldOnce' /\ DeadHoldNothing'
  BY <1>2, <1>4, <1>17 DEF HeldOnce, DeadHoldNothing
<1>24. TablesOK'
  BY <1>2, <1>3, <1>13, <1>15, <1>16, <1>22, <1>23 DEF TablesOK
<1>25. TypesOK'
  BY <1>2, <1>3, <1>13, <1>18, <1>21 DEF TypesOK, Filps, Fdescs
<1>26. DiskOK'
  BY <1>1, <1>2, <1>11, <1>13, TablesOnlyDisk
<1> QED
  BY <1>24, <1>25, <1>26 DEF IInv

\* fork() (fs/main.c:570-579).
LEMMA ForkStep ==
  ASSUME IInv, NEW p \in FsProc, NEW q \in FsProc, fs_fork(p, q)
  PROVE  IInv'
<1>1. /\ Serving /\ p \in fsAlive /\ q \notin fsAlive
      /\ \A s \in Slot : itab[s].cnt + InodeRefsOf(p, s) <= MaxRef
      /\ fsAlive' = fsAlive \cup {q}
      /\ filp' = [filp EXCEPT ![q] = filp[p]]
      /\ fdesc' = [i \in Desc |-> [fdesc[i] EXCEPT !.cnt = @ + RefsOf(p, i)]]
      /\ itab' = [s \in Slot |-> [itab[s] EXCEPT !.cnt = @ + InodeRefsOf(p, s)]]
      /\ UNCHANGED <<disk, toWrite, running, failed, failures, torn>>
  BY DEF fs_fork
<1>2. /\ filp \in Filps /\ fdesc \in Fdescs /\ itab \in Tables /\ TablesOK /\ TypesOK
      /\ running /\ failed = "none" /\ toWrite = <<>> /\ Agrees(itab, disk)
  BY <1>1, ServingFacts DEF IInv
<1>3. HeldOnce /\ DeadHoldNothing /\ CountsExact /\ OneEach(itab) /\ CachedExist(itab) /\ SlotsHeld
  BY <1>2 DEF TablesOK
<1>4. \A i \in Desc : RefsOf(p, i) = Cardinality(Fds(filp, p, i)) /\ RefsOf(p, i) \in Nat
  <2>1. \A i \in Desc : RefsOf(p, i) = Cardinality(Fds(filp, p, i))
    BY DEF RefsOf, Fds
  <2>2. \A i \in Desc : Fds(filp, p, i) \in SUBSET Fd
    BY DEF Fds
  <2> QED
    BY <2>1, <2>2, OfOneProcess
<1>5. \A s \in Slot : InodeRefsOf(p, s) = Cardinality(SlotFds(filp, fdesc, p, s)) /\ InodeRefsOf(p, s) \in Nat
  <2>1. \A s \in Slot : InodeRefsOf(p, s) = Cardinality(SlotFds(filp, fdesc, p, s))
    BY DEF InodeRefsOf, SlotFds
  <2>2. \A s \in Slot : SlotFds(filp, fdesc, p, s) \in SUBSET Fd
    BY DEF SlotFds
  <2> QED
    BY <2>1, <2>2, OfOneProcess
<1>6. \A i \in Desc : /\ fdesc'[i] \in [ino : 0 .. NR_INODE, cnt : Nat] /\ fdesc'[i].ino = fdesc[i].ino
                      /\ fdesc'[i].cnt = fdesc[i].cnt + RefsOf(p, i)
  BY <1>1, <1>2, <1>4 DEF Fdescs
<1>7. Forked(filp, fdesc, filp', fdesc', p, q)
  BY <1>1, <1>3, <1>6 DEF Forked, DeadHoldNothing
<1>8. CountedFor(filp, fdesc, filp', fdesc', p)
  BY <1>2, <1>7, ForkCounts
<1>9. /\ \A r \in Slot : Cardinality(Uses(filp, fdesc, r)) \in Nat /\ itab[r].cnt \in Nat
      /\ \A r \in Slot : itab[r].cnt >= Cardinality(Uses(filp, fdesc, r)) + (IF r = RootSlot THEN 1 ELSE 0)
  BY <1>1, ServingFacts DEF SlotsHeld
<1>10. \A s \in Slot : InodeRefsOf(p, s) > 0 => itab[s].cnt > 0
  <2> SUFFICES ASSUME NEW s \in Slot, InodeRefsOf(p, s) > 0 PROVE itab[s].cnt > 0
    OBVIOUS
  <2>1. SlotFds(filp, fdesc, p, s) # {}
    BY <1>5, FS_EmptySet
  <2>2. PICK f \in Fd : filp[p][f] # 0 /\ fdesc[filp[p][f]].ino = s
    BY <2>1 DEF SlotFds
  <2>3. <<p, f>> \in Uses(filp, fdesc, s)
    BY <2>2 DEF Uses, Handle
  <2>4. Cardinality(Uses(filp, fdesc, s)) # 0
    BY <2>3, FS_EmptySet, HoldersAreHandles, HandleFacts
  <2>5. Cardinality(Uses(filp, fdesc, s)) \in Nat /\ itab[s].cnt \in Nat
        /\ itab[s].cnt >= Cardinality(Uses(filp, fdesc, s)) + (IF s = RootSlot THEN 1 ELSE 0)
    BY <1>9
  <2> QED
    BY <2>4, <2>5
<1>11. \A s \in Slot : /\ itab'[s] \in Cached /\ itab'[s].num = itab[s].num /\ itab'[s].ino = itab[s].ino
                       /\ itab'[s].cnt = itab[s].cnt + InodeRefsOf(p, s)
                       /\ itab'[s].cnt > 0 => itab[s].cnt > 0
                       /\ itab[s].cnt > 0 => itab'[s].cnt > 0
  <2> SUFFICES ASSUME NEW s \in Slot
               PROVE  /\ itab'[s] \in Cached /\ itab'[s].num = itab[s].num /\ itab'[s].ino = itab[s].ino
                      /\ itab'[s].cnt = itab[s].cnt + InodeRefsOf(p, s)
                      /\ itab'[s].cnt > 0 => itab[s].cnt > 0
                      /\ itab[s].cnt > 0 => itab'[s].cnt > 0
    OBVIOUS
  <2> DEFINE n == InodeRefsOf(p, s)
  <2>1. n \in Nat /\ (n > 0 => itab[s].cnt > 0) /\ itab[s].cnt \in Nat /\ itab[s].cnt + n <= MaxRef
    BY <1>1, <1>5, <1>9, <1>10
  <2>2. itab'[s] = [itab[s] EXCEPT !.cnt = @ + n] /\ itab[s] \in Cached
    BY <1>1, <1>2 DEF Tables
  <2> HIDE DEF n
  <2>3. itab[s].cnt + n \in 0 .. MaxRef + 1
    BY <2>1, SizeFacts
  <2>4. itab'[s] \in Cached /\ itab'[s].num = itab[s].num /\ itab'[s].ino = itab[s].ino
        /\ itab'[s].cnt = itab[s].cnt + n
    BY <2>2, <2>3 DEF Cached
  <2> QED
    BY <2>1, <2>4 DEF n
<1>12. itab' \in Tables /\ OneEach(itab') /\ CachedExist(itab') /\ Agrees(itab', disk)
  <2>1. itab' \in Tables
    BY <1>1, <1>11 DEF Tables
  <2>2. OneEach(itab')
    BY <1>3, <1>11 DEF OneEach
  <2>3. CachedExist(itab')
    BY <1>3, <1>11 DEF CachedExist
  <2>4. Agrees(itab', disk)
    BY <1>2, <1>11 DEF Agrees
  <2> QED
    BY <2>1, <2>2, <2>3, <2>4
<1>13. SlotsHeld' /\ itab'[RootSlot].num = ROOT_INODE
  <2>1. ASSUME NEW r \in Slot
        PROVE  itab'[r].cnt >= Cardinality(Uses(filp', fdesc', r)) + (IF r = RootSlot THEN 1 ELSE 0)
    <3> DEFINE n == Cardinality(Uses(filp, fdesc, r))
               n2 == Cardinality(Uses(filp', fdesc', r))
               c == InodeRefsOf(p, r)
               e == IF r = RootSlot THEN 1 ELSE 0
    <3>1. n2 = n + c
      BY <1>5, <1>8 DEF CountedFor
    <3>2. n \in Nat /\ itab[r].cnt \in Nat /\ itab[r].cnt >= n + e /\ e \in Nat /\ c \in Nat
      BY <1>5, <1>9
    <3>3. itab'[r].cnt = itab[r].cnt + c
      BY <1>11
    <3> HIDE DEF n, n2, c, e
    <3>4. itab'[r].cnt >= n2 + e
      BY <3>1, <3>2, <3>3
    <3> QED
      BY <3>4 DEF n2, e
  <2>2. itab'[RootSlot].num = ROOT_INODE
    BY <1>1, <1>11, ServingFacts, RootSlotIs
  <2> QED
    BY <2>1, <2>2 DEF SlotsHeld
<1>14. \A x \in FsProc : filp'[x] = IF x = q THEN filp[p] ELSE filp[x]
  BY <1>1, <1>2 DEF Filps
<1>15. filp' \in Filps /\ fdesc' \in Fdescs
  BY <1>1, <1>2, <1>6 DEF Filps, Fdescs
<1>16. CountsExact'
  <2> SUFFICES ASSUME NEW i \in Desc
      PROVE  fdesc'[i].cnt = Cardinality(Holds(filp', i)) /\ (fdesc'[i].cnt = 0 <=> fdesc'[i].ino = 0)
    BY DEF CountsExact
  <2>1. fdesc'[i].cnt = Cardinality(Holds(filp', i))
    BY <1>3, <1>4, <1>6, <1>8 DEF CountsExact, CountedFor
  <2>2. fdesc[i].cnt = 0 => RefsOf(p, i) = 0
    <3> SUFFICES ASSUME fdesc[i].cnt = 0 PROVE RefsOf(p, i) = 0
      OBVIOUS
    <3>1. Holds(filp, i) = {}
      BY <1>3, FS_EmptySet, HoldersAreHandles, HandleFacts DEF CountsExact
    <3>2. Fds(filp, p, i) = {}
      <4> SUFFICES ASSUME NEW f \in Fd, filp[p][f] = i PROVE FALSE
        BY DEF Fds
      <4>1. <<p, f>> \in Holds(filp, i)
        BY DEF Holds, Handle
      <4> QED
        BY <3>1, <4>1
    <3> QED
      BY <3>2, <1>4, FS_EmptySet
  <2>3. fdesc[i].cnt \in Nat /\ RefsOf(p, i) \in Nat /\ (fdesc[i].cnt = 0 <=> fdesc[i].ino = 0)
    BY <1>2, <1>3, <1>4 DEF Fdescs, CountsExact
  <2> QED
    BY <2>1, <2>2, <2>3, <1>6
<1>17. HeldOnce' /\ DeadHoldNothing'
  BY <1>1, <1>3, <1>14 DEF HeldOnce, DeadHoldNothing
<1>18. TablesOK'
  BY <1>1, <1>2, <1>12, <1>13, <1>16, <1>17 DEF TablesOK
<1>19. TypesOK'
  BY <1>1, <1>2, <1>12, <1>15 DEF TypesOK, Filps, Fdescs
<1>20. DiskOK'
  BY <1>1, <1>2, <1>12, TablesOnlyDisk
<1> QED
  BY <1>18, <1>19, <1>20 DEF IInv

\* exit() (fs/main.c:588-602).
LEMMA ExitStep ==
  ASSUME IInv, NEW p \in FsProc, fs_exit(p)
  PROVE  IInv'
<1> DEFINE c == [s \in Slot |-> InodeRefsOf(p, s)]
<1>1. /\ Serving /\ p \in fsAlive
      /\ fsAlive' = fsAlive \ {p}
      /\ itab' = [s \in Slot |-> Freed([itab[s] EXCEPT !.cnt = @ - InodeRefsOf(p, s)], Pointed(filp', fdesc', s))]
      /\ fdesc' = [i \in Desc |-> IF RefsOf(p, i) > 0 THEN Dropped(fdesc[i]) ELSE fdesc[i]]
      /\ filp' = [filp EXCEPT ![p] = [fd \in Fd |-> 0]]
      /\ UNCHANGED <<disk, toWrite, running, failed, failures, torn>>
  BY DEF fs_exit
<1> HIDE DEF c
<1>2. /\ filp \in Filps /\ fdesc \in Fdescs /\ itab \in Tables /\ TablesOK /\ TypesOK
      /\ running /\ failed = "none" /\ toWrite = <<>> /\ Agrees(itab, disk)
  BY <1>1, ServingFacts DEF IInv
<1>3. HeldOnce /\ DeadHoldNothing /\ CountsExact /\ OneEach(itab) /\ CachedExist(itab) /\ SlotsHeld
  BY <1>2 DEF TablesOK
<1>4. \A i \in Desc : RefsOf(p, i) = Cardinality(Fds(filp, p, i))
  BY DEF RefsOf, Fds
<1>5. \A s \in Slot : c[s] = Cardinality(SlotFds(filp, fdesc, p, s)) /\ c[s] = InodeRefsOf(p, s) /\ c[s] \in Nat
  <2>1. \A s \in Slot : InodeRefsOf(p, s) = Cardinality(SlotFds(filp, fdesc, p, s))
    BY DEF InodeRefsOf, SlotFds
  <2>2. \A s \in Slot : SlotFds(filp, fdesc, p, s) \in SUBSET Fd
    BY DEF SlotFds
  <2>3. \A s \in Slot : InodeRefsOf(p, s) \in Nat
    BY <2>1, <2>2, OfOneProcess
  <2> QED
    BY <2>1, <2>3 DEF c
<1>6. Exited(filp, fdesc, filp', fdesc', p)
  <2>1. fdesc' = [i \in Desc |-> IF Cardinality(Fds(filp, p, i)) > 0 THEN Dropped(fdesc[i]) ELSE fdesc[i]]
    BY <1>1, <1>4
  <2> QED
    BY <2>1, <1>1, <1>3 DEF Exited, HeldOnce, CountsExact
<1>7. CountedWithout(filp, fdesc, filp', fdesc', p)
  BY <1>2, <1>6, ExitCounts
<1>8. /\ \A r \in Slot : Cardinality(Uses(filp, fdesc, r)) \in Nat /\ itab[r].cnt \in Nat
      /\ \A r \in Slot : itab[r].cnt >= Cardinality(Uses(filp, fdesc, r)) + (IF r = RootSlot THEN 1 ELSE 0)
  BY <1>1, ServingFacts DEF SlotsHeld
<1>9. /\ c \in [Slot -> Nat] /\ Given(itab, itab', c) /\ itab' = [r \in Slot |-> itab'[r]]
  <2>1. c \in [Slot -> Nat]
    BY <1>5 DEF c
  <2>2. \A s \in Slot : \E pointed \in BOOLEAN : itab'[s] = Freed([itab[s] EXCEPT !.cnt = @ - c[s]], pointed)
    <3>1. \A s \in Slot : itab'[s] = Freed([itab[s] EXCEPT !.cnt = @ - c[s]], Pointed(filp', fdesc', s))
      BY <1>1, <1>5
    <3>2. \A s \in Slot : Pointed(filp', fdesc', s) \in BOOLEAN
      BY DEF Pointed
    <3> QED
      BY <3>1, <3>2
  <2>3. itab' = [r \in Slot |-> itab'[r]]
    BY <1>1
  <2> QED
    BY <2>1, <2>2, <2>3 DEF Given
<1>10. \A r \in Slot : /\ c[r] + (IF r = RootSlot THEN 1 ELSE 0) <= itab[r].cnt /\ c[r] <= itab[r].cnt
                       /\ itab[r].cnt - c[r] >= Cardinality(Uses(filp', fdesc', r)) + (IF r = RootSlot THEN 1 ELSE 0)
  <2> SUFFICES ASSUME NEW r \in Slot
      PROVE  /\ c[r] + (IF r = RootSlot THEN 1 ELSE 0) <= itab[r].cnt /\ c[r] <= itab[r].cnt
             /\ itab[r].cnt - c[r] >= Cardinality(Uses(filp', fdesc', r)) + (IF r = RootSlot THEN 1 ELSE 0)
    OBVIOUS
  <2> DEFINE n == Cardinality(Uses(filp, fdesc, r))
             n2 == Cardinality(Uses(filp', fdesc', r))
             e == IF r = RootSlot THEN 1 ELSE 0
  <2>1. c[r] <= n /\ n2 = n - c[r]
    BY <1>5, <1>7 DEF CountedWithout
  <2>2. n \in Nat /\ itab[r].cnt \in Nat /\ itab[r].cnt >= n + e /\ e \in Nat /\ c[r] \in Nat
    BY <1>5, <1>8
  <2> HIDE DEF n, n2, e
  <2>3. c[r] + e <= itab[r].cnt /\ c[r] <= itab[r].cnt /\ itab[r].cnt - c[r] >= n2 + e
    BY <2>1, <2>2
  <2> QED
    BY <2>3 DEF n2, e
<1>11. /\ itab' \in Tables /\ OneEach(itab') /\ CachedExist(itab') /\ Agrees(itab', disk)
       /\ \A r \in Slot : itab'[r].cnt = itab[r].cnt - c[r] /\ (itab'[r].cnt > 0 => itab'[r].num = itab[r].num)
  BY <1>2, <1>3, <1>9, <1>10, GivenBack
<1>12. SlotsHeld'
  BY <1>10, <1>11 DEF SlotsHeld
<1>13. itab'[RootSlot].num = ROOT_INODE
  <2>1. c[RootSlot] + 1 <= itab[RootSlot].cnt /\ itab[RootSlot].cnt \in Nat /\ c[RootSlot] \in Nat
    BY <1>5, <1>8, <1>10, RootSlotIs
  <2>2. itab'[RootSlot].cnt > 0
    BY <2>1, <1>11, RootSlotIs
  <2> QED
    BY <2>2, <1>1, <1>11, ServingFacts, RootSlotIs
<1>14. \A x \in FsProc : filp'[x] = IF x = p THEN [fd \in Fd |-> 0] ELSE filp[x]
  BY <1>1, <1>2 DEF Filps
<1>15. filp' \in Filps
  <2>1. [fd \in Fd |-> 0] \in [Fd -> 0 .. NR_FILE_DESC]
    BY SizeFacts
  <2> QED
    BY <2>1, <1>1, <1>2 DEF Filps
<1>16. ASSUME NEW i \in Desc
       PROVE  /\ fdesc'[i] \in [ino : 0 .. NR_INODE, cnt : Nat]
              /\ fdesc'[i].cnt = fdesc[i].cnt - Cardinality(Fds(filp, p, i))
              /\ fdesc'[i].cnt = 0 <=> fdesc'[i].ino = 0
  <2>1. fdesc[i] \in [ino : 0 .. NR_INODE, cnt : Nat] /\ (fdesc[i].cnt = 0 <=> fdesc[i].ino = 0)
    BY <1>2, <1>3 DEF Fdescs, CountsExact
  <2>2. CASE Cardinality(Fds(filp, p, i)) = 0
    BY <2>1, <2>2, <1>1, <1>4
  <2>3. CASE Cardinality(Fds(filp, p, i)) = 1
    <3>1. fdesc'[i] = Dropped(fdesc[i])
      BY <2>3, <1>1, <1>4
    <3>2. fdesc[i].cnt # 0
      <4>1. Fds(filp, p, i) # {}
        BY <2>3, FS_EmptySet
      <4>2. PICK f \in Fd : filp[p][f] = i
        BY <4>1 DEF Fds
      <4>3. <<p, f>> \in Holds(filp, i)
        BY <4>2 DEF Holds, Handle
      <4>4. Cardinality(Holds(filp, i)) # 0
        BY <4>3, FS_EmptySet, HoldersAreHandles, HandleFacts
      <4> QED
        BY <4>4, <1>3 DEF CountsExact
    <3>3. CASE fdesc[i].cnt = 1
      BY <2>3, <3>1, <3>3, SizeFacts DEF Dropped
    <3>4. CASE fdesc[i].cnt # 1
      BY <2>1, <2>3, <3>1, <3>2, <3>4 DEF Dropped
    <3> QED
      BY <3>3, <3>4
  <2> QED
    BY <2>2, <2>3, <1>7 DEF CountedWithout
<1>17. fdesc' \in Fdescs
  BY <1>1, <1>16 DEF Fdescs
<1>18. CountsExact'
  BY <1>3, <1>7, <1>16 DEF CountsExact, CountedWithout
<1>19. HeldOnce' /\ DeadHoldNothing'
  BY <1>1, <1>3, <1>14 DEF HeldOnce, DeadHoldNothing
<1>20. TablesOK'
  BY <1>1, <1>2, <1>11, <1>12, <1>13, <1>18, <1>19 DEF TablesOK
<1>21. TypesOK'
  BY <1>1, <1>2, <1>11, <1>15, <1>17 DEF TypesOK, Filps, Fdescs
<1>22. DiskOK'
  BY <1>1, <1>2, <1>11, TablesOnlyDisk
<1> QED
  BY <1>20, <1>21, <1>22 DEF IInv

\* stat() (fs/misc.c:89-130).
LEMMA StatStep ==
  ASSUME IInv, NEW name \in Path, do_stat(name)
  PROVE  IInv'
<1>1. /\ Serving /\ failed' = IF CanGet(itab, search_file(name)) THEN failed ELSE "the inode table is full"
      /\ UNCHANGED <<disk, toWrite, itab, fdesc, filp, fsAlive, running, failures, torn>>
  BY DEF do_stat
<1>2. TablesOK'
  BY <1>1, SameTables
<1>3. TypesOK'
  BY <1>1 DEF IInv, TypesOK
<1>4. DiskOK'
  <2>1. CASE failed' = "none"
    BY <2>1, <1>1, ServingFacts, TablesOnlyDisk
  <2>2. CASE failed' # "none"
    <3>1. toWrite' = <<>>
      BY <1>1, ServingFacts
    <3>2. \A k \in 1 .. Len(toWrite') : Consistent(toWrite'[k])
      BY <3>1
    <3>3. failed' = "the inode table is full"
      BY <2>2, <1>1, ServingFacts
    <3> QED
      BY <3>2, <3>3, <1>1, FailureDisk
  <2> QED
    BY <2>1, <2>2
<1> QED
  BY <1>2, <1>3, <1>4 DEF IInv

-----------------------------------------------------------------------------
(***************************************************************************)
(* Power on, power off, and the sectors of a request.                      *)
(***************************************************************************)
LEMMA ClearedFacts ==
  ASSUME NEW fp, fp = [p \in FsProc |-> [fd \in Fd |-> 0]],
         NEW fds, fds = [i \in Desc |-> [ino |-> 0, cnt |-> 0]]
  PROVE  /\ fp \in Filps /\ fds \in Fdescs /\ \A p \in FsProc : \A f \in Fd : fp[p][f] = 0
         /\ \A i \in Desc : fds[i] = [ino |-> 0, cnt |-> 0] /\ Cardinality(Holds(fp, i)) = 0
         /\ \A s \in Slot : Cardinality(Uses(fp, fds, s)) = 0
<1>1. \A p \in FsProc : \A f \in Fd : fp[p][f] = 0
  OBVIOUS
<1>2. fp \in Filps /\ fds \in Fdescs
  BY SizeFacts DEF Filps, Fdescs
<1>3. \A h \in Handle : fp[h[1]][h[2]] = 0
  BY <1>1, HandleFacts
<1>4. \A i \in Desc : Holds(fp, i) = {}
  BY <1>3 DEF Holds, Desc
<1>5. \A s \in Slot : Uses(fp, fds, s) = {}
  BY <1>3 DEF Uses
<1> QED
  BY <1>1, <1>2, <1>4, <1>5, FS_EmptySet

LEMMA NoSlots ==
  ASSUME NEW t, t = [s \in Slot |-> Free]
  PROVE  t \in Tables /\ OneEach(t) /\ CachedExist(t) /\ \A s \in Slot : t[s] = Free /\ t[s].cnt = 0
<1>1. Free \in Cached /\ Free.cnt = 0
  BY SizeFacts DEF Free, Cached, NoInode, Inode, InodeNo
<1>2. t \in Tables /\ \A s \in Slot : t[s] = Free /\ t[s].cnt = 0
  BY <1>1 DEF Tables
<1> QED
  BY <1>2 DEF OneEach, CachedExist

LEMMA InitOK == FsFilesInit => IInv
<1> SUFFICES ASSUME FsFilesInit PROVE IInv
  OBVIOUS
<1>1. /\ disk = BlankDisk /\ toWrite = <<>> /\ itab = [s \in Slot |-> Free]
      /\ fdesc = [i \in Desc |-> [ino |-> 0, cnt |-> 0]]
      /\ filp = [p \in FsProc |-> [fd \in Fd |-> 0]]
      /\ fsAlive = {} /\ running = FALSE /\ failed = "none" /\ failures = 0 /\ torn = FALSE
  BY DEF FsFilesInit
<1>2. /\ filp \in Filps /\ fdesc \in Fdescs /\ \A p \in FsProc : \A f \in Fd : filp[p][f] = 0
      /\ \A i \in Desc : fdesc[i] = [ino |-> 0, cnt |-> 0] /\ Cardinality(Holds(filp, i)) = 0
  BY <1>1, ClearedFacts
<1>3. itab \in Tables /\ OneEach(itab) /\ CachedExist(itab) /\ \A s \in Slot : itab[s] = Free
  BY <1>1, NoSlots
<1>4. TypesOK
  <2>1. /\ disk \in Disk /\ toWrite \in Seq(Disk) /\ fsAlive \subseteq FsProc
        /\ running \in BOOLEAN /\ torn \in BOOLEAN /\ failures \in Nat
    <3>1. <<>> \in Seq(Disk)
      OBVIOUS
    <3>2. BlankDisk \in Disk
      BY FormatFacts
    <3> QED
      BY <1>1, <3>1, <3>2
  <2>2. itab \in Tables /\ filp \in Filps /\ fdesc \in Fdescs
    BY <1>2, <1>3
  <2> QED
    BY <2>1, <2>2, Zenon DEF TypesOK, Filps, Fdescs
<1>5. TablesOK
  BY <1>1, <1>2, <1>3 DEF TablesOK, HeldOnce, DeadHoldNothing, CountsExact, NothingHeld
<1>6. DiskOK
  BY <1>1 DEF DiskOK, FsAssertionsHold, Startable
<1> QED
  BY <1>4, <1>5, <1>6 DEF IInv

LEMMA PowerFailsStep ==
  ASSUME IInv, NEW k \in 0 .. Len(toWrite), PowerFails(k)
  PROVE  IInv'
<1>1. /\ running /\ failures < MaxFailures /\ disk' = Written(k)
      /\ running' = FALSE /\ fsAlive' = {} /\ failed' = "none" /\ failures' = failures + 1
      /\ torn' = (torn \/ Freeing(k) \/ failed = "assert(flg)")
      /\ toWrite' = <<>> /\ itab' = [s \in Slot |-> Free]
      /\ fdesc' = [i \in Desc |-> [ino |-> 0, cnt |-> 0]]
      /\ filp' = [p \in FsProc |-> [fd \in Fd |-> 0]]
  BY DEF PowerFails, EmptyTables
<1>2. /\ filp' \in Filps /\ fdesc' \in Fdescs /\ \A p \in FsProc : \A f \in Fd : filp'[p][f] = 0
      /\ \A i \in Desc : fdesc'[i] = [ino |-> 0, cnt |-> 0] /\ Cardinality(Holds(filp', i)) = 0
  BY <1>1, ClearedFacts
<1>3. itab' \in Tables /\ OneEach(itab') /\ CachedExist(itab') /\ \A s \in Slot : itab'[s] = Free
  BY <1>1, NoSlots
<1>4. disk' \in Disk /\ failures' \in Nat /\ failures' # 0
  <2>1. disk \in Disk /\ toWrite \in Seq(Disk) /\ failures \in Nat
    BY DEF IInv, TypesOK
  <2>2. Written(k) \in Disk
    BY <2>1 DEF Written
  <2> QED
    BY <2>1, <2>2, <1>1
<1>5. TypesOK'
  <2>1. /\ disk' \in Disk /\ toWrite' \in Seq(Disk) /\ fsAlive' \subseteq FsProc
        /\ running' \in BOOLEAN /\ torn' \in BOOLEAN /\ failures' \in Nat
    <3>1. <<>> \in Seq(Disk)
      OBVIOUS
    <3>2. torn' \in BOOLEAN
      BY <1>1
    <3> QED
      BY <1>1, <1>4, <3>1, <3>2, Zenon
  <2>2. itab' \in Tables /\ filp' \in Filps /\ fdesc' \in Fdescs
    BY <1>2, <1>3
  <2>3. fdesc' \in [Desc -> [ino : 0 .. NR_INODE, cnt : Nat]]
    BY <2>2 DEF Fdescs
  <2>4. filp' \in [FsProc -> [Fd -> 0 .. NR_FILE_DESC]]
    BY <2>2 DEF Filps
  <2> QED
    BY <2>1, <2>2, <2>3, <2>4, Zenon DEF TypesOK
<1>6. TablesOK'
  BY <1>1, <1>2, <1>3 DEF TablesOK, HeldOnce, DeadHoldNothing, CountsExact, NothingHeld
<1>7. DiskOK'
  <2>1. ASSUME torn' = FALSE PROVE Startable(disk')
    <3>1. failed # "assert(flg)" /\ ~ Freeing(k)
      BY <2>1, <1>1
    <3>2. Startable(Written(k))
      BY <3>1, <1>1 DEF IInv, DiskOK
    <3> QED
      BY <3>2, <1>1
  <2>2. torn' \in BOOLEAN
    BY <1>5 DEF TypesOK
  <2> QED
    BY <2>1, <2>2, <1>1, <1>4 DEF DiskOK, FsAssertionsHold
<1> QED
  BY <1>5, <1>6, <1>7 DEF IInv

LEMMA WriteSectorsStep ==
  ASSUME IInv, WriteSectors
  PROVE  IInv'
<1>1. /\ toWrite # <<>> /\ disk' = toWrite[Len(toWrite)] /\ toWrite' = <<>>
      /\ UNCHANGED <<itab, fdesc, filp, fsAlive, running, failed, failures, torn>>
  BY DEF WriteSectors, Last
<1>2. running /\ disk' = After
  BY <1>1 DEF IInv, TablesOK, After
<1>3. toWrite \in Seq(Disk) /\ disk' \in Disk
  BY <1>1 DEF IInv, TypesOK
<1>4. TypesOK'
  BY <1>1, <1>3 DEF IInv, TypesOK
<1>5. TablesOK'
  BY <1>1, <1>2 DEF IInv, TablesOK, HeldOnce, DeadHoldNothing, CountsExact, SlotsHeld
<1>6. DiskOK'
  <2>1. After' = After
    BY <1>1, <1>2 DEF After
  <2>2. FsAssertionsHold' /\ (torn' => ~ running') /\ running'
    BY <1>1, <1>2 DEF IInv, DiskOK, FsAssertionsHold
  <2>3. /\ failed = "none" => (Agrees(itab, After) /\ (failures = 0 => Exact(After)))
        /\ failed # "assert(flg)" => Consistent(After)
    BY <1>2 DEF IInv, DiskOK
  <2>4. Consistent(After) => \A k \in 0 .. Len(toWrite') : Startable(Written(k)')
    <3> SUFFICES ASSUME Consistent(After), NEW k \in 0 .. Len(toWrite') PROVE Startable(Written(k)')
      OBVIOUS
    <3>1. k = 0
      BY <1>1
    <3>2. Written(k)' = After
      BY <3>1, <1>2 DEF Written
    <3> QED
      BY <3>2 DEF Startable
  <2> QED
    BY <2>1, <2>2, <2>3, <2>4, <1>1 DEF DiskOK
<1> QED
  BY <1>4, <1>5, <1>6 DEF IInv

\* The first i-node that an empty cache holds (fs/main.c:85).
LEMMA FirstInode ==
  ASSUME NEW t, t = [s \in Slot |-> Free], NEW d \in Disk, d.ino[ROOT_INODE].mode = I_DIRECTORY,
         NEW u, u = get_inode(t, d, ROOT_INODE)
  PROVE  /\ u \in Tables /\ OneEach(u) /\ CachedExist(u) /\ Agrees(u, d)
         /\ u[RootSlot].num = ROOT_INODE /\ u[RootSlot].cnt = 1
<1>1. t \in Tables /\ OneEach(t) /\ \A s \in Slot : t[s] = Free /\ t[s].cnt = 0
  BY NoSlots
<1>2. CachedAt(t, ROOT_INODE) = {} /\ FreeSlots(t) = Slot
  BY <1>1 DEF CachedAt, FreeSlots
<1>3. Slot \in SUBSET Nat /\ RootSlot \in Slot /\ \A s \in Slot : RootSlot <= s
  BY SizeFacts DEF Slot, RootSlot
<1>4. Min(Slot) = RootSlot
  BY <1>3, MinIs
<1>5. SlotFor(t, ROOT_INODE) = RootSlot /\ CanGet(t, ROOT_INODE)
  BY <1>2, <1>3, <1>4 DEF SlotFor, CanGet
<1>6. Agrees(t, d) /\ t[RootSlot].cnt = 0 /\ t[RootSlot].cnt <= MaxRef
  BY <1>1, <1>3, SizeFacts DEF Agrees
<1>7. ROOT_INODE \in InodeNo \ {0} /\ ROOT_INODE # 0
  BY SizeFacts DEF ROOT_INODE, InodeNo
<1>8. /\ u \in Tables /\ u[RootSlot] = [num |-> ROOT_INODE, cnt |-> t[RootSlot].cnt + 1, ino |-> d.ino[ROOT_INODE]]
      /\ \A r \in Slot \ {RootSlot} : u[r] = t[r]
  BY <1>1, <1>5, <1>6, <1>7, GetInodeFacts
<1>9. /\ u[RootSlot].num = ROOT_INODE /\ u[RootSlot].cnt = 1 /\ u[RootSlot].ino = d.ino[ROOT_INODE]
      /\ \A r \in Slot \ {RootSlot} : u[r].cnt = 0
  BY <1>1, <1>6, <1>8
<1>10. \A r \in Slot : u[r].cnt > 0 => r = RootSlot
  BY <1>9
<1>11. OneEach(u)
  BY <1>10 DEF OneEach
<1>12. CachedExist(u)
  BY <1>7, <1>9, <1>10 DEF CachedExist, I_DIRECTORY, NO_MODE
<1>13. Agrees(u, d)
  BY <1>9, <1>10 DEF Agrees
<1> QED
  BY <1>8, <1>9, <1>11, <1>12, <1>13

LEMMA InitFsStep ==
  ASSUME IInv, ~ torn, init_fs
  PROVE  IInv'
<1> DEFINE d == IF Unformatted THEN Last(mkfs(disk)) ELSE disk
<1>1. /\ ~ running /\ torn = FALSE /\ running' = TRUE /\ failed' = "none" /\ \E p \in FsProc : fsAlive' = {p}
      /\ toWrite' = IF Unformatted THEN mkfs(disk) ELSE <<>>
      /\ itab' = get_inode([s \in Slot |-> Free], d, ROOT_INODE)
      /\ fdesc' = [i \in Desc |-> [ino |-> 0, cnt |-> 0]]
      /\ filp' = [p \in FsProc |-> [fd \in Fd |-> 0]]
      /\ UNCHANGED <<disk, failures, torn>>
  BY DEF init_fs, EmptyTables, IInv, TypesOK
<1>2. disk \in Disk /\ failures \in Nat /\ torn \in BOOLEAN
  BY DEF IInv, TypesOK
<1>3. /\ Startable(disk) /\ (failures = 0 => disk = BlankDisk) /\ (disk = BlankDisk => ~ disk.magic)
      /\ Consistent(disk) => disk.magic
  <2>1. disk = BlankDisk => ~ disk.magic
    BY DEF BlankDisk
  <2>2. Consistent(disk) => disk.magic
    BY DEF Consistent
  <2>3. Startable(disk) /\ (failures = 0 => disk = BlankDisk)
    BY <1>1 DEF IInv, DiskOK
  <2> QED
    BY <2>1, <2>2, <2>3
<1>4. \/ /\ Unformatted /\ disk = BlankDisk /\ toWrite' = mkfs(BlankDisk) /\ d = mkfs(BlankDisk)[5]
      \/ /\ ~ Unformatted /\ Consistent(disk) /\ toWrite' = <<>> /\ d = disk /\ failures # 0
  <2>1. CASE Unformatted
    <3>1. disk = BlankDisk
      BY <2>1, <1>3 DEF Startable, Unformatted
    <3> QED
      BY <2>1, <3>1, <1>1, FormatFacts DEF Last
  <2>2. CASE ~ Unformatted
    BY <2>2, <1>1, <1>3 DEF Startable, Unformatted
  <2> QED
    BY <2>1, <2>2
<1> HIDE DEF d
<1>5. /\ d \in Disk /\ Consistent(d) /\ (failures = 0 => Exact(d)) /\ toWrite' \in Seq(Disk) /\ After' = d
  <2>1. CASE Unformatted
    <3>1. toWrite' = mkfs(BlankDisk) /\ d = mkfs(BlankDisk)[5]
      BY <2>1, <1>4
    <3>2. /\ toWrite' \in Seq(Disk) /\ Len(toWrite') = 5 /\ toWrite'[5] = d
          /\ Consistent(d) /\ Exact(d)
      BY <3>1, FormatFacts
    <3>3. d \in Disk /\ toWrite' # <<>>
      <4>1. 5 \in 1 .. Len(toWrite')
        BY <3>2
      <4>2. d \in Disk
        BY <3>2, <4>1, ElementOfSeq
      <4>3. toWrite' # <<>>
        BY <3>2, EmptySeq
      <4> QED
        BY <4>2, <4>3
    <3> QED
      BY <3>2, <3>3 DEF After
  <2>2. CASE ~ Unformatted
    <3>1. Consistent(disk) /\ toWrite' = <<>> /\ d = disk /\ failures # 0 /\ disk' = disk
      BY <2>2, <1>1, <1>4
    <3>2. <<>> \in Seq(Disk)
      OBVIOUS
    <3>3. After' = d
      BY <3>1 DEF After
    <3> QED
      BY <3>1, <3>2, <3>3, <1>2
  <2> QED
    BY <2>1, <2>2
<1>6. /\ itab' \in Tables /\ OneEach(itab') /\ CachedExist(itab') /\ Agrees(itab', d)
      /\ itab'[RootSlot].num = ROOT_INODE /\ itab'[RootSlot].cnt = 1
  <2>1. d.ino[ROOT_INODE].mode = I_DIRECTORY
    BY <1>5 DEF Consistent
  <2> QED
    BY <2>1, <1>1, <1>5, FirstInode
<1>7. /\ filp' \in Filps /\ fdesc' \in Fdescs /\ \A p \in FsProc : \A f \in Fd : filp'[p][f] = 0
      /\ \A i \in Desc : fdesc'[i] = [ino |-> 0, cnt |-> 0] /\ Cardinality(Holds(filp', i)) = 0
      /\ \A s \in Slot : Cardinality(Uses(filp', fdesc', s)) = 0
  BY <1>1, ClearedFacts
<1>8. TypesOK'
  <2>1. disk' \in Disk /\ failures' \in Nat /\ torn' \in BOOLEAN /\ running' \in BOOLEAN /\ fsAlive' \subseteq FsProc
    BY <1>1, <1>2
  <2>2. fdesc' \in [Desc -> [ino : 0 .. NR_INODE, cnt : Nat]]
    BY <1>7 DEF Fdescs
  <2>3. filp' \in [FsProc -> [Fd -> 0 .. NR_FILE_DESC]]
    BY <1>7 DEF Filps
  <2> QED
    BY <2>1, <2>2, <2>3, <1>5, <1>6, Zenon DEF TypesOK
<1>9. TablesOK'
  <2>1. SlotsHeld'
    <3>1. ASSUME NEW r \in Slot
          PROVE  itab'[r].cnt >= Cardinality(Uses(filp', fdesc', r)) + (IF r = RootSlot THEN 1 ELSE 0)
      <4>1. itab'[r].cnt \in Nat
        BY <1>6, SizeFacts DEF Tables, Cached
      <4> QED
        BY <4>1, <1>6, <1>7
    <3> QED
      BY <3>1 DEF SlotsHeld
  <2>2. HeldOnce' /\ DeadHoldNothing' /\ CountsExact'
    BY <1>7 DEF HeldOnce, DeadHoldNothing, CountsExact
  <2> QED
    BY <2>1, <2>2, <1>1, <1>6 DEF TablesOK
<1>10. DiskOK'
  <2>1. \A k \in 0 .. Len(toWrite') : ~ Freeing(k)' => Startable(Written(k))'
    <3> SUFFICES ASSUME NEW k \in 0 .. Len(toWrite'), ~ Freeing(k)' PROVE Startable(Written(k))'
      OBVIOUS
    <3>1. CASE k = 0
      <4>1. Written(k)' = disk
        BY <3>1, <1>1 DEF Written
      <4> QED
        BY <4>1, <1>3 DEF Startable
    <3>2. CASE k # 0
      <4>1. toWrite' = mkfs(BlankDisk) /\ k \in 1 .. 5 /\ Written(k)' = toWrite'[k]
        <5>1. toWrite' # <<>>
          BY <3>2
        <5>2. toWrite' = mkfs(BlankDisk) /\ Len(mkfs(BlankDisk)) = 5
          BY <5>1, <1>4, FormatFacts
        <5>3. k \in 1 .. 5
          BY <5>2, <3>2
        <5>4. Written(k)' = toWrite'[k]
          BY <3>2 DEF Written
        <5> QED
          BY <5>2, <5>3, <5>4
      <4>2. toWrite'[k].ino[ROOT_INODE].mode = I_DIRECTORY
        BY <4>1, <3>2 DEF Freeing
      <4>3. k \in 4 .. 5
        BY <4>1, <4>2, FormatFacts
      <4> QED
        BY <4>1, <4>3, FormatFacts DEF Startable
    <3> QED
      BY <3>1, <3>2
  <2>2. FsAssertionsHold' /\ running' /\ torn' = FALSE /\ failures' = failures
    BY <1>1, <1>2 DEF FsAssertionsHold
  <2> QED
    BY <2>1, <2>2, <1>1, <1>5, <1>6 DEF DiskOK
<1> QED
  BY <1>8, <1>9, <1>10 DEF IInv

-----------------------------------------------------------------------------
(***************************************************************************)
(* open().                                                                 *)
(***************************************************************************)
\* A cached i-node gets another size and is written (open.c:176, 188; link.c:183).
Resize(t, s, z) == [t EXCEPT ![s].ino.size = z]
LEMMA ResizeKeeps ==
  ASSUME NEW t \in Tables, OneEach(t), CachedExist(t), NEW s \in Slot, t[s].cnt > 0,
         NEW d \in Disk, Consistent(d), Agrees(t, d), NEW z \in 0 .. DirSlots,
         NEW u, u = Resize(t, s, z), NEW e, e = sync_inode(u, d, s)
  PROVE  /\ u \in Tables /\ OneEach(u) /\ CachedExist(u)
         /\ \A r \in Slot : u[r].cnt = t[r].cnt /\ u[r].num = t[r].num
         /\ e \in Disk /\ Consistent(e) /\ Agrees(u, e) /\ (Exact(d) => Exact(e)) /\ e.dir = d.dir
<1>1. t[s] \in Cached /\ t[s].ino \in Inode /\ t[s].num \in InodeNo /\ t[s].num # 0
  BY DEF Tables, Cached, CachedExist
<1>2. t[s].num \in 1 .. NrInodes - 1 /\ t[s].ino = d.ino[t[s].num]
  BY <1>1, SizeFacts DEF InodeNo, Agrees
<1> DEFINE x == [t[s].ino EXCEPT !.size = z]
<1>3. x \in Inode /\ x.mode = t[s].ino.mode /\ x.start = t[s].ino.start /\ x.nr = t[s].ino.nr
  BY <1>1 DEF Inode
<1>4. u = [t EXCEPT ![s] = [t[s] EXCEPT !.ino = x]]
  BY <1>1 DEF Resize, Cached
<1> HIDE DEF x
<1>5. /\ [t[s] EXCEPT !.ino = x] \in Cached /\ [t[s] EXCEPT !.ino = x].ino = x
      /\ [t[s] EXCEPT !.ino = x].cnt = t[s].cnt /\ [t[s] EXCEPT !.ino = x].num = t[s].num
  BY <1>1, <1>3 DEF Cached
<1>6. /\ u \in Tables /\ u[s].ino = x /\ u[s].cnt = t[s].cnt /\ u[s].num = t[s].num
      /\ \A r \in Slot \ {s} : u[r] = t[r]
  BY <1>4, <1>5 DEF Tables
<1>7. \A r \in Slot : u[r].cnt = t[r].cnt /\ u[r].num = t[r].num
  BY <1>6
<1>8. OneEach(u) /\ CachedExist(u)
  <2>1. OneEach(u)
    BY <1>7 DEF OneEach
  <2>2. \A r \in Slot : u[r].ino.mode = t[r].ino.mode
    BY <1>3, <1>6
  <2>3. CachedExist(u)
    BY <1>7, <2>2 DEF CachedExist
  <2> QED
    BY <2>1, <2>3
<1> DEFINE n == t[s].num
<1>9. n \in 1 .. NrInodes - 1 /\ x \in Inode
      /\ x.mode = d.ino[n].mode /\ x.start = d.ino[n].start /\ x.nr = d.ino[n].nr
  BY <1>2, <1>3
<1>10. e = [d EXCEPT !.ino[n] = x]
  BY <1>6 DEF sync_inode
<1> HIDE DEF n
<1>11. /\ e \in Disk /\ Consistent(e) /\ (Exact(d) => Exact(e)) /\ e.dir = d.dir
       /\ e.ino[n] = x /\ \A k \in (1 .. NrInodes - 1) \ {n} : e.ino[k] = d.ino[k]
  <2>1. Sized(d, n, x, e)
    BY <1>9, <1>10 DEF Sized
  <2> QED
    BY <1>9, <2>1, SyncKeeps
<1>12. Agrees(u, e)
  <2> SUFFICES ASSUME NEW r \in Slot, u[r].cnt > 0 PROVE u[r].ino = e.ino[u[r].num]
    BY DEF Agrees
  <2>1. CASE r = s
    BY <2>1, <1>6, <1>11 DEF n
  <2>2. CASE r # s
    <3>1. t[r].cnt > 0 /\ u[r] = t[r] /\ t[r].num # n
      BY <2>2, <1>6 DEF OneEach, n
    <3>2. t[r].num \in 1 .. NrInodes - 1
      BY <3>1, SizeFacts DEF CachedExist, Tables, Cached, InodeNo
    <3> QED
      BY <3>1, <3>2, <1>11 DEF Agrees
  <2> QED
    BY <2>1, <2>2
<1> QED
  BY <1>6, <1>7, <1>8, <1>11, <1>12

\* What do_open() has when it comes to the descriptor: the cache with one
\* reference more, and images that leave the disk consistent.
Left(writes) == IF writes = <<>> THEN disk ELSE writes[Len(writes)]
Gotten(got) ==
  /\ got.slot \in Slot /\ got.tab \in Tables /\ OneEach(got.tab) /\ CachedExist(got.tab)
  /\ got.tab[got.slot].cnt = itab[got.slot].cnt + 1
  /\ \A r \in Slot \ {got.slot} : got.tab[r].cnt = itab[r].cnt
  /\ got.tab[RootSlot].num = ROOT_INODE
  /\ got.writes \in Seq(Disk) /\ \A k \in 1 .. Len(got.writes) : Consistent(got.writes[k])
  /\ Left(got.writes) \in Disk /\ Consistent(Left(got.writes)) /\ Agrees(got.tab, Left(got.writes))
  /\ failures = 0 => Exact(Left(got.writes))

LEMMA ConnectStep ==
  ASSUME IInv, Serving, NEW p \in fsAlive, FreeFds(p) # {}, FreeDescs # {}, NEW flags, NEW got, Gotten(got),
         Connect(p, Min(FreeFds(p)), Min(FreeDescs), got, flags),
         UNCHANGED <<failed, running, fsAlive, disk, failures, torn>>
  PROVE  IInv'
<1> DEFINE w == got.writes
           s == got.slot
           cut == Resize(got.tab, s, 0)
           e == sync_inode(cut, Left(w), s)
<1>1. /\ filp' = [filp EXCEPT ![p][Min(FreeFds(p))] = Min(FreeDescs)]
      /\ fdesc' = [fdesc EXCEPT ![Min(FreeDescs)] = [ino |-> s, cnt |-> 1]]
      /\ \/ itab' = cut /\ toWrite' = Append(w, e)
         \/ itab' = got.tab /\ toWrite' = w
  BY DEF Connect, Left, Last, Resize
<1>2. /\ s \in Slot /\ got.tab \in Tables /\ OneEach(got.tab) /\ CachedExist(got.tab)
      /\ got.tab[s].cnt = itab[s].cnt + 1
      /\ \A r \in Slot \ {s} : got.tab[r].cnt = itab[r].cnt
      /\ got.tab[RootSlot].num = ROOT_INODE
      /\ w \in Seq(Disk) /\ \A k \in 1 .. Len(w) : Consistent(w[k])
      /\ Left(w) \in Disk /\ Consistent(Left(w)) /\ Agrees(got.tab, Left(w))
      /\ failures = 0 => Exact(Left(w))
  BY DEF Gotten
<1>3. /\ cut \in Tables /\ OneEach(cut) /\ CachedExist(cut)
      /\ \A r \in Slot : cut[r].cnt = got.tab[r].cnt /\ cut[r].num = got.tab[r].num
      /\ e \in Disk /\ Consistent(e) /\ Agrees(cut, e) /\ (Exact(Left(w)) => Exact(e))
  <2>1. got.tab[s].cnt > 0 /\ 0 \in 0 .. DirSlots
    BY <1>2, SizeFacts, ServingFacts
  <2> HIDE DEF w, s
  <2> QED
    BY <1>2, <2>1, ResizeKeeps
<1> HIDE DEF w, s, cut, e
<1>4. /\ itab' \in Tables /\ OneEach(itab') /\ CachedExist(itab')
      /\ itab'[s].cnt = itab[s].cnt + 1 /\ \A r \in Slot \ {s} : itab'[r].cnt = itab[r].cnt
      /\ itab'[RootSlot].num = ROOT_INODE
  BY <1>1, <1>2, <1>3, RootSlotIs
<1>5. TablesOK' /\ filp' \in Filps /\ fdesc' \in Fdescs
  BY <1>1, <1>2, <1>4, ConnectTables
<1>6. /\ toWrite' \in Seq(Disk) /\ \A k \in 1 .. Len(toWrite') : Consistent(toWrite'[k])
      /\ After' \in Disk /\ Consistent(After') /\ Agrees(itab', After') /\ (failures = 0 => Exact(After'))
  <2>1. CASE itab' = got.tab /\ toWrite' = w
    <3>1. After' = Left(w)
      BY <2>1 DEF After, Left
    <3> QED
      BY <2>1, <3>1, <1>2
  <2>2. CASE itab' = cut /\ toWrite' = Append(w, e)
    <3>1. /\ toWrite' \in Seq(Disk) /\ Len(toWrite') = Len(w) + 1 /\ toWrite'[Len(w) + 1] = e
          /\ Len(w) \in Nat /\ \A k \in 1 .. Len(w) : toWrite'[k] = w[k]
      BY <2>2, <1>2, <1>3
    <3>2. toWrite' # <<>>
      BY <3>1
    <3>3. After' = e
      BY <3>1, <3>2 DEF After
    <3>4. \A k \in 1 .. Len(toWrite') : k \in 1 .. Len(w) \/ k = Len(w) + 1
      BY <3>1
    <3>5. \A k \in 1 .. Len(toWrite') : Consistent(toWrite'[k])
      BY <3>1, <3>4, <1>2, <1>3
    <3> QED
      BY <2>2, <3>1, <3>3, <3>5, <1>2, <1>3
  <2> QED
    BY <2>1, <2>2, <1>1
<1>7. TypesOK'
  <2>1. fdesc' \in [Desc -> [ino : 0 .. NR_INODE, cnt : Nat]]
    BY <1>5 DEF Fdescs
  <2>2. filp' \in [FsProc -> [Fd -> 0 .. NR_FILE_DESC]]
    BY <1>5 DEF Filps
  <2>3. /\ disk' \in Disk /\ failures' \in Nat /\ torn' \in BOOLEAN /\ running' \in BOOLEAN
        /\ fsAlive' \subseteq FsProc
    BY DEF IInv, TypesOK
  <2> QED
    BY <2>1, <2>2, <2>3, <1>4, <1>6, Zenon DEF TypesOK
<1>8. DiskOK'
  BY <1>6, ServingFacts, RequestDisk
<1> QED
  BY <1>5, <1>7, <1>8 DEF IInv

\* open() of a file that is there (open.c:148-157).
LEMMA OpenOldStep ==
  ASSUME IInv, Serving, NEW p \in fsAlive, FreeFds(p) # {}, FreeDescs # {},
         NEW name \in Path, NEW flags, OpenOld(p, name, flags), UNCHANGED torn
  PROVE  IInv'
<1> DEFINE num == search_file(name)
           s == SlotFor(itab, num)
           t == get_inode(itab, disk, num)
           got == [tab |-> t, slot |-> s, writes |-> <<>>]
<1>1. /\ num # INVALID_INODE /\ CanGet(itab, num) /\ itab[s].cnt < MaxRef
      /\ failed' = IF disk.ino[num].mode = NO_MODE THEN "i_mode" ELSE failed
      /\ Connect(p, Min(FreeFds(p)), Min(FreeDescs), got, flags)
      /\ UNCHANGED <<disk, running, fsAlive, failures>>
  BY DEF OpenOld
<1> HIDE DEF num
<1>2. num \in 1 .. NrInodes - 1 /\ num \in InodeNo \ {0} /\ disk.ino[num].mode # NO_MODE
  <2>1. TypesOK /\ Consistent(disk)
    BY ServingFacts DEF IInv
  <2>2. num = search_file(name)
    BY DEF num
  <2> QED
    BY <2>1, <2>2, <1>1, FoundExists
<1>3. OneEach(itab) /\ CachedExist(itab)
  BY DEF IInv, TablesOK
<1>4. itab[s].cnt <= MaxRef /\ itab[s].cnt \in Nat
  BY <1>1, SlotForFacts, ServingFacts, SizeFacts
<1>5. /\ s \in Slot /\ t \in Tables
      /\ t[s] = [num |-> num, cnt |-> itab[s].cnt + 1, ino |-> disk.ino[num]]
      /\ \A r \in Slot \ {s} : t[r] = itab[r]
      /\ \A r \in Slot \ {s} : itab[r].cnt > 0 => itab[r].num # num
      /\ itab[s].cnt > 0 => itab[s].num = num
  <2> HIDE DEF s
  <2>1. s = SlotFor(itab, num)
    BY DEF s
  <2> QED
    BY <2>1, <1>1, <1>2, <1>3, <1>4, ServingFacts, GetInodeFacts
<1> HIDE DEF s, t
<1>6. /\ t[s].num = num /\ t[s].cnt = itab[s].cnt + 1 /\ t[s].ino = disk.ino[num] /\ t[s].cnt > 0
      /\ \A r \in Slot \ {s} : t[r].num = itab[r].num /\ t[r].cnt = itab[r].cnt /\ t[r].ino = itab[r].ino
  BY <1>4, <1>5
<1>7. OneEach(t)
  BY <1>3, <1>5, <1>6 DEF OneEach
<1>8. CachedExist(t)
  BY <1>2, <1>3, <1>6 DEF CachedExist
<1>9. Agrees(t, disk)
  BY <1>6, ServingFacts DEF Agrees
<1>10. t[RootSlot].num = ROOT_INODE
  <2>1. CASE s = RootSlot
    BY <2>1, <1>5, <1>6, RootHeld, ServingFacts
  <2>2. CASE s # RootSlot
    BY <2>2, <1>6, ServingFacts, RootSlotIs
  <2> QED
    BY <2>1, <2>2
<1>11. Gotten(got)
  <2>1. /\ got.slot = s /\ got.tab = t /\ got.writes = <<>> /\ Left(<<>>) = disk
        /\ <<>> \in Seq(Disk) /\ \A k \in 1 .. Len(<<>>) : FALSE
    BY DEF Left
  <2> HIDE DEF got
  <2> QED
    BY <2>1, <1>5, <1>6, <1>7, <1>8, <1>9, <1>10, ServingFacts DEF Gotten
<1> HIDE DEF got
<1>12. failed' = failed
  BY <1>1, <1>2
<1> QED
  BY <1>1, <1>11, <1>12, ConnectStep

\* The bits a creation takes (open.c:217-297).
NewBits(n, b) ==
  /\ n \in InodeNo /\ n \notin disk.imap
  /\ b \in Nat /\ alloc_smap_bit = Bits(b, NR_DEFAULT_FILE_SECTS) /\ Min(alloc_smap_bit) = b
  /\ alloc_smap_bit \subseteq FreeBits
LEMMA ImapBitFacts ==
  ASSUME IInv, ~ ImapFull
  PROVE  alloc_imap_bit \in InodeNo /\ alloc_imap_bit \notin disk.imap
<1> DEFINE S == (0 .. NrInodes - 1) \ disk.imap
<1>1. S \in SUBSET Nat /\ S # {}
  BY SizeFacts DEF ImapFull
<1>2. Min(S) \in S
  BY <1>1, MinFacts
<1> QED
  BY <1>2 DEF alloc_imap_bit, InodeNo

\* Whether or not the map has a free bit, what comes back is a bit of it.
LEMMA ImapBitInMap ==
  ASSUME IInv
  PROVE  alloc_imap_bit \in InodeNo
<1>1. CASE ImapFull
  BY <1>1, SizeFacts DEF alloc_imap_bit, INVALID_INODE, InodeNo
<1>2. CASE ~ ImapFull
  BY <1>2, ImapBitFacts
<1> QED
  BY <1>1, <1>2

LEMMA RunFacts ==
  ASSUME IInv, ~ NoRun
  PROVE  alloc_smap_bit \in SUBSET (0 .. NrSects - 1)
<1>1. PICK f \in FreeBits : /\ \A g \in FreeBits : f <= g
                            /\ Bits(f, NR_DEFAULT_FILE_SECTS) \subseteq FreeBits
  BY DEF NoRun
<1>2. FreeBits \in SUBSET Nat
  BY SizeFacts DEF FreeBits
<1>3. Min(FreeBits) = f
  BY <1>1, <1>2, MinIs
<1> QED
  BY <1>1, <1>3 DEF alloc_smap_bit, FreeBits

LEMMA NewBitsFacts ==
  ASSUME IInv, ~ ImapFull, ~ NoRun
  PROVE  NewBits(alloc_imap_bit, Min(FreeBits))
<1>1. PICK f \in FreeBits : /\ \A g \in FreeBits : f <= g
                            /\ Bits(f, NR_DEFAULT_FILE_SECTS) \subseteq FreeBits
  BY DEF NoRun
<1>2. FreeBits \in SUBSET Nat
  BY SizeFacts DEF FreeBits
<1>3. Min(FreeBits) = f /\ f \in Nat
  BY <1>1, <1>2, MinIs
<1>4. alloc_smap_bit = Bits(f, NR_DEFAULT_FILE_SECTS)
  BY <1>3 DEF alloc_smap_bit
<1>5. /\ Bits(f, NR_DEFAULT_FILE_SECTS) \in SUBSET Nat /\ f \in Bits(f, NR_DEFAULT_FILE_SECTS)
      /\ \A y \in Bits(f, NR_DEFAULT_FILE_SECTS) : f <= y
  BY <1>3, SizeFacts DEF Bits
<1>6. Min(alloc_smap_bit) = f
  BY <1>4, <1>5, MinIs
<1>7. alloc_imap_bit \in InodeNo /\ alloc_imap_bit \notin disk.imap
  BY ImapBitFacts
<1> QED
  BY <1>1, <1>3, <1>4, <1>6, <1>7 DEF NewBits

\* open() that fails: FS stops, with the bits it has taken (open.c:120-147, 262-297).
LEMMA OpenFailsStep ==
  ASSUME IInv, Serving, NEW p \in fsAlive, NEW name, NEW flags, OpenFails(p, name, flags)
  PROVE  IInv'
<1>1. /\ UNCHANGED <<disk, itab, fdesc, filp, fsAlive, running, failures, torn>>
      /\ failed' \in {"filp[] is full", "f_desc_table[] is full", "alloc_imap_bit", "alloc_smap_bit",
                      "the inode table is full"}
      /\ \/ toWrite' = toWrite
         \/ toWrite' = <<WithImap>>
         \/ ~ NoRun /\ toWrite' = <<WithImap, WithMaps>>
  BY DEF OpenFails, Fail
<1>2. disk \in Disk /\ Consistent(disk) /\ toWrite = <<>>
  BY ServingFacts
<1>3. WithImap \in Disk /\ Consistent(WithImap)
  <2>1. {alloc_imap_bit} \in SUBSET InodeNo
    BY ImapBitInMap
  <2>2. WithImap = [disk EXCEPT !.imap = @ \cup {alloc_imap_bit}]
    BY DEF WithImap
  <2> QED
    BY <2>1, <2>2, <1>2, BitsKeep
<1>4. ~ NoRun => WithMaps \in Disk /\ Consistent(WithMaps)
  <2> SUFFICES ASSUME ~ NoRun PROVE WithMaps \in Disk /\ Consistent(WithMaps)
    OBVIOUS
  <2>1. alloc_smap_bit \in SUBSET (0 .. NrSects - 1)
    BY RunFacts
  <2>2. WithMaps = [WithImap EXCEPT !.smap = @ \cup alloc_smap_bit]
    BY DEF WithMaps
  <2> QED
    BY <2>1, <2>2, <1>3, BitsKeep
<1>5. toWrite' \in Seq(Disk) /\ \A k \in 1 .. Len(toWrite') : Consistent(toWrite'[k])
  <2>1. CASE toWrite' = <<>>
    BY <2>1
  <2>2. CASE toWrite' = <<WithImap>>
    BY <2>2, <1>3
  <2>3. CASE ~ NoRun /\ toWrite' = <<WithImap, WithMaps>>
    <3>1. Len(toWrite') = 2 /\ toWrite'[1] = WithImap /\ toWrite'[2] = WithMaps /\ toWrite' \in Seq(Disk)
      BY <2>3, <1>3, <1>4
    <3>2. \A k \in 1 .. 2 : k = 1 \/ k = 2
      OBVIOUS
    <3> QED
      BY <3>1, <3>2, <2>3, <1>3, <1>4
  <2> QED
    BY <2>1, <2>2, <2>3, <1>1, <1>2
<1>6. TypesOK'
  <2>1. /\ disk' = disk /\ itab' = itab /\ fdesc' = fdesc /\ filp' = filp /\ fsAlive' = fsAlive
        /\ running' = running /\ failures' = failures /\ torn' = torn
    BY <1>1
  <2> QED
    BY <2>1, <1>5, Zenon DEF IInv, TypesOK
<1>7. TablesOK'
  BY <1>1, SameTables
<1>8. DiskOK'
  <2>1. failed' # "none" /\ failed' \notin {"i-map", "s-map", "i_mode", "put_inode"}
    BY <1>1
  <2> QED
    BY <2>1, <1>1, <1>5, FailureDisk
<1> QED
  BY <1>6, <1>7, <1>8 DEF IInv

LEMMA FreeEntryRange ==
  ASSUME IInv, FreeEntryIndex <= DirSlots
  PROVE  FreeEntryIndex \in 1 .. DirSlots
<1> DEFINE nr == Root(itab).size
           S == {m \in 1 .. nr : disk.dir[m].ino = INVALID_INODE} \cup {nr + 1}
<1>1. nr \in Nat
  BY RootSlotIs, SizeFacts DEF IInv, TypesOK, Tables, Cached, Inode, Root
<1>2. S \in SUBSET Nat /\ S # {} /\ \A m \in S : m >= 1
  BY <1>1
<1>3. Min(S) \in S
  BY <1>2, MinFacts
<1>4. FreeEntryIndex = Min(S)
  BY DEF FreeEntryIndex
<1> HIDE DEF S
<1>5. Min(S) \in Nat /\ Min(S) >= 1
  BY <1>2, <1>3
<1> QED
  BY <1>4, <1>5, SizeFacts

\* The first three images of a creation: bits, bits, i-node (open.c:159-169).
NewFile(n, b, x, d3) ==
  /\ NewBits(n, b) /\ n = alloc_imap_bit
  /\ x = [mode |-> I_REGULAR, size |-> 0, start |-> b, nr |-> NR_DEFAULT_FILE_SECTS]
  /\ d3 = [WithMaps EXCEPT !.ino[n] = x]
LEMMA NewFileOnDisk ==
  ASSUME IInv, Serving, NEW n, NEW b, NEW x, NEW d3, NewFile(n, b, x, d3)
  PROVE  /\ n \in 1 .. NrInodes - 1 /\ disk.ino[n].mode = NO_MODE /\ x \in Inode
         /\ \A m \in 1 .. DirSlots : disk.dir[m].ino # n
         /\ WithImap \in Disk /\ WithMaps \in Disk /\ d3 \in Disk
         /\ Consistent(WithImap) /\ Consistent(WithMaps) /\ Consistent(d3)
         /\ failures = 0 => Exact(d3)
         /\ n \in d3.imap /\ d3.dir = disk.dir /\ d3.ino[n] = x
         /\ \A k \in (1 .. NrInodes - 1) \ {n} : d3.ino[k] = disk.ino[k]
<1> DEFINE B == alloc_smap_bit
<1>1. /\ disk \in Disk /\ Consistent(disk) /\ (failures = 0 => Exact(disk))
      /\ MapsCover(disk) /\ EntriesOK(disk)
  BY ServingFacts DEF Consistent
<1>2. /\ n \in InodeNo /\ n \notin disk.imap /\ b \in Nat
      /\ B = Bits(b, NR_DEFAULT_FILE_SECTS) /\ B \subseteq FreeBits
  BY DEF NewBits, NewFile
<1>3. n \in 1 .. NrInodes - 1
  BY <1>1, <1>2, SizeFacts DEF MapsCover, InodeNo
<1>4. disk.ino[n].mode = NO_MODE
  BY <1>1, <1>2, <1>3 DEF MapsCover
<1>5. \A m \in 1 .. DirSlots : disk.dir[m].ino # n
  BY <1>1, <1>2, <1>3 DEF EntriesOK, INVALID_INODE
<1>6. B \in SUBSET (0 .. NrSects - 1) /\ B \cap disk.smap = {} /\ 0 \notin B
  BY <1>1, <1>2 DEF FreeBits, MapsCover
<1>7. x \in Inode
  BY <1>2, SizeFacts DEF Inode, NewFile
<1>8. /\ WithImap = [disk EXCEPT !.imap = @ \cup {n}] /\ WithMaps = [WithImap EXCEPT !.smap = @ \cup B]
      /\ {n} \in SUBSET InodeNo
  BY <1>2 DEF WithImap, WithMaps, NewFile
<1> HIDE DEF B
<1>9. WithImap \in Disk /\ Consistent(WithImap)
  BY <1>1, <1>8, BitsKeep
<1>10. WithMaps \in Disk /\ Consistent(WithMaps)
  BY <1>6, <1>8, <1>9, BitsKeep
<1>11. /\ WithMaps.imap = disk.imap \cup {n} /\ WithMaps.smap = disk.smap \cup B
       /\ WithMaps.ino = disk.ino /\ WithMaps.dir = disk.dir
  <2>1. /\ WithImap.imap = disk.imap \cup {n} /\ WithImap.smap = disk.smap
        /\ WithImap.ino = disk.ino /\ WithImap.dir = disk.dir
    BY <1>1, <1>8 DEF Disk
  <2> QED
    BY <2>1, <1>8, <1>9 DEF Disk
<1>12. \A k \in 1 .. NrInodes - 1 : DataIn(WithMaps, k) = DataIn(disk, k) /\ DataIn(disk, k) \subseteq disk.smap \ {0}
  BY <1>1, <1>11 DEF DataIn, MapsCover
<1>13. x.mode = I_REGULAR /\ x.start = b /\ x.nr = NR_DEFAULT_FILE_SECTS /\ Bits(x.start, x.nr) = B
  BY <1>2 DEF NewFile
<1>14. Unused(WithMaps, n, x, d3)
  <2>1. n \in WithMaps.imap /\ WithMaps.ino[n].mode = NO_MODE
    BY <1>4, <1>11
  <2>2. B \subseteq WithMaps.smap \ {0}
    BY <1>6, <1>11
  <2>3. \A k \in 1 .. NrInodes - 1 : B \cap DataIn(WithMaps, k) = {}
    BY <1>6, <1>12
  <2> QED
    BY <2>1, <2>2, <2>3, <1>13 DEF Unused, NewFile
<1>15. /\ d3 \in Disk /\ Consistent(d3) /\ DataIn(d3, n) = Bits(x.start, x.nr)
       /\ \A k \in (1 .. NrInodes - 1) \ {n} : DataIn(d3, k) = DataIn(WithMaps, k) /\ d3.ino[k] = WithMaps.ino[k]
       /\ d3.imap = WithMaps.imap /\ d3.smap = WithMaps.smap /\ d3.dir = WithMaps.dir /\ d3.ino[n] = x
  BY <1>3, <1>7, <1>10, <1>14, NewInodeKeeps
<1>16. failures = 0 => Exact(d3)
  <2> SUFFICES ASSUME failures = 0 PROVE Exact(d3)
    OBVIOUS
  <2>1. Exact(disk)
    BY <1>1
  <2>2. ASSUME NEW k \in d3.imap \ {0} PROVE d3.ino[k].mode # NO_MODE
    <3>1. CASE k = n
      BY <3>1, <1>13, <1>15 DEF I_REGULAR, NO_MODE
    <3>2. CASE k # n
      <4>1. k \in disk.imap \ {0}
        BY <2>2, <3>2, <1>11, <1>15
      <4>2. k \in (1 .. NrInodes - 1) \ {n}
        BY <4>1, <3>2, <1>1, ImapRange
      <4> QED
        BY <4>1, <4>2, <2>1, <1>11, <1>15 DEF Exact
    <3> QED
      BY <3>1, <3>2
  <2>3. ASSUME NEW y \in d3.smap \ {0} PROVE \E k \in 1 .. NrInodes - 1 : y \in DataIn(d3, k)
    <3>1. CASE y \in B
      BY <3>1, <1>3, <1>13, <1>15
    <3>2. CASE y \notin B
      <4>1. y \in disk.smap \ {0}
        BY <3>2, <1>11, <1>15
      <4>2. PICK k \in 1 .. NrInodes - 1 : y \in DataIn(disk, k)
        BY <4>1, <2>1 DEF Exact
      <4>3. k # n
        BY <4>2, <1>4 DEF DataIn, NO_MODE, I_REGULAR, I_DIRECTORY
      <4> QED
        BY <4>2, <4>3, <1>12, <1>15
    <3> QED
      BY <3>1, <3>2
  <2> QED
    BY <2>2, <2>3 DEF Exact
<1> QED
  BY <1>3, <1>4, <1>5, <1>7, <1>9, <1>10, <1>11, <1>15, <1>16

\* create_file() (open.c:148-181): what it has for the descriptor.
LEMMA CreateGotten ==
  ASSUME IInv, Serving, NEW name \in Path, search_file(name) = INVALID_INODE,
         ~ ImapFull, ~ NoRun, CanGet(itab, alloc_imap_bit), FreeEntryIndex <= DirSlots
  PROVE  Gotten(create_file(name))
<1> DEFINE n  == alloc_imap_bit
           b  == Min(FreeBits)
           m  == FreeEntryIndex
           s  == SlotFor(itab, n)
           x  == [mode |-> I_REGULAR, size |-> 0, start |-> b, nr |-> NR_DEFAULT_FILE_SECTS]
           t1 == new_inode(n)
           z  == IF m > t1[RootSlot].ino.size THEN m ELSE t1[RootSlot].ino.size
           t2 == Resize(t1, RootSlot, z)
           d3 == [WithMaps EXCEPT !.ino[n] = x]
           en == [ino |-> n, name |-> name]
           d4 == [d3 EXCEPT !.dir[m] = en]
           d5 == sync_inode(t2, d4, RootSlot)
           got == create_file(name)
<1>1. NewBits(n, b) /\ Min(alloc_smap_bit) = b
  BY NewBitsFacts DEF NewBits
<1>2. NewFile(n, b, x, d3)
  BY <1>1 DEF NewFile
<1>3. /\ disk \in Disk /\ Consistent(disk) /\ itab \in Tables /\ Agrees(itab, disk)
      /\ OneEach(itab) /\ CachedExist(itab) /\ itab[RootSlot].num = ROOT_INODE
  BY ServingFacts DEF IInv, TablesOK
<1> HIDE DEF n, b, d3, x
<1>4. /\ n \in 1 .. NrInodes - 1 /\ disk.ino[n].mode = NO_MODE /\ x \in Inode
      /\ \A k \in 1 .. DirSlots : disk.dir[k].ino # n
      /\ WithImap \in Disk /\ WithMaps \in Disk /\ d3 \in Disk
      /\ Consistent(WithImap) /\ Consistent(WithMaps) /\ Consistent(d3)
      /\ failures = 0 => Exact(d3)
      /\ n \in d3.imap /\ d3.dir = disk.dir /\ d3.ino[n] = x
      /\ \A k \in (1 .. NrInodes - 1) \ {n} : d3.ino[k] = disk.ino[k]
  BY <1>2, NewFileOnDisk
<1>5. \A r \in Slot : itab[r].cnt > 0 => itab[r].num # n
  BY <1>3, <1>4 DEF Agrees, CachedExist
<1>6. CachedAt(itab, n) = {}
  <2>1. \A r \in Slot : itab[r].cnt # 0 => itab[r].cnt > 0
    BY ServingFacts
  <2> QED
    BY <1>5, <2>1 DEF CachedAt
<1>7. s \in Slot /\ itab[s].cnt = 0 /\ itab[s].cnt <= MaxRef
  <2>1. CanGet(itab, n)
    BY DEF n
  <2> QED
    BY <2>1, <1>3, <1>6, SlotForFacts, SizeFacts
<1>8. s # RootSlot
  BY <1>7, RootHeld
<1>9. /\ t1 \in Tables /\ t1[s] = [num |-> n, cnt |-> 1, ino |-> x] /\ \A r \in Slot \ {s} : t1[r] = itab[r]
  <2> HIDE DEF s
  <2>1. get_inode(itab, disk, n) \in Tables /\ \A r \in Slot \ {s} : get_inode(itab, disk, n)[r] = itab[r]
    <3>1. n \in InodeNo \ {0}
      BY <1>4, SizeFacts DEF InodeNo
    <3>2. CanGet(itab, n)
      BY DEF n
    <3>3. s = SlotFor(itab, n)
      BY DEF s
    <3> QED
      <4>1. /\ s \in Slot /\ get_inode(itab, disk, n) \in Tables
            /\ get_inode(itab, disk, n)[s] = [num |-> n, cnt |-> itab[s].cnt + 1, ino |-> disk.ino[n]]
            /\ \A r \in Slot \ {s} : get_inode(itab, disk, n)[r] = itab[r]
        BY <3>1, <3>2, <3>3, <1>3, <1>7, GetInodeFacts
      <4> QED
        BY <4>1
  <2>2. t1 = [get_inode(itab, disk, n) EXCEPT ![s] = [num |-> n, cnt |-> 1, ino |-> x]]
    BY <1>1 DEF new_inode, x, s
  <2>3. [num |-> n, cnt |-> 1, ino |-> x] \in Cached
    BY <1>4, SizeFacts DEF Cached, InodeNo
  <2> QED
    BY <2>1, <2>2, <2>3, <1>7 DEF Tables
<1> HIDE DEF s, t1
<1>10. /\ t1[s].num = n /\ t1[s].cnt = 1 /\ t1[s].ino = x
       /\ \A r \in Slot \ {s} : t1[r].num = itab[r].num /\ t1[r].cnt = itab[r].cnt /\ t1[r].ino = itab[r].ino
  BY <1>9
<1>11. x.mode = I_REGULAR
  BY DEF x
<1>12. OneEach(t1)
  BY <1>3, <1>5, <1>10 DEF OneEach
<1>13. CachedExist(t1)
  BY <1>3, <1>4, <1>10, <1>11 DEF CachedExist, I_REGULAR, NO_MODE
<1>14. m \in 1 .. DirSlots
  BY FreeEntryRange
<1>15. en \in Entry
  <2>1. name # RootPath
    BY DEF search_file, ROOT_INODE, INVALID_INODE
  <2> QED
    BY <2>1, <1>4 DEF Entry, Path, InodeNo
<1>16. Entered(d3, n, m, en, d4)
  <2>1. d3.ino[n].mode # NO_MODE
    BY <1>4, <1>11 DEF I_REGULAR, NO_MODE
  <2> QED
    BY <2>1, <1>4 DEF Entered
<1> HIDE DEF m, en, d4
<1>17. /\ d4 \in Disk /\ Consistent(d4) /\ (Exact(d3) => Exact(d4)) /\ d4.ino = d3.ino
  BY <1>4, <1>14, <1>15, <1>16, NewEntryKeeps
<1>18. Agrees(t1, d4)
  <2> SUFFICES ASSUME NEW r \in Slot, t1[r].cnt > 0 PROVE t1[r].ino = d4.ino[t1[r].num]
    BY DEF Agrees
  <2>1. CASE r = s
    BY <2>1, <1>4, <1>10, <1>17
  <2>2. CASE r # s
    <3>1. itab[r].cnt > 0 /\ t1[r].ino = itab[r].ino /\ t1[r].num = itab[r].num /\ itab[r].num # n
      BY <2>2, <1>5, <1>10
    <3>2. itab[r].num \in 1 .. NrInodes - 1
      BY <3>1, <1>3, SizeFacts DEF CachedExist, Tables, Cached, InodeNo
    <3> QED
      BY <3>1, <3>2, <1>3, <1>4, <1>17 DEF Agrees
  <2> QED
    BY <2>1, <2>2
<1>19. z \in 0 .. DirSlots
  <2>1. t1[RootSlot].ino.size \in 0 .. DirSlots
    BY <1>9, RootSlotIs DEF Tables, Cached, Inode
  <2> QED
    BY <2>1, <1>14
<1>20. /\ t2 \in Tables /\ OneEach(t2) /\ CachedExist(t2)
       /\ \A r \in Slot : t2[r].cnt = t1[r].cnt /\ t2[r].num = t1[r].num
       /\ d5 \in Disk /\ Consistent(d5) /\ Agrees(t2, d5) /\ (Exact(d4) => Exact(d5))
  <2>1. t1[RootSlot].cnt > 0 /\ RootSlot \in Slot
    BY <1>8, <1>10, RootHeld, RootSlotIs, SMTT(40)
  <2> HIDE DEF z
  <2> QED
    BY <2>1, <1>9, <1>12, <1>13, <1>17, <1>18, <1>19, ResizeKeeps
<1>21. got = [tab |-> t2, slot |-> s, writes |-> <<WithImap, WithMaps, d3, d4, d5>>]
  <2>1. [t1 EXCEPT ![RootSlot].ino.size = IF m > @ THEN m ELSE @] = t2
    BY DEF Resize
  <2>2. sync_inode(t1, WithMaps, s) = d3
    BY <1>10 DEF sync_inode, d3
  <2> QED
    BY <2>1, <2>2 DEF create_file, n, m, s, t1, d4, en
<1> HIDE DEF t2, d5, got
<1> DEFINE w == <<WithImap, WithMaps, d3, d4, d5>>
<1>22. /\ w \in Seq(Disk) /\ Len(w) = 5 /\ w[1] = WithImap /\ w[2] = WithMaps /\ w[3] = d3 /\ w[4] = d4 /\ w[5] = d5
  BY <1>4, <1>17, <1>20
<1>23. got.tab = t2 /\ got.slot = s /\ got.writes = w
  BY <1>21
<1> HIDE DEF w
<1>24. \A k \in 1 .. Len(w) : Consistent(w[k])
  <2>1. \A k \in 1 .. Len(w) : k = 1 \/ k = 2 \/ k = 3 \/ k = 4 \/ k = 5
    BY <1>22
  <2> QED
    BY <2>1, <1>4, <1>17, <1>20, <1>22
<1>25. Left(w) = d5
  <2>1. w # <<>>
    BY <1>22, SMTT(40)
  <2> QED
    BY <2>1, <1>22 DEF Left
<1>26. /\ t2[s].cnt = itab[s].cnt + 1 /\ \A r \in Slot \ {s} : t2[r].cnt = itab[r].cnt
       /\ t2[RootSlot].num = ROOT_INODE
  BY <1>3, <1>7, <1>8, <1>10, <1>20, RootSlotIs
<1> QED
  BY <1>4, <1>7, <1>17, <1>20, <1>22, <1>23, <1>24, <1>25, <1>26 DEF Gotten, got

LEMMA OpenStep ==
  ASSUME IInv, NEW p \in FsProc, NEW name \in Path, NEW flags, do_open(p, name, flags)
  PROVE  IInv'
<1>1. Serving /\ p \in fsAlive
  BY DEF do_open
<1>2. CASE OpenFails(p, name, flags)
  BY <1>1, <1>2, OpenFailsStep
<1>3. CASE FreeFds(p) # {} /\ FreeDescs # {} /\ OpenOld(p, name, flags) /\ UNCHANGED torn
  BY <1>1, <1>3, OpenOldStep
<1>4. CASE FreeFds(p) # {} /\ FreeDescs # {} /\ OpenNew(p, name, flags) /\ UNCHANGED torn
  <2>1. /\ search_file(name) = INVALID_INODE /\ ~ ImapFull /\ ~ NoRun
        /\ CanGet(itab, alloc_imap_bit) /\ FreeEntryIndex <= DirSlots
        /\ Connect(p, Min(FreeFds(p)), Min(FreeDescs), create_file(name), flags)
        /\ UNCHANGED <<failed, running, fsAlive, disk, failures, torn>>
    BY <1>4 DEF OpenNew, FsGoesOn, NullInode, alloc_imap_bit
  <2>2. Gotten(create_file(name))
    BY <2>1, <1>1, CreateGotten
  <2> QED
    BY <2>1, <2>2, <1>1, <1>4, ConnectStep
<1> QED
  BY <1>1, <1>2, <1>3, <1>4 DEF do_open

-----------------------------------------------------------------------------
(***************************************************************************)
(* unlink().                                                               *)
(***************************************************************************)
\* get_inode() adds one to the count, whether it finds the i-node or reads it.
LEMMA GetCount ==
  ASSUME NEW tab \in Tables, NEW d, NEW num, CanGet(tab, num), NEW s, s = SlotFor(tab, num)
  PROVE  s \in Slot /\ get_inode(tab, d, num)[s].cnt = tab[s].cnt + 1
<1>1. /\ s \in Slot
      /\ IF CachedAt(tab, num) # {} THEN tab[s].cnt # 0 /\ tab[s].num = num ELSE tab[s].cnt = 0
  BY SlotForFacts
<1>2. tab[s] \in Cached /\ tab[s].cnt \in 0 .. MaxRef + 1
  BY <1>1 DEF Tables, Cached
<1>3. CASE CachedAt(tab, num) # {}
  <2>1. get_inode(tab, d, num) = [tab EXCEPT ![s] = [tab[s] EXCEPT !.cnt = @ + 1]]
    BY <1>3 DEF get_inode
  <2>2. [tab[s] EXCEPT !.cnt = @ + 1].cnt = tab[s].cnt + 1
    BY <1>2 DEF Cached
  <2> QED
    BY <2>1, <2>2, <1>1 DEF Tables
<1>4. CASE CachedAt(tab, num) = {}
  <2>1. get_inode(tab, d, num) = [tab EXCEPT ![s] = [num |-> num, cnt |-> 1, ino |-> d.ino[num]]]
    BY <1>4 DEF get_inode
  <2>2. tab[s].cnt = 0
    BY <1>1, <1>4
  <2> QED
    BY <2>1, <2>2, <1>1 DEF Tables
<1> QED
  BY <1>3, <1>4

\* A cache that holds at least what it held.
LEMMA MoreHeld ==
  ASSUME IInv, Serving, NEW t \in Tables, OneEach(t), CachedExist(t),
         \A r \in Slot : t[r].cnt >= itab[r].cnt, t[RootSlot].num = ROOT_INODE,
         itab' = t, UNCHANGED <<fdesc, filp, fsAlive, running>>
  PROVE  TablesOK'
<1>1. HeldOnce' /\ DeadHoldNothing' /\ CountsExact' /\ running'
  BY ServingFacts DEF IInv, TablesOK, HeldOnce, DeadHoldNothing, CountsExact
<1>2. SlotsHeld'
  <2> SUFFICES ASSUME NEW r \in Slot
               PROVE  t[r].cnt >= Cardinality(Uses(filp, fdesc, r)) + (IF r = RootSlot THEN 1 ELSE 0)
    BY DEF SlotsHeld
  <2> DEFINE c == Cardinality(Uses(filp, fdesc, r)) + (IF r = RootSlot THEN 1 ELSE 0)
  <2>1. itab[r].cnt >= c /\ c \in Nat /\ itab[r].cnt \in Nat
    BY ServingFacts DEF SlotsHeld
  <2>2. t[r].cnt \in Nat /\ t[r].cnt >= itab[r].cnt
    BY SizeFacts DEF Tables, Cached
  <2> HIDE DEF c
  <2>3. t[r].cnt >= c
    BY <2>1, <2>2
  <2> QED
    BY <2>3 DEF c
<1> QED
  BY <1>1, <1>2 DEF TablesOK

\* A file that is open or not regular stays, and keeps the reference (link.c:67-82).
LEMMA UnlinkRefusedStep ==
  ASSUME IInv, Serving, NEW num \in 1 .. NrInodes - 1, disk.ino[num].mode # NO_MODE, CanGet(itab, num),
         NEW s, s = SlotFor(itab, num), NEW tab, tab = get_inode(itab, disk, num),
         UnlinkRefused(s, tab), UNCHANGED <<filp, fdesc, torn>>
  PROVE  IInv'
<1>1. /\ tab[s].cnt <= MaxRef /\ itab' = tab
      /\ UNCHANGED <<toWrite, failed, running, fsAlive, disk, failures>>
  BY DEF UnlinkRefused, FsGoesOn
<1>2. itab \in Tables /\ OneEach(itab) /\ CachedExist(itab)
  BY DEF IInv, TablesOK, TypesOK
<1>3. s \in Slot /\ tab[s].cnt = itab[s].cnt + 1
  BY <1>2, GetCount
<1>4. itab[s].cnt \in Nat /\ itab[s].cnt <= MaxRef
  BY <1>1, <1>3, ServingFacts, SizeFacts
<1>5. num \in InodeNo \ {0}
  BY SizeFacts DEF InodeNo
<1>6. /\ s \in Slot /\ get_inode(itab, disk, num) \in Tables
      /\ get_inode(itab, disk, num)[s] = [num |-> num, cnt |-> itab[s].cnt + 1, ino |-> disk.ino[num]]
      /\ \A r \in Slot \ {s} : get_inode(itab, disk, num)[r] = itab[r]
      /\ \A r \in Slot \ {s} : itab[r].cnt > 0 => itab[r].num # num
      /\ itab[s].cnt > 0 => itab[s].num = num
  BY <1>2, <1>4, <1>5, ServingFacts, GetInodeFacts
<1>7. /\ tab \in Tables /\ tab[s].num = num /\ tab[s].ino = disk.ino[num]
      /\ \A r \in Slot \ {s} : tab[r].num = itab[r].num /\ tab[r].cnt = itab[r].cnt /\ tab[r].ino = itab[r].ino
      /\ \A r \in Slot \ {s} : itab[r].cnt > 0 => itab[r].num # num
      /\ itab[s].cnt > 0 => itab[s].num = num
  BY <1>6
<1>8. OneEach(tab)
  BY <1>2, <1>7 DEF OneEach
<1>9. CachedExist(tab)
  BY <1>2, <1>5, <1>7 DEF CachedExist
<1>10. Agrees(tab, disk)
  BY <1>7, ServingFacts DEF Agrees
<1>11. tab[RootSlot].num = ROOT_INODE
  <2>1. CASE s = RootSlot
    BY <2>1, <1>7, RootHeld, ServingFacts
  <2>2. CASE s # RootSlot
    BY <2>2, <1>7, ServingFacts, RootSlotIs
  <2> QED
    BY <2>1, <2>2
<1>12. \A r \in Slot : tab[r].cnt >= itab[r].cnt
  <2>1. \A r \in Slot : itab[r].cnt \in Nat
    BY ServingFacts
  <2> QED
    BY <2>1, <1>3, <1>7
<1>13. TablesOK'
  BY <1>1, <1>7, <1>8, <1>9, <1>11, <1>12, MoreHeld
<1>14. TypesOK'
  BY <1>1, <1>7, Zenon DEF IInv, TypesOK
<1>15. DiskOK'
  BY <1>1, <1>10, ServingFacts, TablesOnlyDisk
<1> QED
  BY <1>13, <1>14, <1>15 DEF IInv

\* The images of unlink(), the last of which leave the disk consistent: what
\* is cut short before the entry is cleared is Freeing (link.c:88-187).
Unlinked(w, m, d) ==
  /\ w \in Seq(Disk) /\ Len(w) >= 4 /\ w[Len(w)] = d /\ m \in 1 .. DirSlots
  /\ d.dir[m].ino = INVALID_INODE
  /\ \A k \in 1 .. 3 : w[k].dir[m].ino # INVALID_INODE
  /\ \A k \in 4 .. Len(w) : Consistent(w[k])
LEMMA UnlinkedDisk ==
  ASSUME IInv, Serving, UNCHANGED <<disk, running, failures, torn>>, failed' = "none",
         NEW m, NEW d, Unlinked(toWrite', m, d), Consistent(d), Agrees(itab', d),
         failures = 0 => Exact(d)
  PROVE  DiskOK'
<1>1. /\ toWrite' \in Seq(Disk) /\ Len(toWrite') >= 4 /\ toWrite'[Len(toWrite')] = d /\ m \in 1 .. DirSlots
      /\ d.dir[m].ino = INVALID_INODE
      /\ \A k \in 1 .. 3 : toWrite'[k].dir[m].ino # INVALID_INODE
      /\ \A k \in 4 .. Len(toWrite') : Consistent(toWrite'[k])
  BY DEF Unlinked
<1>2. toWrite' # <<>> /\ Len(toWrite') \in Nat
  BY <1>1
<1>3. After' = d
  BY <1>1, <1>2 DEF After
<1>4. ASSUME NEW k \in 1 .. Len(toWrite'), ~ Freeing(k)' PROVE Consistent(toWrite'[k])
  <2>1. Written(k)' = toWrite'[k]
    BY <1>2 DEF Written
  <2>2. Last(toWrite)' = d
    BY <1>1 DEF Last
  <2>3. k > 0
    BY <1>2
  <2>4. ~ (Written(k)'.dir[m].ino # INVALID_INODE)
    BY <1>1, <1>4, <2>2, <2>3 DEF Freeing
  <2>5. k \notin 1 .. 3
    BY <1>1, <2>1, <2>4
  <2>6. k \in 4 .. Len(toWrite')
    BY <1>2, <2>5
  <2> QED
    BY <1>1, <2>6
<1>5. \A k \in 1 .. Len(toWrite') : (~ Freeing(k)') => Consistent(toWrite'[k])
  BY <1>4
<1> QED
  BY <1>3, <1>5, RequestDisk

Cleared(d, k, e) == e = [d EXCEPT !.dir[k] = FreeEntry]
LEMMA UnlinkFileStep ==
  ASSUME IInv, Serving, NEW num \in 1 .. NrInodes - 1, disk.ino[num].mode # NO_MODE, CanGet(itab, num),
         \E k \in 1 .. DirSlots : disk.dir[k].ino = num,
         NEW s, s = SlotFor(itab, num), NEW tab, tab = get_inode(itab, disk, num),
         UnlinkFile(num, s, tab), UNCHANGED <<filp, fdesc, torn>>
  PROVE  IInv'
<1> DEFINE file == tab[s].ino
           used == Bits(file.start, file.nr)
           nr   == Root(tab).size
           at   == {m \in 1 .. nr : disk.dir[m].ino = num}
           m    == Min(at)
           before == Cardinality({e \in 1 .. m - 1 : disk.dir[e].ino # INVALID_INODE})
           gone == Freed([tab[s] EXCEPT !.cnt = 0, !.ino = NoInode], Pointed(filp, fdesc, s))
           t1   == [tab EXCEPT ![s] = gone]
           t2   == Resize(t1, RootSlot, before)
           d1   == [disk EXCEPT !.imap = @ \ {num}]
           d2   == [d1 EXCEPT !.smap = @ \ used]
           d3   == [d2 EXCEPT !.ino[num] = NoInode]
           d4   == [d3 EXCEPT !.dir[m] = FreeEntry]
           d5   == sync_inode(t2, d4, RootSlot)
<1>1. /\ Removable(s, tab)
      /\ (num \in disk.imap /\ used \subseteq disk.smap) =>
           /\ failed' = IF at = {} THEN "assert(flg)" ELSE "none"
           /\ at = {} => itab' = t1 /\ toWrite' = <<d1, d2, d3>> \o <<>>
           /\ at # {} /\ m = nr => itab' = t2 /\ toWrite' = <<d1, d2, d3, d4>> \o <<d5>>
           /\ at # {} /\ m # nr => itab' = t1 /\ toWrite' = <<d1, d2, d3, d4>> \o <<>>
      /\ UNCHANGED <<disk, running, fsAlive, failures>>
  BY DEF UnlinkFile, Resize
<1> HIDE DEF file, used, nr, m, gone, t1, t2, d1, d2, d3, d4, d5, before
<1>2. /\ itab \in Tables /\ OneEach(itab) /\ CachedExist(itab) /\ disk \in Disk /\ Consistent(disk)
      /\ Agrees(itab, disk) /\ (failures = 0 => Exact(disk)) /\ itab[RootSlot].num = ROOT_INODE
  BY ServingFacts DEF IInv, TablesOK
<1>3. s \in Slot /\ itab[s].cnt = 0 /\ itab[s].cnt <= MaxRef
  <2>1. s \in Slot /\ tab[s].cnt = itab[s].cnt + 1
    BY <1>2, GetCount
  <2>2. tab[s].cnt = 1
    BY <1>1 DEF Removable
  <2> QED
    BY <2>1, <2>2, ServingFacts, SizeFacts
<1>4. s # RootSlot
  BY <1>3, RootHeld
<1>5. /\ tab \in Tables /\ tab[s].ino = disk.ino[num]
      /\ \A r \in Slot \ {s} : tab[r] = itab[r]
      /\ \A r \in Slot \ {s} : itab[r].cnt > 0 => itab[r].num # num
  <2>1. num \in InodeNo \ {0}
    BY SizeFacts DEF InodeNo
  <2>2. /\ s \in Slot /\ get_inode(itab, disk, num) \in Tables
        /\ get_inode(itab, disk, num)[s] = [num |-> num, cnt |-> itab[s].cnt + 1, ino |-> disk.ino[num]]
        /\ \A r \in Slot \ {s} : get_inode(itab, disk, num)[r] = itab[r]
        /\ \A r \in Slot \ {s} : itab[r].cnt > 0 => itab[r].num # num
        /\ itab[s].cnt > 0 => itab[s].num = num
    BY <2>1, <1>2, <1>3, GetInodeFacts
  <2> QED
    BY <2>2
<1>6. /\ t1 \in Tables /\ t1[s].cnt = 0 /\ \A r \in Slot \ {s} : t1[r] = itab[r]
  <2>1. Free \in Cached /\ Free.cnt = 0 /\ NoInode \in Inode
    BY SizeFacts DEF Free, Cached, NoInode, Inode, InodeNo
  <2>2. tab[s] \in Cached
    BY <1>3, <1>5 DEF Tables
  <2>3. [tab[s] EXCEPT !.cnt = 0, !.ino = NoInode] \in Cached /\ [tab[s] EXCEPT !.cnt = 0, !.ino = NoInode].cnt = 0
    BY <2>1, <2>2, SizeFacts DEF Cached
  <2>4. gone \in Cached /\ gone.cnt = 0
    BY <2>1, <2>3 DEF gone, Freed
  <2> QED
    BY <2>4, <1>3, <1>5 DEF t1, Tables
<1>7. \A r \in Slot : /\ t1[r].cnt = itab[r].cnt
                      /\ t1[r].cnt > 0 => r # s /\ t1[r] = itab[r] /\ itab[r].num # num
  BY <1>3, <1>5, <1>6
<1>8. OneEach(t1) /\ CachedExist(t1)
  BY <1>2, <1>7 DEF OneEach, CachedExist
<1>9. t1[RootSlot] = itab[RootSlot] /\ t1[RootSlot].cnt > 0 /\ RootSlot \in Slot
      /\ t1[RootSlot].num = ROOT_INODE /\ tab[RootSlot] = itab[RootSlot]
  BY <1>2, <1>4, <1>5, <1>6, RootHeld, RootSlotIs
<1>10. nr \in 0 .. DirSlots
  <2>1. itab[RootSlot].ino.size \in 0 .. DirSlots
    BY <1>2, <1>9 DEF Tables, Cached, Inode
  <2> QED
    BY <2>1, <1>9 DEF nr, Root
<1>11. disk.ino[num].mode = I_REGULAR /\ used = Bits(disk.ino[num].start, disk.ino[num].nr)
  BY <1>1, <1>5 DEF Removable, used, file
<1>12. num \in disk.imap /\ used \subseteq disk.smap
  <2>1. MapsCover(disk)
    BY <1>2 DEF Consistent
  <2>2. used = DataIn(disk, num)
    BY <1>11 DEF DataIn
  <2> QED
    BY <2>1, <2>2 DEF MapsCover
<1>13. /\ failed' = IF at = {} THEN "assert(flg)" ELSE "none"
       /\ at = {} => itab' = t1 /\ toWrite' = <<d1, d2, d3>> \o <<>>
       /\ at # {} /\ m = nr => itab' = t2 /\ toWrite' = <<d1, d2, d3, d4>> \o <<d5>>
       /\ at # {} /\ m # nr => itab' = t1 /\ toWrite' = <<d1, d2, d3, d4>> \o <<>>
  <2> HIDE DEF at
  <2> QED
    BY <1>1, <1>12
<1>14. ASSUME NEW k \in 1 .. DirSlots, disk.dir[k].ino = num, NEW e4, Cleared(d3, k, e4)
       PROVE  /\ d1 \in Disk /\ d2 \in Disk /\ d3 \in Disk /\ e4 \in Disk
              /\ Consistent(e4) /\ (Exact(disk) => Exact(e4))
              /\ \A j \in (1 .. NrInodes - 1) \ {num} : e4.ino[j] = disk.ino[j]
              /\ d1.dir = disk.dir /\ d2.dir = disk.dir /\ d3.dir = disk.dir /\ e4.dir[k].ino = INVALID_INODE
  <2>1. Removing(disk, num, k, d1, d2, d3, e4)
    <3>1. d1 = [disk EXCEPT !.imap = @ \ {num}]
      BY DEF d1
    <3>2. d2 = [d1 EXCEPT !.smap = @ \ Bits(disk.ino[num].start, disk.ino[num].nr)]
      BY <1>11 DEF d2
    <3>3. d3 = [d2 EXCEPT !.ino[num] = NoInode]
      BY DEF d3
    <3> QED
      BY <1>11, <1>14, <3>1, <3>2, <3>3 DEF Removing, Cleared
  <2> QED
    BY <2>1, <1>2, UnlinkKeeps
<1>15. d1 \in Disk /\ d2 \in Disk /\ d3 \in Disk
  <2>1. PICK k \in 1 .. DirSlots : disk.dir[k].ino = num
    OBVIOUS
  <2>2. Cleared(d3, k, [d3 EXCEPT !.dir[k] = FreeEntry])
    BY DEF Cleared
  <2> QED
    BY <2>1, <2>2, <1>14
<1>16. CASE at = {}
  <2>1. itab' = t1 /\ toWrite' = <<d1, d2, d3>> /\ failed' = "assert(flg)"
    <3> HIDE DEF at
    <3>1. itab' = t1 /\ toWrite' = <<d1, d2, d3>> \o <<>> /\ failed' = "assert(flg)"
      BY <1>1, <1>13, <1>16
    <3>2. <<d1, d2, d3>> \o <<>> = <<d1, d2, d3>>
      OBVIOUS
    <3> QED
      BY <3>1, <3>2
  <2>2. toWrite' \in Seq(Disk)
    BY <2>1, <1>15
  <2>3. TablesOK'
    <3>1. \A r \in Slot : t1[r].cnt >= itab[r].cnt
      BY <1>7, ServingFacts
    <3> QED
      BY <3>1, <2>1, <1>1, <1>6, <1>8, <1>9, MoreHeld
  <2>4. TypesOK'
    <3>1. itab' \in Tables /\ UNCHANGED <<disk, running, fsAlive, failures, filp, fdesc, torn>>
      BY <2>1, <1>1, <1>6
    <3> QED
      BY <2>2, <3>1, Zenon DEF IInv, TypesOK
  <2>5. DiskOK'
    <3>1. failed' # "none" /\ failed' \notin {"i-map", "s-map", "i_mode", "put_inode"} /\ failed' = "assert(flg)"
      BY <2>1
    <3>2. failed' = "assert(flg)" \/ \A k \in 1 .. Len(toWrite') : Consistent(toWrite'[k])
      BY <3>1
    <3> QED
      BY <3>1, <3>2, <1>1, FailureDisk
  <2> QED
    BY <2>3, <2>4, <2>5 DEF IInv
<1>17. CASE at # {}
  <2>1. m \in 1 .. DirSlots /\ disk.dir[m].ino = num /\ num # INVALID_INODE /\ m \in Nat /\ m >= 1
    <3>1. at \in SUBSET Nat
      BY <1>10, SizeFacts
    <3>2. m \in at
      BY <3>1, <1>17, MinFacts DEF m
    <3> QED
      BY <3>2, <1>10, SizeFacts DEF INVALID_INODE
  <2> HIDE DEF at
  <2>2. /\ d4 \in Disk /\ Consistent(d4) /\ (Exact(disk) => Exact(d4))
        /\ \A j \in (1 .. NrInodes - 1) \ {num} : d4.ino[j] = disk.ino[j]
        /\ d1.dir = disk.dir /\ d2.dir = disk.dir /\ d3.dir = disk.dir /\ d4.dir[m].ino = INVALID_INODE
    <3>1. Cleared(d3, m, d4)
      BY DEF d4, Cleared
    <3> QED
      BY <2>1, <3>1, <1>14
  <2>3. Agrees(t1, d4)
    <3> SUFFICES ASSUME NEW r \in Slot, t1[r].cnt > 0 PROVE t1[r].ino = d4.ino[t1[r].num]
      BY DEF Agrees
    <3>1. t1[r] = itab[r] /\ itab[r].cnt > 0 /\ itab[r].num # num
      BY <1>7
    <3>2. itab[r].num \in 1 .. NrInodes - 1
      BY <3>1, <1>2, SizeFacts DEF CachedExist, Tables, Cached, InodeNo
    <3> QED
      BY <3>1, <3>2, <2>2, <1>2 DEF Agrees
  <2>4. before \in 0 .. DirSlots
    <3> DEFINE E == {e \in 1 .. m - 1 : disk.dir[e].ino # INVALID_INODE}
    <3>1. IsFiniteSet(1 .. m - 1) /\ Cardinality(1 .. m - 1) = m - 1
      <4>1. m - 1 \in Nat
        BY <2>1
      <4> QED
        BY <4>1, FS_Interval
    <3>4. E \in SUBSET (1 .. m - 1) /\ before = Cardinality(E)
      BY DEF before
    <3> HIDE DEF E
    <3>2. IsFiniteSet(E) /\ Cardinality(E) <= Cardinality(1 .. m - 1)
      BY <3>1, <3>4, FS_Subset
    <3>3. before \in Nat
      BY <3>2, <3>4, FS_CardinalityType
    <3>5. before <= m - 1
      BY <3>1, <3>2, <3>4
    <3> QED
      BY <2>1, <3>3, <3>5, SizeFacts
  <2>5. /\ t2 \in Tables /\ OneEach(t2) /\ CachedExist(t2)
        /\ \A r \in Slot : t2[r].cnt = t1[r].cnt /\ t2[r].num = t1[r].num
        /\ d5 \in Disk /\ Consistent(d5) /\ Agrees(t2, d5) /\ (Exact(d4) => Exact(d5)) /\ d5.dir = d4.dir
    <3>1. t2 = Resize(t1, RootSlot, before) /\ d5 = sync_inode(t2, d4, RootSlot)
      BY DEF t2, d5
    <3> QED
      BY <3>1, <2>2, <2>3, <2>4, <1>6, <1>8, <1>9, ResizeKeeps
  <2>6. PICK d : /\ Unlinked(toWrite', m, d) /\ Consistent(d) /\ Agrees(itab', d) /\ (failures = 0 => Exact(d))
                 /\ itab' \in Tables /\ OneEach(itab') /\ CachedExist(itab')
                 /\ \A r \in Slot : itab'[r].cnt = t1[r].cnt /\ itab'[r].num = t1[r].num
    <3>1. CASE m = nr
      <4> DEFINE w == <<d1, d2, d3, d4>> \o <<d5>>
      <4>1. itab' = t2 /\ toWrite' = <<d1, d2, d3, d4>> \o <<d5>>
        BY <3>1, <1>13, <1>17
      <4>2. toWrite' = w
        BY <4>1
      <4>3. /\ w \in Seq(Disk) /\ Len(w) = 5 /\ w[1] = d1 /\ w[2] = d2 /\ w[3] = d3
            /\ w[4] = d4 /\ w[5] = d5
        BY <1>15, <2>2, <2>5
      <4> HIDE DEF w
      <4>4. (\A k \in 1 .. 3 : k = 1 \/ k = 2 \/ k = 3) /\ (\A k \in 4 .. 5 : k = 4 \/ k = 5)
        OBVIOUS
      <4>5. \A k \in 1 .. 3 : w[k].dir[m].ino # INVALID_INODE
        BY <4>3, <4>4, <2>1, <2>2
      <4>6. \A k \in 4 .. 5 : Consistent(w[k])
        BY <4>3, <4>4, <2>2, <2>5
      <4>7. Unlinked(w, m, d5)
        BY <4>3, <4>5, <4>6, <2>1, <2>2, <2>5 DEF Unlinked
      <4>8. Unlinked(toWrite', m, d5)
        BY <4>1, <4>2, <4>7
      <4> QED
        BY <4>1, <4>8, <2>2, <2>5, <1>2
    <3>2. CASE m # nr
      <4> DEFINE w == <<d1, d2, d3, d4>>
      <4>1. itab' = t1 /\ toWrite' = <<d1, d2, d3, d4>> \o <<>>
        BY <3>2, <1>13, <1>17
      <4>2. <<d1, d2, d3, d4>> \o <<>> = w
        OBVIOUS
      <4>3. /\ w \in Seq(Disk) /\ Len(w) = 4 /\ w[1] = d1 /\ w[2] = d2 /\ w[3] = d3 /\ w[4] = d4
        BY <1>15, <2>2
      <4> HIDE DEF w
      <4>4. (\A k \in 1 .. 3 : k = 1 \/ k = 2 \/ k = 3) /\ (\A k \in 4 .. 4 : k = 4)
        OBVIOUS
      <4>5. \A k \in 1 .. 3 : w[k].dir[m].ino # INVALID_INODE
        BY <4>3, <4>4, <2>1, <2>2
      <4>6. \A k \in 4 .. 4 : Consistent(w[k])
        BY <4>3, <4>4, <2>2
      <4>7. Unlinked(w, m, d4)
        BY <4>3, <4>5, <4>6, <2>1, <2>2 DEF Unlinked
      <4>8. Unlinked(toWrite', m, d4)
        BY <4>1, <4>2, <4>7
      <4> QED
        BY <4>1, <4>8, <2>2, <2>3, <1>2, <1>6, <1>8
    <3> QED
      BY <3>1, <3>2
  <2>7. failed' = "none"
    BY <1>13, <1>17
  <2>8. TablesOK'
    <3>1. \A r \in Slot : itab'[r].cnt >= itab[r].cnt
      BY <1>7, <2>6, ServingFacts
    <3>2. itab'[RootSlot].num = ROOT_INODE
      BY <1>9, <2>6
    <3> QED
      BY <3>1, <3>2, <2>6, <1>1, MoreHeld
  <2>9. TypesOK'
    <3>1. itab' \in Tables /\ UNCHANGED <<disk, running, fsAlive, failures, filp, fdesc, torn>>
      BY <2>6, <1>1
    <3>2. toWrite' \in Seq(Disk)
      BY <2>6 DEF Unlinked
    <3> QED
      BY <3>1, <3>2, Zenon DEF IInv, TypesOK
  <2>10. DiskOK'
    BY <2>6, <2>7, <1>1, UnlinkedDisk
  <2> QED
    BY <2>8, <2>9, <2>10 DEF IInv
<1> QED
  BY <1>16, <1>17, SMTT(40)

LEMMA UnlinkStep ==
  ASSUME IInv, NEW name \in Path, do_unlink(name)
  PROVE  IInv'
<1> DEFINE num == search_file(name)
           s == SlotFor(itab, num)
           tab == get_inode(itab, disk, num)
<1>1. /\ Serving /\ name # RootPath /\ num # INVALID_INODE /\ UNCHANGED <<filp, fdesc, torn>>
      /\ \/ CanGet(itab, num) /\ UnlinkRefused(s, tab)
         \/ CanGet(itab, num) /\ UnlinkFile(num, s, tab)
         \/ /\ failed' = "the inode table is full"
            /\ UNCHANGED <<disk, toWrite, itab, fsAlive, running, failures>>
  BY DEF do_unlink, Fail
<1> HIDE DEF num, s, tab
<1>2. num \in 1 .. NrInodes - 1 /\ disk.ino[num].mode # NO_MODE /\ \E k \in 1 .. DirSlots : disk.dir[k].ino = num
  <2>1. TypesOK /\ Consistent(disk) /\ num = search_file(name)
    BY <1>1, ServingFacts DEF IInv, num
  <2>2. num \in 1 .. NrInodes - 1 /\ disk.ino[num].mode # NO_MODE
    BY <2>1, <1>1, FoundExists
  <2>3. \E k \in 1 .. DirSlots : disk.dir[k].ino = num
    BY <2>1, <1>1, SearchFacts
  <2> QED
    BY <2>2, <2>3
<1>3. s = SlotFor(itab, num) /\ tab = get_inode(itab, disk, num)
  BY DEF s, tab
<1>4. CASE CanGet(itab, num) /\ UnlinkRefused(s, tab)
  BY <1>1, <1>2, <1>3, <1>4, UnlinkRefusedStep
<1>5. CASE CanGet(itab, num) /\ UnlinkFile(num, s, tab)
  BY <1>1, <1>2, <1>3, <1>5, UnlinkFileStep
<1>6. CASE /\ failed' = "the inode table is full"
           /\ UNCHANGED <<disk, toWrite, itab, fsAlive, running, failures>>
  <2>1. TablesOK'
    BY <1>1, <1>6, SameTables
  <2>2. TypesOK'
    <3>1. UNCHANGED <<disk, toWrite, itab, fdesc, filp, fsAlive, running, failures, torn>>
      BY <1>1, <1>6
    <3> QED
      BY <3>1, Zenon DEF IInv, TypesOK
  <2>3. DiskOK'
    <3>1. toWrite' = <<>>
      BY <1>1, <1>6, ServingFacts
    <3>2. \A k \in 1 .. Len(toWrite') : Consistent(toWrite'[k])
      BY <3>1
    <3> QED
      BY <3>2, <1>1, <1>6, FailureDisk
  <2> QED
    BY <2>1, <2>2, <2>3 DEF IInv
<1> QED
  BY <1>1, <1>4, <1>5, <1>6

-----------------------------------------------------------------------------
(***************************************************************************)
(* The theorems.                                                           *)
(***************************************************************************)
LEMMA NextKeepsIInv == IInv /\ ~ torn /\ [FsFilesNext]_fsFilesVars => IInv'
<1> SUFFICES ASSUME IInv, ~ torn, [FsFilesNext]_fsFilesVars PROVE IInv'
  OBVIOUS
<1>1. CASE init_fs
  BY <1>1, InitFsStep
<1>2. CASE WriteSectors
  BY <1>2, WriteSectorsStep
<1>3. CASE \E k \in 0 .. Len(toWrite) : PowerFails(k)
  BY <1>3, PowerFailsStep
<1>4. CASE \E p \in FsProc, name \in Path, flags \in Flags : do_open(p, name, flags)
  BY <1>4, OpenStep
<1>5. CASE \E p \in FsProc, fd \in Fd : do_close(p, fd)
  BY <1>5, CloseStep
<1>6. CASE \E name \in Path : do_stat(name) \/ do_unlink(name)
  BY <1>6, StatStep, UnlinkStep
<1>7. CASE \E p, q \in FsProc : fs_fork(p, q)
  BY <1>7, ForkStep
<1>8. CASE \E p \in FsProc : fs_exit(p)
  BY <1>8, ExitStep
<1>9. CASE UNCHANGED fsFilesVars
  <2>1. UNCHANGED <<disk, toWrite, itab, fdesc, filp, fsAlive, running, failed, failures, torn>>
    BY <1>9 DEF fsFilesVars
  <2>2. TypesOK'
    BY <2>1, Zenon DEF IInv, TypesOK
  <2>3. TablesOK'
    BY <2>1 DEF IInv, TablesOK, HeldOnce, DeadHoldNothing, CountsExact, SlotsHeld, NothingHeld
  <2>4. DiskOK'
    <3>1. After' = After /\ \A k : Written(k)' = Written(k) /\ Freeing(k)' = Freeing(k)
      BY <2>1 DEF After, Written, Freeing
    <3> QED
      BY <3>1, <2>1 DEF IInv, DiskOK, FsAssertionsHold
  <2> QED
    BY <2>2, <2>3, <2>4 DEF IInv
<1> QED
  BY <1>1, <1>2, <1>3, <1>4, <1>5, <1>6, <1>7, <1>8, <1>9 DEF FsFilesNext

LEMMA TornForGood == torn /\ [FsFilesNext]_fsFilesVars => torn'
<1> SUFFICES ASSUME torn, [FsFilesNext]_fsFilesVars PROVE torn'
  OBVIOUS
<1> USE DEF FsFilesNext
<1>1. \A k : PowerFails(k) => torn'
  BY DEF PowerFails
<1>2. init_fs \/ WriteSectors => torn'
  BY DEF init_fs, WriteSectors
<1>3. \A p, name, flags : do_open(p, name, flags) => torn'
  BY DEF do_open, OpenFails
<1>4. \A p, fd : do_close(p, fd) => torn'
  BY DEF do_close
<1>5. \A name : do_stat(name) \/ do_unlink(name) => torn'
  BY DEF do_stat, do_unlink
<1>6. \A p, q : fs_fork(p, q) \/ fs_exit(p) => torn'
  BY DEF fs_fork, fs_exit
<1> QED
  BY <1>1, <1>2, <1>3, <1>4, <1>5, <1>6 DEF fsFilesVars

\* The invariant holds in every state that FS reaches, whatever is opened,
\* closed and removed and wherever the power fails, up to the first removal
\* or format that is cut between two sectors (task_fs(), fs/main.c).
THEOREM FsInvariant == FsFilesSpec => [](torn \/ IInv)
<1>1. FsFilesInit => IInv
  BY InitOK
<1>2. (torn \/ IInv) /\ [FsFilesNext]_fsFilesVars => (torn \/ IInv)'
  BY NextKeepsIInv, TornForGood
<1> QED
  BY <1>1, <1>2, PTL DEF FsFilesSpec

\* Descriptors, slots and their counts agree, for any number of processes and
\* any order of open(), close(), fork(), exit() and unlink(): no descriptor
\* is freed while a process holds it, no slot is reused while a descriptor
\* points to it, no i-node has two copies, and an open file is not removed
\* (fs/main.c:480, 573-600; open.c:196; link.c:74).  After a removal or format
\* that was cut short one i-node may have two entries, and nothing is claimed.
THEOREM TablesAgree == FsFilesSpec => [](torn \/ ReferencesExact)
<1>1. FsFilesSpec => [](torn \/ IInv)
  BY FsInvariant
<1>2. IInv => ReferencesExact
  BY ReferencesFollow
<1> QED
  BY <1>1, <1>2, PTL

\* The maps, the i-nodes and the directory on the disk agree between requests,
\* also when the power has failed before any sector of a creation or of a
\* truncation, or FS has stopped at a panic in open(), and the assertions of
\* unlink() and open() about them hold, until a removal or a format is cut
\* short: from then on DiskConsistent says nothing (open.c:174-180, 298;
\* link.c:88-187).
THEOREM DiskStaysConsistent == FsFilesSpec => []DiskConsistent
<1>1. FsFilesSpec => [](torn \/ IInv)
  BY FsInvariant
<1>2. torn \/ IInv => DiskConsistent
  BY ConsistencyFollows DEF DiskConsistent
<1> QED
  BY <1>1, <1>2, PTL

(***************************************************************************)
(* The contents of files: do_rdwt() moves its bytes in rounds, and a       *)
(* transfer of any length is what its rounds are together.                 *)
(***************************************************************************)
LEMMA BytesAfterIs ==
  ASSUME NEW pos \in Nat, NEW end \in Int, NEW len \in Nat
  PROVE  LET b == BytesAfter(pos, end, len) IN
         /\ b \in [Nat -> Int] /\ b[0] = 0
         /\ \A k \in Nat : b[k + 1] = b[k] + NextBytes(pos, end, len, b[k])
<1>0. SECTOR_SIZE \in Nat /\ SECTOR_SIZE > 0 /\ FSBUF_SECTS \in Nat
  BY FsRdwtAssumption DEF FsRdwtAssumption
<1> DEFINE Next(d) == d + NextBytes(pos, end, len, d)
           G == [p \in Nat \X Int |-> Next(p[2])]
           Rec(f) == [k \in Nat |-> IF k = 0 THEN 0 ELSE f[k - 1] + NextBytes(pos, end, len, f[k - 1])]
<1>1. ASSUME NEW d \in Int PROVE Next(d) \in Int
  <2>1. Chunk(pos, end) \in Int
    BY <1>0 DEF Chunk, SectMin, SectMax, Least
  <2>2. Chunk(pos, end) * SECTOR_SIZE \in Int /\ pos % SECTOR_SIZE \in Int
    BY <1>0, <2>1
  <2> QED
    BY <2>2 DEF NextBytes, Least
<1> HIDE DEF Next
<1>2. G \in [Nat \X Int -> Int] /\ 0 \in Int
  BY <1>1
<1>3. \A i \in Nat, d \in Int : G[<<i, d>>] = Next(d)
  OBVIOUS
<1> HIDE DEF G
<1>4. PICK f \in [Nat -> Int] : f[0] = 0 /\ \A i \in Nat : f[i + 1] = G[<<i, f[i]>>]
  <2>1. \E f : Recursive(f, Int, 0, G)
    BY <1>2, RecursionExists
  <2> QED
    BY <2>1 DEF Recursive
<1>5. \A i \in Nat : f[i + 1] = Next(f[i])
  BY <1>3, <1>4
<1>6. f = Rec(f)
  <2>1. ASSUME NEW k \in Nat PROVE f[k] = Rec(f)[k]
    <3>1. CASE k = 0
      BY <1>4, <3>1
    <3>2. CASE k # 0
      <4>1. k - 1 \in Nat /\ k = (k - 1) + 1
        BY <3>2
      <4>2. f[k] = Next(f[k - 1])
        BY <1>5, <4>1
      <4> QED
        BY <3>2, <4>2 DEF Next
    <3> QED
      BY <3>1, <3>2
  <2> QED
    BY <1>4, <2>1
<1> DEFINE b == CHOOSE g : g = Rec(g)
<1>7. BytesAfter(pos, end, len) = b
  BY DEF BytesAfter
<1>8. b = Rec(b)
  <2> HIDE DEF Rec
  <2> QED
    BY <1>6, Zenon
<1> HIDE DEF b
<1>9. b[0] = 0 /\ \A k \in Nat : b[k + 1] = Next(b[k])
  <2>1. \A k \in Nat : b[k] = Rec(b)[k]
    BY <1>8
  <2> QED
    BY <2>1 DEF Next
<1>10. b = f
  <2> DEFINE T == {k \in Nat : b[k] = f[k]}
  <2>1. 0 \in T /\ \A k \in Nat : k \in T => k + 1 \in T
    BY <1>4, <1>5, <1>9
  <2> HIDE DEF T
  <2>2. Nat \subseteq T
    BY <2>1, AllNumbers
  <2>3. \A k \in Nat : b[k] = f[k]
    BY <2>2 DEF T
  <2>4. b = [k \in Nat |-> b[k]]
    BY <1>8
  <2> QED
    BY <1>4, <2>3, <2>4
<1> QED
  BY <1>4, <1>5, <1>7, <1>10 DEF Next

LEMMA Divided ==
  ASSUME NEW n \in Int, NEW d \in Nat, d > 0
  PROVE  /\ n \div d \in Int /\ n % d \in 0 .. d - 1 /\ n = d * (n \div d) + (n % d)
         /\ d * (n \div d) \in Int /\ (n >= 0 => n \div d >= 0)
<1>1. n \div d \in Int /\ n % d \in 0 .. d - 1
  OBVIOUS
<1>2. n = d * (n \div d) + (n % d)
  OBVIOUS
<1>3. \A q \in Int : d * q \in Int /\ (q < 0 => d * q <= -d)
  <2> SUFFICES ASSUME NEW q \in Int PROVE d * q \in Int /\ (q < 0 => d * q <= -d)
    OBVIOUS
  <2>1. q < 0 => \E e \in Nat : q = -1 - e
    <3> DEFINE e == -1 - q
    <3>1. q < 0 => e \in Nat /\ q = -1 - e
      OBVIOUS
    <3> QED
      BY <3>1
  <2>2. \A e \in Nat : d * (-1 - e) = -d - d * e /\ d * e >= 0 /\ d * e \in Int
    OBVIOUS
  <2>3. d * q \in Int
    OBVIOUS
  <2> QED
    BY <2>1, <2>2, <2>3
<1> QED
  BY <1>1, <1>2, <1>3

\* What the loop of do_rdwt() moves: all that is asked for, as far as the
\* chunks reach that cover the sectors up to the one of pos_end.
LEMMA BytesMoved ==
  ASSUME NEW pos \in Nat, NEW len \in Nat, NEW end \in Int
  PROVE  LET n == bytes_rw(pos, end, len) IN
         /\ SectMax(end) < SectMin(pos) => n = 0
         /\ SectMin(pos) <= SectMax(end) =>
              /\ n \in Nat /\ n <= len
              /\ n >= Least(len, SECTOR_SIZE * (SectMax(end) + 1) - pos)
              /\ n <= SECTOR_SIZE * (SectMax(end) + FSBUF_SECTS) - pos
<1> DEFINE W == SECTOR_SIZE
           a == SectMin(pos)
           b == SectMax(end)
           o == pos % W
           q == end % W
           c == Chunk(pos, end)
           B == c * W
           done == BytesAfter(pos, end, len)
<1>0. W \in Nat /\ W > 0 /\ FSBUF_SECTS \in Nat /\ FSBUF_SECTS >= 1
  BY FsRdwtAssumption DEF FsRdwtAssumption
<1>1. /\ a \in Int /\ o \in 0 .. W - 1 /\ pos = W * a + o /\ W * a \in Int
      /\ b \in Int /\ q \in 0 .. W - 1 /\ end = W * b + q /\ W * b \in Int
  BY <1>0, Divided DEF SectMin, SectMax
<1>2. done \in [Nat -> Int] /\ done[0] = 0
      /\ \A k \in Nat : done[k + 1] = done[k] + NextBytes(pos, end, len, done[k])
  BY <1>0, BytesAfterIs, ZenonT(40)
<1>3. bytes_rw(pos, end, len) = done[Rounds(pos, end)]
  BY DEF bytes_rw
<1>4. c = Least(b - a + 1, FSBUF_SECTS)
  BY DEF Chunk
<1>5. Rounds(pos, end) = IF b < a THEN 0 ELSE 1 + (b - a) \div c
  BY DEF Rounds
<1>6. ASSUME NEW d \in Int PROVE NextBytes(pos, end, len, d) = Least(len - d, B - (IF d = 0 THEN o ELSE 0))
  BY DEF NextBytes
<1> HIDE DEF W, a, b, o, q, c, B, done
<1>7. CASE b < a
  <2>1. bytes_rw(pos, end, len) = 0
    BY <1>2, <1>3, <1>5, <1>7
  <2>2. ~ (a <= b)
    BY <1>1, <1>7
  <2> QED
    BY <1>7, <2>1, <2>2 DEF a, b
<1>8. CASE a <= b
  <2>1. c \in Nat /\ c >= 1
    BY <1>0, <1>1, <1>4, <1>8 DEF Least
  <2>2. PICK r \in Nat : r = (b - a) \div c
    <3>1. b - a \in Int /\ b - a >= 0
      BY <1>1, <1>8
    <3> QED
      BY <2>1, <3>1, Divided
  <2>3. c * (r + 1) >= b - a + 1 /\ c * (r + 1) <= b - a + FSBUF_SECTS /\ c * (r + 1) \in Nat
    <3>1. b - a \in Int
      BY <1>1
    <3>2. (b - a) % c \in 0 .. c - 1 /\ b - a = c * r + ((b - a) % c) /\ c * r \in Int
      BY <2>1, <2>2, <3>1, Divided
    <3>3. c * (r + 1) = c * r + c
      BY <2>1
    <3>4. (b - a) % c \in Int /\ (b - a) % c < c
      BY <2>1, <3>2
    <3>5. c * (r + 1) >= b - a + 1 /\ c * (r + 1) <= b - a + c
      BY <1>1, <2>1, <3>2, <3>3, <3>4
    <3>6. c <= FSBUF_SECTS
      BY <1>0, <1>1, <1>4 DEF Least
    <3> QED
      BY <1>0, <1>1, <1>8, <2>1, <3>5, <3>6
  <2>4. B \in Nat /\ B >= W /\ B > o
    <3>1. PICK e \in Nat : c = 1 + e
      <4>1. c - 1 \in Nat /\ c = 1 + (c - 1)
        BY <2>1
      <4> QED
        BY <4>1
    <3>2. (1 + e) * W = W + e * W /\ e * W \in Nat
      BY <1>0, <3>1
    <3> QED
      BY <1>0, <1>1, <3>1, <3>2 DEF B
  <2>5. \A k \in Nat : (k + 1) * B \in Nat /\ (k + 1) * B >= B /\ (k + 1 + 1) * B = (k + 1) * B + B
                     /\ (0 + 1) * B = B
    <3> SUFFICES ASSUME NEW k \in Nat
                 PROVE  (k + 1) * B \in Nat /\ (k + 1) * B >= B /\ (k + 1 + 1) * B = (k + 1) * B + B
                        /\ (0 + 1) * B = B
      OBVIOUS
    <3>1. (k + 1) * B = k * B + B /\ k * B \in Nat
      BY <2>4
    <3>2. (k + 1 + 1) * B = (k + 1) * B + B /\ (0 + 1) * B = B
      BY <2>4
    <3> QED
      BY <2>4, <3>1, <3>2
  <2>6. \A k \in Nat : done[k + 1] = Least(len, (k + 1) * B - o)
    <3> DEFINE T == {k \in Nat : done[k + 1] = Least(len, (k + 1) * B - o)}
    <3>1. 0 \in T
      <4>1. done[0 + 1] = 0 + Least(len - 0, B - o)
        BY <1>2, <1>6
      <4>2. (0 + 1) * B = B
        BY <2>5
      <4> QED
        BY <1>1, <2>4, <4>1, <4>2 DEF Least
    <3>2. ASSUME NEW k \in Nat, k \in T PROVE k + 1 \in T
      <4>1. PICK M \in Nat : M = (k + 1) * B
        BY <2>5
      <4>2. (k + 1 + 1) * B = M + B /\ M >= B
        BY <2>5, <4>1
      <4>3. PICK d \in Int : d = done[k + 1]
        BY <1>2
      <4>4. d = Least(len, M - o)
        BY <3>2, <4>1, <4>3
      <4>5. done[k + 1 + 1] = d + Least(len - d, B - (IF d = 0 THEN o ELSE 0))
        BY <1>2, <1>6, <4>3
      <4> QED
        <5> DEFINE N == (k + 1 + 1) * B
        <5>1. N = M + B
          BY <4>2
        <5> HIDE DEF N
        <5>2. done[k + 1 + 1] = Least(len, N - o)
          BY <1>1, <2>4, <4>2, <4>4, <4>5, <5>1 DEF Least
        <5> QED
          BY <5>2 DEF N
    <3> HIDE DEF T
    <3>3. Nat \subseteq T
      BY <3>1, <3>2, AllNumbers
    <3> QED
      BY <3>3 DEF T
  <2>7. done[1 + r] = Least(len, (r + 1) * B - o)
    BY <2>6
  <2>8. /\ (r + 1) * B \in Nat
        /\ (r + 1) * B - o >= W * (b + 1) - pos
        /\ (r + 1) * B - o <= W * (b + FSBUF_SECTS) - pos
    <3>1. PICK m \in Nat : m = c * (r + 1)
      BY <2>3
    <3>2. (r + 1) * B = W * m
      BY <1>0, <2>1, <3>1 DEF B
    <3>3. PICK e \in Nat : m = b - a + 1 + e
      <4> DEFINE e == m - (b - a + 1)
      <4>1. e \in Nat /\ m = b - a + 1 + e
        BY <1>1, <2>3, <3>1
      <4> QED
        BY <4>1
    <3>4. PICK f \in Nat : b - a + FSBUF_SECTS = m + f
      <4> DEFINE f == b - a + FSBUF_SECTS - m
      <4>1. f \in Nat /\ b - a + FSBUF_SECTS = m + f
        BY <1>0, <1>1, <2>3, <3>1
      <4> QED
        BY <4>1
    <3>5. W * (b - a + 1 + e) = W * (b + 1) - W * a + W * e /\ W * e >= 0 /\ W * e \in Int /\ W * (b + 1) \in Int
      BY <1>0, <1>1
    <3>6. W * (m + f) = W * m + W * f /\ W * f >= 0 /\ W * f \in Int /\ W * m \in Int
      BY <1>0
    <3>7. W * (b - a + FSBUF_SECTS) = W * (b + FSBUF_SECTS) - W * a /\ W * (b + FSBUF_SECTS) \in Int
      BY <1>0, <1>1
    <3>8. W * m = W * (b + 1) - W * a + W * e
      BY <3>3, <3>5
    <3>9. W * m + W * f = W * (b + FSBUF_SECTS) - W * a
      BY <3>4, <3>6, <3>7
    <3>10. (r + 1) * B \in Nat
      BY <2>5
    <3> QED
      BY <1>0, <1>1, <3>2, <3>5, <3>6, <3>7, <3>8, <3>9, <3>10
  <2>9. (r + 1) * B - o > 0
    BY <1>1, <2>4, <2>5
  <2>10. bytes_rw(pos, end, len) = Least(len, (r + 1) * B - o)
    BY <1>1, <1>3, <1>5, <1>8, <2>2, <2>7
  <2>11. PICK x \in Nat : x = (r + 1) * B - o
    BY <1>1, <2>8, <2>9
  <2>12. PICK lo \in Int : lo = W * (b + 1) - pos
    BY <1>0, <1>1
  <2>13. PICK hi \in Int : hi = W * (b + FSBUF_SECTS) - pos
    BY <1>0, <1>1
  <2>14. lo <= x /\ x <= hi
    BY <2>8, <2>11, <2>12, <2>13
  <2>15. PICK n \in Nat : n = bytes_rw(pos, end, len) /\ n = Least(len, x)
    BY <2>10, <2>11 DEF Least
  <2>16. n <= len /\ n >= Least(len, lo) /\ n <= hi
    BY <2>14, <2>15 DEF Least
  <2>17. n <= len /\ n >= Least(len, W * (b + 1) - pos) /\ n <= W * (b + FSBUF_SECTS) - pos
    BY <2>12, <2>13, <2>16
  <2> QED
    BY <1>1, <1>8, <2>15, <2>17 DEF W, a, b
<1>9. b < a \/ a <= b
  BY <1>1
<1> QED
  BY <1>7, <1>8, <1>9 DEF a, b, W

(***************************************************************************)
(* The invariant.                                                          *)
(***************************************************************************)
RwTypes == i_size \in Nat /\ fd_pos \in [RwDesc -> Nat \cup {Closed}]

\* a division does not lose the order
LEMMA SectorsInOrder ==
  ASSUME NEW m \in Int, NEW n \in Int, m <= n
  PROVE  /\ SectMax(m) \in Int /\ SectMax(m) <= SectMax(n)
         /\ n < SECTOR_SIZE * (SectMax(n) + 1) /\ SECTOR_SIZE * (SectMax(n) + 1) \in Int
<1> DEFINE W == SECTOR_SIZE
           a == SectMax(m)
           b == SectMax(n)
<1>0. W \in Nat /\ W > 0
  BY FsRdwtAssumption DEF FsRdwtAssumption
<1>1. /\ a \in Int /\ m % W \in 0 .. W - 1 /\ m = W * a + (m % W) /\ W * a \in Int
      /\ b \in Int /\ n % W \in 0 .. W - 1 /\ n = W * b + (n % W) /\ W * b \in Int
  BY <1>0, Divided DEF SectMax
<1> HIDE DEF W, a, b
<1>2. W * (b + 1) = W * b + W
  BY <1>0, <1>1
<1>3. ASSUME b < a PROVE FALSE
  <2>1. PICK e \in Nat : a = b + 1 + e
    <3> DEFINE e == a - b - 1
    <3>1. e \in Nat /\ a = b + 1 + e
      BY <1>1, <1>3
    <3> QED
      BY <3>1
  <2>2. W * (b + 1 + e) = W * b + W + W * e /\ W * e >= 0 /\ W * e \in Int
    BY <1>0, <1>1
  <2>3. PICK x \in Int : x = m % W /\ x >= 0
    BY <1>0, <1>1
  <2>4. PICK y \in Int : y = n % W /\ y < W
    BY <1>0, <1>1
  <2> QED
    BY <1>0, <1>1, <2>1, <2>2, <2>3, <2>4
<1>4. n < W * (b + 1) /\ W * (b + 1) \in Int
  <2>1. PICK y \in Int : y = n % W /\ y < W
    BY <1>0, <1>1
  <2> QED
    BY <1>0, <1>1, <1>2, <2>1
<1> QED
  BY <1>1, <1>3, <1>4 DEF W, a, b

\* what a request of any size does to the position of its descriptor
LEMMA TransferIs ==
  ASSUME RwTypes, NEW d \in RwDesc, NEW op \in {"READ", "WRITE"}, NEW len \in Lengths, NEW v,
         do_rdwt(d, op, len, v)
  PROVE  /\ fd_pos[d] \in Nat /\ len \in Nat /\ fd_pos'[d] \in Nat /\ i_size' \in Nat
         /\ fd_pos' = [fd_pos EXCEPT ![d] = fd_pos'[d]]
         /\ fd_pos[d] + len <= Limit(op) => fd_pos'[d] = fd_pos[d] + len
         /\ fd_pos[d] <= fd_pos'[d] /\ fd_pos'[d] <= fd_pos[d] + len
         /\ fd_pos[d] <= Limit(op) => fd_pos'[d] >= Least(fd_pos[d] + len, Limit(op))
         /\ fd_pos'[d] > fd_pos[d] => fd_pos'[d] <= (SectMax(Limit(op)) + FSBUF_SECTS) * SECTOR_SIZE
         /\ \A b \in Bytes : data'[b] # data[b] => fd_pos[d] <= b /\ b < fd_pos'[d]
<1>1. PICK pos \in Nat : pos = fd_pos[d]
  BY DEF RwTypes, do_rdwt
<1>2. len \in Nat
  BY FsRdwtAssumption DEF FsRdwtAssumption
<1>3. SECTOR_SIZE \in Nat /\ FSBUF_SECTS \in Nat /\ Alloc \in Int /\ i_size \in Nat
  BY FsRdwtAssumption DEF FsRdwtAssumption, Alloc, RwTypes
<1>4. PICK limit \in Int : limit = Limit(op)
  BY <1>3 DEF Limit
<1>5. PICK end \in Int : end = Least(pos + len, limit)
  BY <1>2 DEF Least
<1>6. PICK a \in Int : a = SectMin(pos) /\ a = SectMax(pos)
  BY SectorsInOrder DEF SectMin, SectMax
<1>7. PICK b \in Int : b = SectMax(end)
  BY SectorsInOrder
<1>8. PICK bl \in Int : bl = SectMax(limit)
  BY SectorsInOrder
<1>9. PICK last \in Int : last = SECTOR_SIZE * (b + 1) /\ end < last
  BY <1>7, SectorsInOrder
<1>10. PICK over \in Int : over = SECTOR_SIZE * (b + FSBUF_SECTS)
  BY <1>3
<1>11. over <= (bl + FSBUF_SECTS) * SECTOR_SIZE /\ (bl + FSBUF_SECTS) * SECTOR_SIZE \in Int
  <2>1. b <= bl
    BY <1>2, <1>5, <1>7, <1>8, SectorsInOrder DEF Least
  <2>2. PICK e \in Nat : bl = b + e
    <3> DEFINE e == bl - b
    <3>1. e \in Nat /\ bl = b + e
      BY <2>1
    <3> QED
      BY <3>1
  <2>3. PICK y \in Int : y = b + FSBUF_SECTS
    BY <1>3
  <2>4. (y + e) * SECTOR_SIZE = SECTOR_SIZE * y + e * SECTOR_SIZE /\ e * SECTOR_SIZE >= 0
        /\ e * SECTOR_SIZE \in Int /\ SECTOR_SIZE * y \in Int
    BY <1>3
  <2>5. bl + FSBUF_SECTS = y + e
    BY <1>3, <2>2, <2>3
  <2> QED
    BY <1>10, <2>3, <2>4, <2>5
<1>12. PICK n \in Nat :
         /\ n = bytes_rw(pos, end, len) /\ n <= len
         /\ b < a => n = 0
         /\ a <= b => n >= Least(len, last - pos) /\ n <= over - pos
  <2>1. CASE b < a
    <3>1. bytes_rw(pos, end, len) = 0
      BY <1>2, <1>6, <1>7, <2>1, BytesMoved, ZenonT(40)
    <3> QED
      BY <1>2, <2>1, <3>1
  <2>2. CASE a <= b
    <3>1. LET n == bytes_rw(pos, end, len) IN n \in Nat /\ n <= len /\ n >= Least(len, last - pos) /\ n <= over - pos
      BY <1>2, <1>6, <1>7, <1>9, <1>10, <2>2, BytesMoved, ZenonT(40)
    <3> QED
      BY <2>2, <3>1
  <2> QED
    BY <2>1, <2>2
<1>13. PICK to \in Nat : to = pos + n
  OBVIOUS
<1>14. /\ data' = IF op = "READ" THEN data ELSE [x \in Bytes |-> IF x \in Touched(pos, to) THEN v ELSE data[x]]
       /\ fd_pos' = [fd_pos EXCEPT ![d] = to] /\ i_size' = IF to > i_size THEN to ELSE i_size
  BY <1>1, <1>4, <1>5, <1>12, <1>13 DEF do_rdwt
<1>15. fd_pos'[d] = to
  BY <1>14 DEF RwTypes
<1>16. ASSUME pos <= limit PROVE to >= Least(pos + len, limit)
  <2>1. a <= b
    <3>1. pos <= end
      BY <1>2, <1>5, <1>16 DEF Least
    <3> QED
      BY <1>6, <1>7, <3>1, SectorsInOrder
  <2>2. n >= Least(len, last - pos) /\ end = Least(pos + len, limit)
    BY <1>5, <1>12, <2>1
  <2> QED
    BY <1>2, <1>9, <1>13, <2>2 DEF Least
<1>17. pos + len <= limit => to = pos + len
  <2> SUFFICES ASSUME pos + len <= limit PROVE to = pos + len
    OBVIOUS
  <2>1. to >= Least(pos + len, limit)
    BY <1>2, <1>16
  <2> QED
    BY <1>2, <1>12, <1>13, <2>1 DEF Least
<1>18. to > pos => to <= (bl + FSBUF_SECTS) * SECTOR_SIZE
  BY <1>11, <1>12, <1>13
<1>19. ASSUME NEW x \in Bytes, data'[x] # data[x] PROVE pos <= x /\ x < to
  BY <1>14, <1>19 DEF Touched
<1>20. pos <= to /\ to <= pos + len
  BY <1>2, <1>12, <1>13
<1>21. i_size' \in Nat
  BY <1>3, <1>14
<1>22. pos <= limit => to >= Least(pos + len, limit)
  BY <1>16
<1> QED
  BY <1>1, <1>2, <1>4, <1>8, <1>14, <1>15, <1>17, <1>18, <1>19, <1>20, <1>21, <1>22

LEMMA RwKeeps ==
  ASSUME RwTypes, [FsRdwtNext]_fsRdwtVars
  PROVE  RwTypes' /\ [FullTransfer /\ BoundedOverrun /\ WritesItsBytes]_fsRdwtVars
<1>1. FullTransfer /\ BoundedOverrun
  <2>1. FullTransfer
    BY TransferIs DEF FullTransfer
  <2>2. BoundedOverrun
    BY TransferIs DEF BoundedOverrun
  <2> QED
    BY <2>1, <2>2
<1>2. ASSUME NEW d \in RwDesc, NEW op \in {"READ", "WRITE"}, NEW len \in Lengths, NEW v \in ByteValues,
             do_rdwt(d, op, len, v)
      PROVE  RwTypes' /\ WritesItsBytes
  <2>1. RwTypes'
    BY <1>2, TransferIs DEF RwTypes
  <2>2. \A b \in Bytes : data'[b] # data[b] => fd_pos[d] <= b /\ b < fd_pos'[d]
    BY <1>2, TransferIs
  <2> QED
    BY <2>1, <2>2 DEF WritesItsBytes
<1>3. ASSUME NEW d \in RwDesc, NEW from \in {"SET", "CUR", "END"}, NEW off \in {-1, 0, 1}, do_lseek(d, from, off)
      PROVE  RwTypes' /\ WritesItsBytes
  BY <1>3 DEF do_lseek, RwTypes, WritesItsBytes
<1>4. ASSUME NEW d \in RwDesc, NEW trunc \in BOOLEAN, OpenFile(d, trunc)
      PROVE  RwTypes' /\ WritesItsBytes
  BY <1>4 DEF OpenFile, RwTypes, WritesItsBytes
<1>5. ASSUME NEW d \in RwDesc, CloseFile(d) PROVE RwTypes' /\ WritesItsBytes
  BY <1>5 DEF CloseFile, RwTypes, WritesItsBytes
<1>6. CASE UNCHANGED fsRdwtVars
  BY <1>6 DEF fsRdwtVars, RwTypes, WritesItsBytes
<1> QED
  BY <1>1, <1>2, <1>3, <1>4, <1>5, <1>6 DEF FsRdwtNext

(* For sectors, buffers, requests and files of any size: a transfer inside *)
(* the file, or a write inside its sectors, moves exactly the bytes asked  *)
(* for; one that goes further moves all up to the limit, at most what was  *)
(* asked for, and ends within one buffer from the limit; in both cases no  *)
(* byte changes but those the position moved over (read_write.c:78-131).   *)
THEOREM TransfersAlwaysExact == FsRdwtSpec => TransfersExact
<1>1. FsRdwtInit => RwTypes
  BY DEF FsRdwtInit, RwTypes
<1>2. RwTypes /\ [FsRdwtNext]_fsRdwtVars => RwTypes' /\ [FullTransfer /\ BoundedOverrun /\ WritesItsBytes]_fsRdwtVars
  BY RwKeeps
<1> QED
  BY <1>1, <1>2, PTL DEF FsRdwtSpec, TransfersExact

(***************************************************************************)
(* The commands: untar() at every start.                                   *)
(***************************************************************************)
InstallSpec == InstallInit /\ [][InstallNext]_installVars

LEMMA TarSizes ==
  /\ TAR_SECTOR \in Nat /\ TAR_SECTOR > 0 /\ CHUNK_SECTS \in Nat /\ CHUNK_SECTS > 0
  /\ TarLengths \in Seq(Nat) /\ Len(TarLengths) \in Nat /\ File = 1 .. Len(TarLengths)
  /\ \A k \in File : TarLengths[k] \in Nat
<1>1. TAR_SECTOR \in Nat /\ TAR_SECTOR > 0 /\ CHUNK_SECTS \in Nat /\ CHUNK_SECTS > 0
  <2>1. {TAR_SECTOR, CHUNK_SECTS} \subseteq Nat \ {0}
    BY InstallAssumption, Zenon DEF InstallAssumption
  <2> QED
    BY <2>1
<1>2. TarLengths \in Seq(Nat)
  BY InstallAssumption DEF InstallAssumption
<1>3. Len(TarLengths) \in Nat /\ DOMAIN TarLengths = 1 .. Len(TarLengths)
  BY <1>2
<1>4. \A k \in 1 .. Len(TarLengths) : TarLengths[k] \in Nat
  BY <1>2
<1> QED
  BY <1>1, <1>2, <1>3, <1>4 DEF File

LEMMA SectorsIs ==
  ASSUME NEW n \in Nat
  PROVE  /\ SectorsOf(n) \in Nat /\ SectorsOf(0) = 0
         /\ \A c \in Nat : SectorsOf(c * TAR_SECTOR + n) = c + SectorsOf(n)
         /\ \A c \in Nat : SectorsOf(c * TAR_SECTOR) = c
<1> DEFINE W == TAR_SECTOR
<1>0. W \in Nat /\ W > 0
  BY TarSizes
<1> HIDE DEF W
<1>1. ASSUME NEW m \in Nat PROVE (m + W - 1) \div W \in Nat
  <2>1. m + W - 1 \in Nat
    BY <1>0
  <2> QED
    BY <1>0, <2>1
<1>2. (0 + W - 1) \div W = 0
  BY <1>0
<1>3. ASSUME NEW c \in Nat, NEW m \in Nat PROVE (c * W + m + W - 1) \div W = c + (m + W - 1) \div W
  <2>1. PICK e \in Nat : e = m + W - 1
    <3>1. m + W - 1 \in Nat
      BY <1>0
    <3> QED
      BY <3>1
  <2>2. (c * W + e) \div W = c + e \div W
    <3>1. c * W \in Nat
      BY <1>0
    <3>2. PICK q \in Int : q = e \div W
      BY <1>0
    <3>3. PICK s \in 0 .. W - 1 : e = W * q + s
      <4>1. e % W \in 0 .. W - 1 /\ e = W * (e \div W) + (e % W)
        BY <1>0
      <4> QED
        BY <3>2, <4>1
    <3>4. c * W + e = W * (c + q) + s
      <4>1. W * (c + q) = W * c + W * q /\ W * c = c * W /\ W * q \in Int
        BY <1>0
      <4> QED
        BY <1>0, <3>1, <3>3, <4>1
    <3>5. (W * (c + q) + s) \div W = c + q
      BY <1>0
    <3> QED
      BY <3>2, <3>4, <3>5
  <2>3. c * W + m + W - 1 = c * W + e
    <3>1. c * W \in Nat
      BY <1>0
    <3> QED
      BY <1>0, <2>1, <3>1
  <2> QED
    BY <2>1, <2>2, <2>3
<1>4. SectorsOf(0) = 0
  BY <1>2 DEF SectorsOf, W
<1>5. SectorsOf(n) \in Nat
  BY <1>1 DEF SectorsOf, W
<1>6. ASSUME NEW c \in Nat PROVE SectorsOf(c * TAR_SECTOR + n) = c + SectorsOf(n)
  BY <1>3 DEF SectorsOf, W
<1>7. ASSUME NEW c \in Nat PROVE SectorsOf(c * TAR_SECTOR) = c
  <2>1. c * TAR_SECTOR \in Nat /\ c * TAR_SECTOR + 0 = c * TAR_SECTOR
    BY TarSizes
  <2>2. SectorsOf(c * TAR_SECTOR + 0) = c + SectorsOf(0)
    BY <1>3 DEF SectorsOf, W
  <2> QED
    BY <1>4, <2>1, <2>2
<1> QED
  BY <1>4, <1>5, <1>6, <1>7

LEMMA HeaderIs ==
  /\ HeaderOf \in [File -> Nat]
  /\ 1 \in File => HeaderOf[1] = 0
  /\ \A k \in File : k # 1 => HeaderOf[k] = HeaderOf[k - 1] + 1 + SectorsOf(TarLengths[k - 1])
<1> DEFINE Rec(f) == [k \in File |-> IF k = 1 THEN 0
                                     ELSE f[k - 1] + 1 + (TarLengths[k - 1] + TAR_SECTOR - 1) \div TAR_SECTOR]
           G == [p \in Nat \X Nat |-> p[2] + 1 + (IF p[1] + 1 \in File THEN SectorsOf(TarLengths[p[1] + 1]) ELSE 0)]
<1>1. G \in [Nat \X Nat -> Nat]
  <2>1. \A p \in Nat \X Nat : p[2] + 1 + (IF p[1] + 1 \in File THEN SectorsOf(TarLengths[p[1] + 1]) ELSE 0) \in Nat
    <3> SUFFICES ASSUME NEW i \in Nat, NEW x \in Nat
                 PROVE  x + 1 + (IF i + 1 \in File THEN SectorsOf(TarLengths[i + 1]) ELSE 0) \in Nat
      OBVIOUS
    <3>1. i + 1 \in File => SectorsOf(TarLengths[i + 1]) \in Nat
      BY TarSizes, SectorsIs
    <3> QED
      BY <3>1
  <2> QED
    BY <2>1
<1>2. \A i \in Nat, x \in Nat : i + 1 \in File => G[<<i, x>>] = x + 1 + SectorsOf(TarLengths[i + 1])
  OBVIOUS
<1> HIDE DEF G
<1>3. PICK f \in [Nat -> Nat] : f[0] = 0 /\ \A i \in Nat : f[i + 1] = G[<<i, f[i]>>]
  <2>1. \E f : Recursive(f, Nat, 0, G)
    BY <1>1, RecursionExists
  <2> QED
    BY <2>1 DEF Recursive
<1> DEFINE h == [k \in File |-> f[k - 1]]
<1>4. h = Rec(h)
  <2>1. ASSUME NEW k \in File PROVE h[k] = Rec(h)[k]
    <3>1. CASE k = 1
      BY <1>3, <3>1
    <3>2. CASE k # 1
      <4>1. k - 1 \in File /\ k - 2 \in Nat /\ k - 1 = (k - 2) + 1 /\ k - 1 - 1 = k - 2
        BY <3>2, TarSizes
      <4>2. f[k - 1] = f[k - 2] + 1 + SectorsOf(TarLengths[k - 1])
        BY <1>2, <1>3, <4>1
      <4>3. h[k] = f[k - 1] /\ h[k - 1] = f[k - 2]
        BY <4>1
      <4>4. Rec(h)[k] = h[k - 1] + 1 + SectorsOf(TarLengths[k - 1])
        BY <3>2 DEF SectorsOf
      <4> QED
        BY <4>2, <4>3, <4>4
    <3> QED
      BY <3>1, <3>2
  <2> QED
    BY <2>1
<1>5. HeaderOf = CHOOSE g : g = Rec(g)
  BY DEF HeaderOf
<1>6. HeaderOf = Rec(HeaderOf)
  <2> HIDE DEF Rec, h
  <2> QED
    BY <1>4, <1>5, Zenon
<1>7. /\ HeaderOf = [k \in File |-> HeaderOf[k]]
      /\ 1 \in File => HeaderOf[1] = 0
      /\ \A k \in File : k # 1 => HeaderOf[k] = HeaderOf[k - 1] + 1 + SectorsOf(TarLengths[k - 1])
  <2> DEFINE b == HeaderOf
  <2>1. b = Rec(b)
    BY <1>6
  <2> HIDE DEF b
  <2>2. /\ b = [k \in File |-> b[k]]
        /\ 1 \in File => b[1] = 0
        /\ \A k \in File : k # 1 => b[k] = b[k - 1] + 1 + SectorsOf(TarLengths[k - 1])
    <3>1. \A k \in File : b[k] = Rec(b)[k]
      BY <2>1
    <3> QED
      BY <2>1, <3>1 DEF SectorsOf
  <2> QED
    BY <2>2 DEF b
<1> HIDE DEF Rec, h
<1>8. \A k \in File : HeaderOf[k] \in Nat
  <2> DEFINE T == {n \in Nat : n + 1 \in File => HeaderOf[n + 1] \in Nat}
  <2>1. 0 \in T
    BY <1>7
  <2>2. ASSUME NEW n \in Nat, n \in T PROVE n + 1 \in T
    <3> SUFFICES ASSUME n + 1 + 1 \in File PROVE HeaderOf[n + 1 + 1] \in Nat
      OBVIOUS
    <3>1. n + 1 \in File /\ n + 1 + 1 # 1 /\ n + 1 + 1 - 1 = n + 1
      BY TarSizes
    <3>2. PICK k \in File : k = n + 1 + 1
      OBVIOUS
    <3>3. k # 1 /\ k - 1 = n + 1
      BY <3>2
    <3>4. HeaderOf[k] = HeaderOf[k - 1] + 1 + SectorsOf(TarLengths[k - 1])
      BY <1>7, <3>3
    <3>5. HeaderOf[n + 1] \in Nat
      BY <2>2, <3>1
    <3>6. SectorsOf(TarLengths[n + 1]) \in Nat
      BY <3>1, SectorsIs, TarSizes
    <3> QED
      BY <3>2, <3>3, <3>4, <3>5, <3>6
  <2> HIDE DEF T
  <2>3. Nat \subseteq T
    BY <2>1, <2>2, AllNumbers
  <2> SUFFICES ASSUME NEW k \in File PROVE HeaderOf[k] \in Nat
    OBVIOUS
  <2>4. k - 1 \in Nat /\ (k - 1) + 1 = k
    BY TarSizes
  <2> QED
    BY <2>3, <2>4 DEF T
<1> QED
  BY <1>7, <1>8

\* where the header of file n is, or the end of the archive
HeaderAt(n) == IF n = 1 THEN 0 ELSE HeaderOf[n - 1] + 1 + SectorsOf(TarLengths[n - 1])

LEMMA HeadersApart ==
  /\ \A n \in 1 .. Len(TarLengths) + 1 : HeaderAt(n) \in Nat
  /\ \A k \in File : HeaderOf[k] = HeaderAt(k) /\ HeaderAt(k + 1) = HeaderOf[k] + 1 + SectorsOf(TarLengths[k])
  /\ \A k \in File, n \in 1 .. Len(TarLengths) + 1 : HeaderOf[k] = HeaderAt(n) => k = n
<1>1. \A k \in File : HeaderOf[k] \in Nat /\ SectorsOf(TarLengths[k]) \in Nat /\ HeaderOf[k] = HeaderAt(k)
  BY HeaderIs, SectorsIs, TarSizes DEF HeaderAt
<1>2. ASSUME NEW k \in File PROVE HeaderAt(k + 1) = HeaderOf[k] + 1 + SectorsOf(TarLengths[k])
  <2>1. PICK n \in Nat : n = k + 1
    BY TarSizes
  <2>2. n # 1 /\ n - 1 = k
    BY <2>1, TarSizes
  <2>3. HeaderAt(n) = HeaderOf[k] + 1 + SectorsOf(TarLengths[k])
    BY <2>2, Zenon DEF HeaderAt
  <2> QED
    BY <2>1, <2>3
<1>3. ASSUME NEW n \in 1 .. Len(TarLengths) + 1 PROVE HeaderAt(n) \in Nat
  <2>1. CASE n = 1
    <3>1. HeaderAt(n) = 0
      BY <2>1, Zenon DEF HeaderAt
    <3> QED
      BY <3>1
  <2>2. CASE n # 1
    <3>1. PICK m \in File : m = n - 1
      BY <2>2, TarSizes
    <3>2. HeaderAt(n) = HeaderOf[m] + 1 + SectorsOf(TarLengths[m])
      BY <2>2, <3>1, Zenon DEF HeaderAt
    <3> QED
      BY <1>1, <3>2
  <2> QED
    BY <2>1, <2>2
\* later ones are further on
<1>4. \A n \in 1 .. Len(TarLengths) + 1, k \in File : k < n => HeaderOf[k] < HeaderAt(n)
  <2> DEFINE T == {e \in Nat : \A k \in File : k + e + 1 <= Len(TarLengths) + 1 => HeaderOf[k] < HeaderAt(k + e + 1)}
  <2>1. 0 \in T
    <3> SUFFICES ASSUME NEW k \in File PROVE HeaderOf[k] < HeaderAt(k + 0 + 1)
      OBVIOUS
    <3>1. k + 0 + 1 = k + 1
      BY TarSizes
    <3>2. HeaderOf[k] < HeaderAt(k + 1)
      BY <1>1, <1>2
    <3> QED
      BY <3>1, <3>2
  <2>2. ASSUME NEW e \in Nat, e \in T PROVE e + 1 \in T
    <3> SUFFICES ASSUME NEW k \in File, k + (e + 1) + 1 <= Len(TarLengths) + 1
                 PROVE  HeaderOf[k] < HeaderAt(k + (e + 1) + 1)
      OBVIOUS
    <3>1. PICK m \in File : m = k + e + 1
      BY TarSizes
    <3>2. k + (e + 1) + 1 = m + 1 /\ m <= Len(TarLengths) + 1
      BY <3>1, TarSizes
    <3>3. HeaderOf[k] < HeaderAt(m)
      BY <2>2, <3>1, <3>2
    <3>4. HeaderAt(m) < HeaderAt(m + 1) /\ HeaderAt(m) \in Nat /\ HeaderAt(m + 1) \in Nat /\ HeaderOf[k] \in Nat
      BY <1>1, <1>2
    <3> QED
      BY <3>2, <3>3, <3>4
  <2> HIDE DEF T
  <2>3. Nat \subseteq T
    BY <2>1, <2>2, AllNumbers
  <2> SUFFICES ASSUME NEW n \in 1 .. Len(TarLengths) + 1, NEW k \in File, k < n
               PROVE  HeaderOf[k] < HeaderAt(n)
    OBVIOUS
  <2>4. PICK e \in Nat : e = n - k - 1
    <3>1. n - k - 1 \in Nat
      BY TarSizes
    <3> QED
      BY <3>1
  <2>5. n = k + e + 1 /\ e \in T
    BY <2>3, <2>4, TarSizes
  <2> QED
    BY <2>5, TarSizes DEF T
<1>5. ASSUME NEW k \in File, NEW n \in 1 .. Len(TarLengths) + 1, HeaderOf[k] = HeaderAt(n) PROVE k = n
  <2>1. CASE k < n
    BY <1>1, <1>4, <1>5, <2>1
  <2>2. CASE n < k
    <3>1. n \in File /\ k \in 1 .. Len(TarLengths) + 1
      BY <2>2, TarSizes
    <3>2. HeaderOf[n] < HeaderAt(k) /\ HeaderOf[n] = HeaderAt(n) /\ HeaderOf[k] = HeaderAt(k) /\ HeaderOf[k] \in Nat
      BY <1>1, <1>4, <2>2, <3>1
    <3> QED
      BY <1>5, <3>2
  <2> QED
    BY <2>1, <2>2, TarSizes
<1> QED
  BY <1>1, <1>2, <1>3, <1>5

(***************************************************************************)
(* The invariant: the files before the one that untar() is at are whole    *)
(* and nobody's, and the chunks of that one come from its place.           *)
(***************************************************************************)
InstallTypes ==
  /\ tarPc \in {"header", "copy", "mark", "done"} /\ fd_pos_tar \in Nat
  /\ extracted \in 0 .. Len(TarLengths) /\ to_copy \in Nat
  /\ unpacked \in BOOLEAN /\ aborted \in BOOLEAN /\ DOMAIN installed = File /\ edited \subseteq File
Whole(k) == installed[k] = Contents(k) /\ k \notin edited
\* the first n bytes of file k
Prefix(k, n) == [j \in 1 .. n |-> (HeaderOf[k] + 1) * TAR_SECTOR + j]
Copied ==
  /\ extracting = extracted /\ extracting \in File /\ ~ unpacked
  /\ to_copy <= TarLengths[extracting] /\ extracting \notin edited
  /\ installed[extracting] = Prefix(extracting, TarLengths[extracting] - to_copy)
  /\ IF to_copy = 0 THEN fd_pos_tar = HeaderAt(extracting + 1)
     ELSE \E c \in Nat : fd_pos_tar = HeaderOf[extracting] + 1 + c
                         /\ TarLengths[extracting] - to_copy = c * TAR_SECTOR
UntarAt ==
  CASE tarPc = "header" -> fd_pos_tar = HeaderAt(extracted + 1) /\ (unpacked => extracted = 0)
    [] tarPc = "copy" -> Copied
    [] tarPc = "mark" -> IF unpacked THEN extracted = 0 ELSE extracted = Len(TarLengths)
    [] tarPc = "done" -> ~ aborted => unpacked \/ File = {}
InstallInv ==
  /\ InstallTypes /\ UntarAt /\ InstalledWhenMarked
  /\ ~ unpacked /\ tarPc # "done" => \A k \in File : k < extracted \/ (tarPc # "copy" /\ k = extracted) => Whole(k)
  /\ ~ aborted /\ ~ unpacked => edited = {}

LEMMA FirstHeader == HeaderAt(0 + 1) = 0
<1>1. 0 + 1 = 1
  OBVIOUS
<1> QED
  BY <1>1, Zenon DEF HeaderAt

LEMMA InstallInitially == InstallInit => InstallInv
<1> SUFFICES ASSUME InstallInit PROVE InstallInv
  OBVIOUS
<1>1. /\ tarPc = "header" /\ fd_pos_tar = 0 /\ extracting = 0 /\ to_copy = 0 /\ extracted = 0
      /\ unpacked = FALSE /\ installed = [k \in File |-> Missing] /\ edited = {} /\ aborted = FALSE
  BY DEF InstallInit
<1>2. InstallTypes
  <2>1. 0 \in 0 .. Len(TarLengths)
    BY TarSizes
  <2>2. DOMAIN installed = File /\ edited \subseteq File
    BY <1>1
  <2> QED
    BY <1>1, <2>1, <2>2 DEF InstallTypes
<1>3. UntarAt
  BY <1>1, FirstHeader DEF UntarAt
<1>4. \A k \in File : ~ (k < extracted \/ k = extracted)
  BY <1>1, TarSizes
<1>5. InstalledWhenMarked
  BY <1>1 DEF InstalledWhenMarked
<1> QED
  BY <1>1, <1>2, <1>3, <1>4, <1>5 DEF InstallInv

LEMMA HeaderKeeps ==
  ASSUME InstallInv, read_header
  PROVE  InstallInv' /\ EditsSurvive
<1>1. /\ tarPc = "header" /\ fd_pos_tar = HeaderAt(extracted + 1) /\ (unpacked => extracted = 0)
      /\ fd_pos_tar' = fd_pos_tar + 1 /\ UNCHANGED <<unpacked, aborted, starts, rdbuf>>
  BY DEF InstallInv, UntarAt, read_header
<1>2. /\ extracted \in 0 .. Len(TarLengths) /\ fd_pos_tar \in Nat /\ unpacked \in BOOLEAN /\ aborted \in BOOLEAN
      /\ DOMAIN installed = File /\ edited \subseteq File /\ extracted + 1 \in 1 .. Len(TarLengths) + 1
  BY TarSizes DEF InstallInv, InstallTypes
<1> DEFINE here == {k \in File : HeaderOf[k] = fd_pos_tar /\ ~ (k = 1 /\ unpacked)}
<1>3. \A k \in here : k = extracted + 1 /\ ~ unpacked
  BY <1>1, <1>2, HeadersApart
<1>4. CASE here = {} /\ tarPc' = "mark" /\ UNCHANGED <<extracting, extracted, installed, edited, to_copy>>
  <2>1. unpacked \/ extracted = Len(TarLengths)
    <3> SUFFICES ASSUME ~ unpacked, extracted # Len(TarLengths) PROVE FALSE
      OBVIOUS
    <3>1. extracted + 1 \in File
      BY <1>2, TarSizes
    <3>2. extracted + 1 \in here
      BY <1>1, <3>1, HeadersApart
    <3> QED
      BY <1>4, <3>2
  <2> HIDE DEF here
  <2>2. InstallTypes'
    BY <1>1, <1>2, <1>4 DEF InstallInv, InstallTypes
  <2>3. UntarAt'
    BY <1>1, <1>4, <2>1 DEF UntarAt
  <2>4. InstalledWhenMarked'
    BY <1>1, <1>4 DEF InstallInv, InstalledWhenMarked
  <2>5. EditsSurvive
    BY <1>4 DEF EditsSurvive
  <2> QED
    BY <1>1, <1>4, <2>2, <2>3, <2>4, <2>5 DEF InstallInv, Whole
<1>5. ASSUME NEW k \in here,
             extracting' = k, extracted' = extracted + 1, to_copy' = TarLengths[k], tarPc' = "copy",
             installed' = [installed EXCEPT ![k] = <<>>], edited' = edited \ {k}
      PROVE  InstallInv' /\ EditsSurvive
  <2>1. k = extracted + 1 /\ ~ unpacked /\ k \in File /\ HeaderOf[k] = fd_pos_tar
    BY <1>3
  <2> HIDE DEF here
  <2>2. TarLengths[k] \in Nat /\ HeaderOf[k] \in Nat
    BY <2>1, TarSizes, HeaderIs
  <2>3. InstallTypes'
    BY <1>1, <1>2, <1>5, <2>1, <2>2, TarSizes DEF InstallTypes
  <2>4. Copied'
    <3>1. installed'[k] = <<>> /\ k \notin edited'
      BY <1>2, <1>5, <2>1
    <3>2. Prefix(k, TarLengths[k] - TarLengths[k]) = <<>>
      <4>1. TarLengths[k] - TarLengths[k] = 0 /\ 1 .. 0 = {}
        BY <2>2
      <4> QED
        BY <4>1 DEF Prefix
    <3>3. TarLengths[k] = 0 => fd_pos_tar + 1 = HeaderAt(k + 1)
      <4>1. HeaderAt(k + 1) = HeaderOf[k] + 1 + SectorsOf(TarLengths[k])
        BY <2>1, HeadersApart
      <4>2. SectorsOf(0) = 0
        <5>1. 0 \in Nat
          OBVIOUS
        <5> QED
          BY <5>1, SectorsIs
      <4> QED
        BY <2>1, <2>2, <4>1, <4>2
    <3>4. \E c \in Nat : fd_pos_tar + 1 = HeaderOf[k] + 1 + c /\ TarLengths[k] - TarLengths[k] = c * TAR_SECTOR
      <4>1. fd_pos_tar + 1 = HeaderOf[k] + 1 + 0 /\ TarLengths[k] - TarLengths[k] = 0 * TAR_SECTOR
        BY <2>1, <2>2, TarSizes
      <4> QED
        BY <4>1
    <3> QED
      BY <1>1, <1>5, <2>1, <2>2, <3>1, <3>2, <3>3, <3>4 DEF Copied
  <2>5. InstalledWhenMarked'
    BY <1>1, <2>1 DEF InstalledWhenMarked
  <2>6. \A j \in File : j < extracted' => Whole(j)'
    <3> SUFFICES ASSUME NEW j \in File, j < extracted + 1 PROVE Whole(j)'
      BY <1>5
    <3>1. j # k /\ (j < extracted \/ j = extracted)
      BY <1>2, <2>1, TarSizes
    <3>2. Whole(j)
      BY <1>1, <2>1, <3>1 DEF InstallInv
    <3> QED
      BY <1>2, <1>5, <2>1, <3>1, <3>2 DEF Whole, Contents
  <2>7. ~ aborted => edited = {}
    BY <2>1 DEF InstallInv
  <2>8. EditsSurvive
    BY <2>7 DEF EditsSurvive
  <2> QED
    BY <1>1, <1>5, <2>3, <2>4, <2>5, <2>6, <2>7, <2>8 DEF InstallInv, UntarAt
<1>6. \/ here = {} /\ tarPc' = "mark" /\ UNCHANGED <<extracting, extracted, installed, edited, to_copy>>
      \/ \E k \in here :
          /\ extracting' = k /\ extracted' = extracted + 1 /\ to_copy' = TarLengths[k] /\ tarPc' = "copy"
          /\ installed' = [installed EXCEPT ![k] = <<>>]
          /\ edited' = edited \ {k}
  BY Zenon DEF read_header
<1> HIDE DEF here
<1> QED
  BY <1>4, <1>5, <1>6

LEMMA CopyKeeps ==
  ASSUME InstallInv, copy_chunk
  PROVE  InstallInv' /\ EditsSurvive
<1>1. /\ tarPc = "copy" /\ Copied /\ extracting \in File /\ extracting = extracted /\ ~ unpacked
      /\ UNCHANGED <<extracting, extracted, unpacked, edited, aborted, starts, rdbuf>>
  BY DEF InstallInv, UntarAt, Copied, copy_chunk
<1>2. PICK k \in File : k = extracting
  BY <1>1
<1>3. PICK len \in Nat : len = TarLengths[k]
  BY TarSizes
<1>4. PICK n \in Nat : n = to_copy
  BY DEF InstallInv, InstallTypes
<1>5. /\ extracted \in 0 .. Len(TarLengths) /\ fd_pos_tar \in Nat /\ aborted \in BOOLEAN
      /\ DOMAIN installed = File /\ edited \subseteq File /\ n <= len /\ k \notin edited
      /\ installed[k] = Prefix(k, len - n) /\ HeaderOf[k] \in Nat /\ (~ aborted => edited = {})
  BY <1>1, <1>2, <1>3, <1>4, HeaderIs DEF InstallInv, InstallTypes, Copied
<1>6. EditsSurvive
  BY <1>1 DEF EditsSurvive
<1>7. InstalledWhenMarked'
  BY <1>1 DEF InstalledWhenMarked
<1>8. \A j \in File : j < k => Whole(j)
  BY <1>1, <1>2 DEF InstallInv
<1>9. CASE to_copy = 0
  <2>1. tarPc' = "header" /\ UNCHANGED <<fd_pos_tar, to_copy, installed>>
    BY <1>9 DEF copy_chunk
  <2>2. InstallTypes'
    BY <1>1, <2>1 DEF InstallInv, InstallTypes
  <2>3. fd_pos_tar = HeaderAt(k + 1)
    BY <1>1, <1>2, <1>9 DEF Copied
  <2>4. UntarAt'
    BY <1>1, <1>2, <2>1, <2>3 DEF UntarAt
  <2>5. Whole(k)
    <3>1. len - n = len /\ Prefix(k, len) = Contents(k)
      BY <1>3, <1>4, <1>9 DEF Prefix, Contents
    <3> QED
      BY <1>5, <3>1 DEF Whole
  <2>6. \A j \in File : j < extracted' \/ j = extracted' => Whole(j)'
    BY <1>1, <1>2, <1>8, <2>1, <2>5 DEF Whole, Contents
  <2> QED
    BY <1>1, <1>5, <1>6, <1>7, <2>1, <2>2, <2>4, <2>6 DEF InstallInv
<1>10. CASE to_copy # 0
  <2>1. PICK c \in Nat : fd_pos_tar = HeaderOf[k] + 1 + c /\ len - n = c * TAR_SECTOR
    BY <1>1, <1>2, <1>3, <1>4, <1>10 DEF Copied
  <2>2. PICK b \in Nat : b = Minimum(CHUNK_SECTS * TAR_SECTOR, n)
    <3>1. CHUNK_SECTS * TAR_SECTOR \in Nat
      BY TarSizes
    <3> QED
      BY <3>1 DEF Minimum
  <2>3. /\ fd_pos_tar' = fd_pos_tar + SectorsOf(b)
        /\ installed' = [installed EXCEPT ![k] = installed[k] \o [j \in 1 .. b |-> fd_pos_tar * TAR_SECTOR + j]]
        /\ to_copy' = n - b /\ tarPc' = "copy"
    BY <1>1, <1>2, <1>4, <1>10, <2>2 DEF copy_chunk
  <2>4. b <= n /\ n - b \in Nat /\ SectorsOf(b) \in Nat /\ (b = n \/ b = CHUNK_SECTS * TAR_SECTOR)
    <3>1. CHUNK_SECTS * TAR_SECTOR \in Nat
      BY TarSizes
    <3>2. b <= n /\ n - b \in Nat /\ (b = n \/ b = CHUNK_SECTS * TAR_SECTOR)
      BY <2>2, <3>1 DEF Minimum
    <3>3. SectorsOf(b) \in Nat
      BY SectorsIs
    <3> QED
      BY <3>2, <3>3
  <2>5. InstallTypes'
    <3>1. fd_pos_tar' \in Nat /\ to_copy' \in Nat /\ DOMAIN installed' = File
      BY <1>5, <2>3, <2>4
    <3>2. unpacked \in BOOLEAN
      BY DEF InstallInv, InstallTypes
    <3> QED
      BY <1>1, <1>5, <2>3, <3>1, <3>2 DEF InstallTypes
  <2>6. installed'[k] = Prefix(k, len - (n - b))
    <3>1. PICK base \in Nat : base = (HeaderOf[k] + 1) * TAR_SECTOR
      <4>1. (HeaderOf[k] + 1) * TAR_SECTOR \in Nat
        BY <1>5, TarSizes
      <4> QED
        BY <4>1
    <3>2. PICK m \in Nat : m = len - n
      BY <1>5
    <3>3. fd_pos_tar * TAR_SECTOR = base + m
      <4>1. (HeaderOf[k] + 1 + c) * TAR_SECTOR = (HeaderOf[k] + 1) * TAR_SECTOR + c * TAR_SECTOR
        BY <1>5, TarSizes
      <4> QED
        BY <2>1, <3>1, <3>2, <4>1
    <3> DEFINE u == [j \in 1 .. m |-> base + j]
               w == [j \in 1 .. b |-> base + m + j]
               z == [j \in 1 .. m + b |-> base + j]
    <3>4. u \in Seq(Nat) /\ Len(u) = m /\ w \in Seq(Nat) /\ Len(w) = b /\ z \in Seq(Nat) /\ Len(z) = m + b
      OBVIOUS
    <3>5. \A j \in 1 .. m : u[j] = z[j]
      OBVIOUS
    <3>6. \A j \in 1 .. b : w[j] = z[m + j]
      OBVIOUS
    <3>7. u \o w = z
      <4> HIDE DEF u, w, z
      <4>1. /\ u \o w \in Seq(Nat) /\ Len(u \o w) = m + b
            /\ \A j \in 1 .. m + b : (u \o w)[j] = IF j <= m THEN u[j] ELSE w[j - m]
        <5>1. /\ u \o w \in Seq(Nat) /\ Len(u \o w) = Len(u) + Len(w)
              /\ \A j \in 1 .. Len(u) + Len(w) : (u \o w)[j] = IF j <= Len(u) THEN u[j] ELSE w[j - Len(u)]
          BY <3>4, ConcatProperties, Zenon
        <5> QED
          BY <3>4, <5>1
      <4>2. ASSUME NEW j \in 1 .. m + b PROVE (u \o w)[j] = z[j]
        <5>1. CASE j <= m
          <6>1. j \in 1 .. m
            BY <5>1
          <6> QED
            BY <3>5, <4>1, <5>1, <6>1
        <5>2. CASE ~ (j <= m)
          <6>1. j - m \in 1 .. b /\ m + (j - m) = j
            BY <5>2
          <6>2. w[j - m] = z[m + (j - m)]
            BY <3>6, <6>1
          <6> QED
            BY <4>1, <5>2, <6>1, <6>2
        <5> QED
          BY <5>1, <5>2
      <4>3. Len(u \o w) = Len(z) /\ \A j \in 1 .. Len(u \o w) : (u \o w)[j] = z[j]
        BY <3>4, <4>1, <4>2
      <4> QED
        BY <3>4, <4>1, <4>3, SeqEqual
    <3>8. installed[k] = u
      BY <1>5, <3>1, <3>2 DEF Prefix
    <3>9. [j \in 1 .. b |-> fd_pos_tar * TAR_SECTOR + j] = w
      BY <3>3
    <3>10. Prefix(k, m + b) = z /\ len - (n - b) = m + b
      BY <1>5, <2>4, <3>1, <3>2 DEF Prefix
    <3> HIDE DEF u, w, z
    <3>11. installed'[k] = installed[k] \o [j \in 1 .. b |-> fd_pos_tar * TAR_SECTOR + j]
      BY <1>5, <2>3
    <3> QED
      BY <3>7, <3>8, <3>9, <3>10, <3>11
  <2>7. n - b = 0 => fd_pos_tar' = HeaderAt(k + 1)
    <3> SUFFICES ASSUME b = n PROVE fd_pos_tar' = HeaderAt(k + 1)
      BY <2>4
    <3>1. SectorsOf(len) = c + SectorsOf(n)
      <4>1. c * TAR_SECTOR \in Nat
        BY TarSizes
      <4>2. len = c * TAR_SECTOR + n
        BY <1>5, <2>1, <4>1
      <4> QED
        BY <4>2, SectorsIs
    <3>2. HeaderAt(k + 1) = HeaderOf[k] + 1 + SectorsOf(len)
      BY <1>3, HeadersApart
    <3> QED
      BY <1>5, <2>1, <2>3, <2>4, <3>1, <3>2, SMTT(40)
  <2>8. n - b # 0 => \E e \in Nat : fd_pos_tar' = HeaderOf[k] + 1 + e /\ len - (n - b) = e * TAR_SECTOR
    <3> SUFFICES ASSUME b = CHUNK_SECTS * TAR_SECTOR
                 PROVE  \E e \in Nat : fd_pos_tar' = HeaderOf[k] + 1 + e /\ len - (n - b) = e * TAR_SECTOR
      BY <2>4
    <3>1. SectorsOf(b) = CHUNK_SECTS /\ CHUNK_SECTS \in Nat
      BY SectorsIs, TarSizes
    <3>2. (c + CHUNK_SECTS) * TAR_SECTOR = c * TAR_SECTOR + CHUNK_SECTS * TAR_SECTOR
      BY TarSizes
    <3>3. c + CHUNK_SECTS \in Nat /\ fd_pos_tar' = HeaderOf[k] + 1 + (c + CHUNK_SECTS)
      <4>1. PICK y \in Nat : y = HeaderOf[k]
        BY <1>5
      <4>2. fd_pos_tar' = (y + 1 + c) + CHUNK_SECTS
        BY <2>1, <2>3, <3>1, <4>1
      <4> QED
        BY <3>1, <4>1, <4>2
    <3>4. len - (n - b) = (c + CHUNK_SECTS) * TAR_SECTOR
      BY <1>5, <2>1, <2>4, <3>2
    <3> QED
      BY <3>3, <3>4
  <2>9. Copied'
    <3>1. extracting' = k /\ extracted' = k /\ k \in File /\ ~ unpacked' /\ k \notin edited'
      BY <1>1, <1>2, <1>5
    <3>2. to_copy' <= TarLengths[k]
      BY <1>3, <1>5, <2>3, <2>4
    <3>3. installed'[k] = Prefix(k, TarLengths[k] - to_copy')
      BY <1>3, <2>3, <2>6
    <3>4. IF to_copy' = 0 THEN fd_pos_tar' = HeaderAt(k + 1)
          ELSE \E e \in Nat : fd_pos_tar' = HeaderOf[k] + 1 + e /\ TarLengths[k] - to_copy' = e * TAR_SECTOR
      <4>1. to_copy' = n - b /\ TarLengths[k] = len
        BY <1>3, <2>3
      <4> QED
        BY <4>1, <2>7, <2>8
    <3> QED
      BY <3>1, <3>2, <3>3, <3>4, Zenon DEF Copied
  <2>10. \A j \in File : j < extracted' => Whole(j)'
    <3> SUFFICES ASSUME NEW j \in File, j < k PROVE Whole(j)'
      BY <1>1, <1>2
    <3>1. j # k
      BY TarSizes
    <3>2. installed'[j] = installed[j]
      BY <1>5, <2>3, <3>1
    <3> QED
      BY <1>1, <1>8, <3>2 DEF Whole, Contents
  <2> QED
    BY <1>1, <1>5, <1>6, <1>7, <2>3, <2>5, <2>9, <2>10 DEF InstallInv, UntarAt
<1> QED
  BY <1>9, <1>10

LEMMA InstallStep ==
  ASSUME InstallInv, [InstallNext]_installVars
  PROVE  InstallInv' /\ [EditsSurvive]_installVars
<1>1. CASE read_header
  BY <1>1, HeaderKeeps
<1>2. CASE copy_chunk
  BY <1>2, CopyKeeps
<1>3. CASE header_refused
  BY <1>3 DEF header_refused, InstallInv, InstallTypes, UntarAt, InstalledWhenMarked, EditsSurvive
<1>4. CASE mark
  <2>1. /\ tarPc = "mark" /\ tarPc' = "done" /\ unpacked' = (unpacked \/ extracted > 0)
        /\ UNCHANGED <<fd_pos_tar, extracting, to_copy, extracted, installed, edited, aborted, starts, rdbuf>>
    BY <1>4 DEF mark
  <2>2. IF unpacked THEN extracted = 0 ELSE extracted = Len(TarLengths)
    BY <2>1 DEF InstallInv, UntarAt
  <2>3. ~ unpacked => \A k \in File : Whole(k)
    BY <2>1, <2>2, TarSizes DEF InstallInv
  <2>4. InstalledWhenMarked'
    BY <2>1, <2>3 DEF InstallInv, InstalledWhenMarked, Whole, Contents
  <2>5. unpacked' \/ File = {}
    <3>1. CASE unpacked
      BY <2>1, <3>1
    <3>2. CASE ~ unpacked
      <4>1. PICK m \in Nat : m = Len(TarLengths)
        BY TarSizes
      <4>2. extracted = m /\ File = 1 .. m
        BY <2>2, <3>2, <4>1, TarSizes
      <4>3. CASE m = 0
        BY <4>2, <4>3
      <4>4. CASE m # 0
        <5>1. extracted > 0 /\ unpacked'= (unpacked \/ extracted > 0)
          BY <2>1, <4>2, <4>4
        <5> QED
          BY <5>1, Zenon
      <4> QED
        BY <4>3, <4>4
    <3> QED
      BY <3>1, <3>2
  <2>6. unpacked' \in BOOLEAN
    BY <2>1
  <2>7. InstallTypes' /\ UntarAt'
    BY <2>1, <2>5, <2>6 DEF InstallInv, InstallTypes, UntarAt
  <2>8. EditsSurvive
    BY <2>1 DEF EditsSurvive
  <2> QED
    BY <2>1, <2>4, <2>7, <2>8 DEF InstallInv
<1>5. CASE power_lost
  <2>1. /\ tarPc' = "header" /\ fd_pos_tar' = 0 /\ extracting' = 0 /\ to_copy' = 0 /\ extracted' = 0
        /\ UNCHANGED <<unpacked, installed, edited, aborted, rdbuf>>
    BY <1>5 DEF power_lost
  <2>2. HeaderAt(0 + 1) = 0
    BY FirstHeader
  <2>3. InstallTypes' /\ UntarAt'
    BY <2>1, <2>2, TarSizes DEF InstallInv, InstallTypes, UntarAt
  <2>4. InstalledWhenMarked' /\ EditsSurvive
    BY <2>1 DEF InstallInv, InstalledWhenMarked, EditsSurvive, Contents
  <2> QED
    BY <2>1, <2>3, <2>4, TarSizes DEF InstallInv
<1>6. CASE \E ch \in Line : type_char(ch)
  BY <1>6 DEF type_char, InstallInv, InstallTypes, UntarAt, InstalledWhenMarked, Contents, EditsSurvive
<1>7. ASSUME NEW k \in File, edit_file(k) PROVE InstallInv' /\ EditsSurvive
  <2>1. /\ tarPc = "done" /\ installed' = [installed EXCEPT ![k] = <<-1>>] /\ edited' = edited \cup {k}
        /\ UNCHANGED <<tarPc, fd_pos_tar, extracting, to_copy, extracted, unpacked, aborted, starts, rdbuf>>
    BY <1>7 DEF edit_file
  <2>2. ~ aborted => unpacked
    BY <2>1 DEF InstallInv, UntarAt
  <2>3. InstallTypes' /\ UntarAt'
    BY <2>1 DEF InstallInv, InstallTypes, UntarAt
  <2>4. InstalledWhenMarked' /\ EditsSurvive
    BY <2>1 DEF InstallInv, InstallTypes, InstalledWhenMarked, EditsSurvive, Contents
  <2> QED
    BY <2>1, <2>2, <2>3, <2>4 DEF InstallInv
<1>8. CASE UNCHANGED installVars
  BY <1>8 DEF installVars, InstallInv, InstallTypes, UntarAt, Copied, Whole, InstalledWhenMarked, Contents, EditsSurvive
<1> QED
  BY <1>1, <1>2, <1>3, <1>4, <1>5, <1>6, <1>7, <1>8 DEF InstallNext

(* For archives of any files and chunks of any size, however often the     *)
(* power is lost: once the archive is marked every file is whole or a      *)
(* user's, and a start takes no edit back unless an earlier one gave up at *)
(* a file (main.c:197-240).                                                *)
THEOREM CommandsAlwaysKept == InstallSpec => CommandsKept
<1>1. InstallInit => InstallInv
  BY InstallInitially
<1>2. InstallInv /\ [InstallNext]_installVars => InstallInv' /\ [EditsSurvive]_installVars
  BY InstallStep
<1>3. InstallInv => InstalledWhenMarked
  BY DEF InstallInv
<1> QED
  BY <1>1, <1>2, <1>3, PTL DEF InstallSpec, CommandsKept
===============================================================================
