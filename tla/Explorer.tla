------------------------------ MODULE Explorer ------------------------------
(***************************************************************************)
(* The Files window of 25-osfs11's desktop (kernel/desktop.c and wm.c):    *)
(* the list of the files in the root directory, its selection, and the     *)
(* commands of the terminal window that change the directory.  The list is *)
(* a copy, read with several requests to FS; other processes change the    *)
(* directory between them and after them without telling the desktop.      *)
(*                                                                         *)
(* Names are numbers, whose order is that of strcmp().  What stat() says   *)
(* of an entry, its kind and its size, is left out: a failed stat() leaves *)
(* the entry in the list, and the text view, the only reader of the kind,  *)
(* is never opened (the case of expl_key() that calls expl_open_view() has *)
(* no label, desktop.c:1023).  open() of "/" does not fail.  The sectors   *)
(* of the directory are zeros where nothing was written.                   *)
(***************************************************************************)
EXTENDS Integers, Sequences, FiniteSets, SequencesExt

CONSTANTS
  Names,       \* file names
  Devices,     \* those of device files, which unlink() refuses
  Slots,       \* bound: entries that the directory has room for
  SectSlots,   \* SECTOR_SIZE / DIR_ENTRY_SIZE
  RawSlots,    \* EXPL_RAW_MAX / DIR_ENTRY_SIZE
  DirsAtBoot,  \* the directories that earlier boots have left, up to their last slot
  ROWS,        \* rows that the window shows
  WM_EXPL_MAX_ENTRIES

FreeSlot == 0
Dot == -1      \* the entry "."
ASSUME ExplorerAssumption ==
  /\ Names \subseteq Nat \ {0} /\ Devices \subseteq Names /\ Devices # {}
  /\ {SectSlots, RawSlots, ROWS, WM_EXPL_MAX_ENTRIES} \subseteq Nat \ {0}
  /\ Slots \in Nat /\ RawSlots % SectSlots = 0
  /\ \A d \in DirsAtBoot : /\ Len(d) \in 1 .. Slots /\ d[1] = Dot
                            /\ Range(d) \subseteq Names \cup {FreeSlot, Dot} /\ Devices \subseteq Range(d)

VARIABLES
  dir,              \* the directory, in FS: the name in each slot
  dir_size,         \* its i_size, in slots
  refreshing,       \* how far expl_refresh() is: "read", "list" or "no"
  expl_raw,         \* what it has read
  entries, ecursor, escroll,
  gkeys,            \* characters in the graphics key queue
  foreign           \* history: another process changed the directory since it was read
fsDirVars == <<dir, dir_size>>
listVars == <<entries, ecursor, escroll>>
explVars == <<dir, dir_size, refreshing, expl_raw, entries, ecursor, escroll, gkeys, foreign>>

Key == {"UP", "DOWN", "PGUP", "PGDN", "HOME", "END", "DEL"}
Used(n) == n # FreeSlot
Live(n) == n \notin {FreeSlot, Dot}
FileSlots == {s \in 1 .. Slots : Live(dir[s])}
Named == {dir[s] : s \in FileSlots}
First(S) == CHOOSE s \in S : \A i \in S : s <= i

(***************************************************************************)
(* FS.  search_file() compares one entry more than the directory has.      *)
(* do_unlink() looks at no more than those, so for that entry its          *)
(* assert(flg) stops the machine (MCUnlink has this).  When it removes the *)
(* last entry it sets the size to the entries in use before it: files in   *)
(* slots behind that are cut off.                                          *)
(***************************************************************************)
search_file(n) == {s \in 1 .. dir_size + 1 : s <= Slots /\ dir[s] = n}
do_unlink(n) ==
  LET s == First(search_file(n)) IN
  /\ n \notin Devices /\ search_file(n) # {} /\ s <= dir_size
  /\ dir' = [dir EXCEPT ![s] = FreeSlot]
  /\ dir_size' = IF s = dir_size THEN Len(SelectSeq(SubSeq(dir, 1, s - 1), Used)) ELSE dir_size
create_file(n) ==
  LET s == First({i \in 1 .. dir_size : dir[i] = FreeSlot} \cup {dir_size + 1}) IN
  /\ search_file(n) = {} /\ s <= Slots
  /\ dir' = [dir EXCEPT ![s] = n]
  /\ dir_size' = IF s > dir_size THEN s ELSE dir_size

(***************************************************************************)
(* expl_refresh().  do_rdwt() moves whole sectors past the end of the      *)
(* directory and takes what it has moved for its size.                     *)
(***************************************************************************)
AtMost(n, max) == IF n < max THEN n ELSE max
Reach == AtMost((AtMost(dir_size, RawSlots) \div SectSlots + 1) * SectSlots, RawSlots)
expl_read ==
  /\ refreshing = "read" /\ refreshing' = "list" /\ foreign' = FALSE
  /\ expl_raw' = [s \in 1 .. Reach |-> IF s <= Slots THEN dir[s] ELSE FreeSlot]
  /\ dir_size' = IF Reach > dir_size THEN Reach ELSE dir_size
  /\ UNCHANGED <<dir, listVars, gkeys>>

\* wm_expl_scroll_to_cursor(), and the cursor within the list
ScrollTo(c, scroll) == IF c < scroll THEN c ELSE IF c >= scroll + ROWS THEN c - ROWS + 1 ELSE scroll
Select(c) == ecursor' = c /\ escroll' = ScrollTo(c, escroll)
LastRow(list) == Len(list) - 1
\* the first entries, in the order of the slots, then sorted
Listed ==
  LET live == SelectSeq(expl_raw, Live)
  IN  SortSeq(SubSeq(live, 1, AtMost(Len(live), WM_EXPL_MAX_ENTRIES)), <)
expl_list ==
  /\ refreshing = "list" /\ refreshing' = "no" /\ expl_raw' = <<>>
  /\ entries' = Listed
  /\ Select(AtMost(ecursor, LastRow(Listed)))
  /\ UNCHANGED <<fsDirVars, gkeys, foreign>>

(***************************************************************************)
(* Keys: in_process() of TTY queues characters, expl_key() takes one.  END *)
(* has no break before DELETE.                                             *)
(***************************************************************************)
in_process ==
  /\ gkeys = <<>> /\ \E k \in Key : gkeys' = IF k = "END" THEN <<"END", "DEL">> ELSE <<k>>
  /\ UNCHANGED <<fsDirVars, refreshing, expl_raw, listVars, foreign>>
Moved(k) ==
  CASE k = "UP" -> IF ecursor > 0 THEN ecursor - 1 ELSE ecursor
    [] k = "DOWN" -> IF ecursor < LastRow(entries) THEN ecursor + 1 ELSE ecursor
    [] k = "PGUP" -> IF ecursor < ROWS - 1 THEN 0 ELSE ecursor - (ROWS - 1)
    [] k = "PGDN" -> AtMost(ecursor + (ROWS - 1), LastRow(entries))
    [] k = "HOME" -> 0
    [] k = "END" -> LastRow(entries)
expl_key(k) == refreshing = "no" /\ gkeys # <<>> /\ Head(gkeys) = k /\ gkeys' = Tail(gkeys)
expl_key_moves ==
  /\ \E k \in Key \ {"DEL"} : expl_key(k) /\ Select(Moved(k))
  /\ UNCHANGED <<fsDirVars, refreshing, expl_raw, entries, foreign>>
\* unlink() also refuses a file that is open elsewhere
expl_key_del ==
  /\ expl_key("DEL")
  /\ \/ do_unlink(entries[ecursor + 1]) /\ refreshing' = "read" /\ UNCHANGED <<ecursor, escroll>>
     \/ Select(ecursor) /\ UNCHANGED <<fsDirVars, refreshing>>
  /\ UNCHANGED <<expl_raw, entries, foreign>>

\* wm_handle_click() on row r of the window
wm_handle_click ==
  /\ refreshing = "no"
  /\ \E r \in 0 .. ROWS - 1 : r + escroll <= LastRow(entries) /\ Select(r + escroll)
  /\ UNCHANGED <<fsDirVars, refreshing, expl_raw, entries, gkeys, foreign>>

(***************************************************************************)
(* The terminal's ls, rm and write when they succeed, which ends in        *)
(* expl_refresh(); and other processes.                                    *)
(***************************************************************************)
term_rm == \E n \in Names : do_unlink(n)
term_write == \E n \in Names : create_file(n)
Command ==
  /\ refreshing = "no" /\ refreshing' = "read"
  /\ term_rm \/ term_write \/ UNCHANGED fsDirVars
  /\ UNCHANGED <<expl_raw, listVars, gkeys, foreign>>
OtherProcess ==
  /\ (\E n \in Names : do_unlink(n) \/ create_file(n)) /\ foreign' = TRUE
  /\ UNCHANGED <<refreshing, expl_raw, listVars, gkeys>>

\* wm_expl_open(), before the first expl_refresh()
wm_expl_open ==
  /\ \E d \in DirsAtBoot : dir = d \o [i \in 1 .. Slots - Len(d) |-> FreeSlot] /\ dir_size = Len(d)
  /\ refreshing = "read" /\ expl_raw = <<>> /\ foreign = FALSE
  /\ entries = <<>> /\ ecursor = 0 /\ escroll = 0 /\ gkeys = <<>>
explNext ==
  \/ expl_read \/ expl_list \/ in_process \/ expl_key_moves \/ expl_key_del
  \/ wm_handle_click \/ Command \/ OtherProcess
-----------------------------------------------------------------------------
(* Properties *)

(* The selection is an entry of the list, also when the list has become    *)
(* shorter, and is among the rows that are painted (wm.c:468-491).  The    *)
(* desktop paints nothing while it reads the list.                         *)
SelectionShown ==
  refreshing = "no" =>
    /\ ecursor \in 0 .. LastRow(entries)
    /\ escroll >= 0 /\ escroll <= ecursor /\ ecursor < escroll + ROWS

(* Files behind the end of the directory: a removal has cut them off       *)
(* (link.c:204-206), or they are past what expl_raw holds.                 *)
OutOfReach == \E s \in FileSlots : s > AtMost(dir_size, RawSlots)

(* Whatever the desktop itself did to the directory is in the list when it *)
(* is painted again: everything listed is a file, and every file that the  *)
(* directory still reaches is listed, unless they are more than the list   *)
(* takes (desktop.c:764-842).                                              *)
ListIsDirectory ==
  refreshing = "no" /\ ~ foreign =>
    /\ Range(entries) \subseteq Named
    /\ Cardinality(FileSlots) <= WM_EXPL_MAX_ENTRIES /\ ~ OutOfReach => Range(entries) = Named

(* The list of files: what the user would remove or open is a file, and    *)
(* the row that shows it is painted.                                       *)
ListShown == SelectionShown /\ ListIsDirectory
=============================================================================
