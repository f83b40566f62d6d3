------------------------------- MODULE FsRdwt -------------------------------
(***************************************************************************)
(* Reading and writing one regular file in 25-osfs11: do_rdwt()            *)
(* (fs/read_write.c), do_lseek() (fs/open.c) and the positions of the      *)
(* descriptors that are open on it.  The sectors after those of the file   *)
(* belong to its neighbour on the disk.                                    *)
(***************************************************************************)
EXTENDS Integers, FiniteSets

CONSTANTS
  RwDesc,         \* descriptors on the file, 1 .. n
  SECTOR_SIZE,
  FileSects,      \* i_nr_sects
  FSBUF_SECTS,    \* FSBUF_SIZE / SECTOR_SIZE
  MoreSects,      \* sectors of the neighbour that are modelled
  Lengths,        \* byte counts that are asked for
  ByteValues,     \* what is written
  MaxStart        \* bound: no request starts after this position

Alloc == FileSects * SECTOR_SIZE
Bytes == 0 .. (FileSects + MoreSects) * SECTOR_SIZE - 1

ASSUME FsRdwtAssumption ==
  /\ {SECTOR_SIZE, FileSects, FSBUF_SECTS} \subseteq Nat \ {0} /\ {MoreSects, MaxStart} \subseteq Nat
  /\ IsFiniteSet(RwDesc) /\ RwDesc \subseteq Nat \ {0} /\ Lengths \subseteq Nat

VARIABLES
  data,     \* what the sectors hold, from the first byte of the file
  i_size,
  fd_pos    \* fd_pos[d], or Closed
fsRdwtVars == <<data, i_size, fd_pos>>

Closed == -1
Least(a, b) == IF a < b THEN a ELSE b

(***************************************************************************)
(* The loop over chunks of at most FSBUF_SECTS sectors.  pos_end bounds    *)
(* the sectors, not the bytes: the last chunk moves whatever is left, past *)
(* the end of the file for a READ, into the neighbour's sectors for a      *)
(* WRITE.  A file also grows by what is read past its end.                 *)
(***************************************************************************)
SectMin(pos) == pos \div SECTOR_SIZE
SectMax(end) == end \div SECTOR_SIZE
Chunk(pos, end) == Least(SectMax(end) - SectMin(pos) + 1, FSBUF_SECTS)
Rounds(pos, end) ==
  IF SectMax(end) < SectMin(pos) THEN 0
  ELSE 1 + (SectMax(end) - SectMin(pos)) \div Chunk(pos, end)
\* the bytes of the next chunk, when done have been moved
NextBytes(pos, end, len, done) ==
  Least(len - done, Chunk(pos, end) * SECTOR_SIZE - (IF done = 0 THEN pos % SECTOR_SIZE ELSE 0))
BytesAfter(pos, end, len) ==
  LET done[k \in Nat] == IF k = 0 THEN 0 ELSE done[k - 1] + NextBytes(pos, end, len, done[k - 1])
  IN  done
bytes_rw(pos, end, len) == BytesAfter(pos, end, len)[Rounds(pos, end)]

\* Mutation: the offset in the first sector is forgotten.
TouchedNoOffset(pos, to) == {b \in Bytes : pos - (pos % SECTOR_SIZE) <= b /\ b < to}
Touched(pos, to) == {b \in Bytes : pos <= b /\ b < to}

\* what pos_end is cut to
Limit(op) == IF op = "READ" THEN i_size ELSE Alloc
do_rdwt(d, op, len, v) ==
  LET pos == fd_pos[d]
      end == Least(pos + len, Limit(op))
      n   == bytes_rw(pos, end, len)
      to  == pos + n
  IN
  /\ pos # Closed /\ pos <= MaxStart
  /\ data' = IF op = "READ" THEN data ELSE [b \in Bytes |-> IF b \in Touched(pos, to) THEN v ELSE data[b]]
  /\ fd_pos' = [fd_pos EXCEPT ![d] = to]
  /\ i_size' = IF to > i_size THEN to ELSE i_size

\* SEEK_SET, SEEK_CUR and SEEK_END start from 0, the position or the size
do_lseek(d, from, off) ==
  /\ fd_pos[d] # Closed
  /\ LET pos == CASE from = "SET" -> off [] from = "CUR" -> fd_pos[d] + off [] from = "END" -> i_size + off
     IN  /\ pos \in 0 .. i_size /\ pos # fd_pos[d]
         /\ fd_pos' = [fd_pos EXCEPT ![d] = pos]
  /\ UNCHANGED <<data, i_size>>

\* do_open() of the file, with O_TRUNC or without, and do_close()
OpenFile(d, trunc) ==
  /\ fd_pos[d] = Closed
  /\ fd_pos' = [fd_pos EXCEPT ![d] = 0]
  /\ i_size' = IF trunc THEN 0 ELSE i_size
  /\ UNCHANGED data
CloseFile(d) ==
  /\ fd_pos[d] # Closed
  /\ fd_pos' = [fd_pos EXCEPT ![d] = Closed]
  /\ UNCHANGED <<data, i_size>>

FsRdwtInit ==
  /\ data = [b \in Bytes |-> 0] /\ i_size = 0
  /\ fd_pos = [d \in RwDesc |-> Closed]
FsRdwtNext ==
  \E d \in RwDesc :
    \/ \E op \in {"READ", "WRITE"}, len \in Lengths, v \in ByteValues : do_rdwt(d, op, len, v)
    \/ \E from \in {"SET", "CUR", "END"}, off \in {-1, 0, 1} : do_lseek(d, from, off)
    \/ \E trunc \in BOOLEAN : OpenFile(d, trunc)
    \/ CloseFile(d)
FsRdwtSpec == FsRdwtInit /\ [][FsRdwtNext]_fsRdwtVars
-----------------------------------------------------------------------------
(* Properties *)

(* A read inside the file, or a write inside its sectors, moves all the    *)
(* bytes asked for, at whatever offset it starts and however many sectors  *)
(* and chunks it crosses (read_write.c:78-131).                            *)
FullTransfer ==
  \A d \in RwDesc, op \in {"READ", "WRITE"}, len \in Lengths, v \in ByteValues :
    do_rdwt(d, op, len, v) /\ fd_pos[d] + len <= Limit(op) => fd_pos'[d] = fd_pos[d] + len

(* A request that goes further still moves all there is up to the limit,   *)
(* never more than was asked for, and whatever is moved past the limit     *)
(* stays within one buffer from the limit's sector: the last chunk is not  *)
(* cut to pos_end (read_write.c:88-96), but no later chunk follows it.     *)
BoundedOverrun ==
  \A d \in RwDesc, op \in {"READ", "WRITE"}, len \in Lengths, v \in ByteValues :
    do_rdwt(d, op, len, v) =>
      /\ fd_pos[d] <= fd_pos'[d] /\ fd_pos'[d] <= fd_pos[d] + len
      /\ fd_pos[d] <= Limit(op) => fd_pos'[d] >= Least(fd_pos[d] + len, Limit(op))
      /\ fd_pos'[d] > fd_pos[d] => fd_pos'[d] <= (SectMax(Limit(op)) + FSBUF_SECTS) * SECTOR_SIZE

(* A byte changes only under a write, and is one of those the writer's     *)
(* position moved over: the bytes before and after keep their writer.      *)
WritesItsBytes ==
  \A b \in Bytes : data'[b] # data[b] =>
    \E d \in RwDesc : fd_pos[d] <= b /\ b < fd_pos'[d]

(* Together, for every request: inside the limit exactly the bytes asked   *)
(* for are moved, so that a write inside the file's sectors leaves the     *)
(* neighbour's alone; of a larger one, at most a buffer more than the      *)
(* limit allows (read_write.c:78-131).                                     *)
TransfersExact == [][FullTransfer /\ BoundedOverrun /\ WritesItsBytes]_fsRdwtVars
=============================================================================
