------------------------------- MODULE Install -------------------------------
(***************************************************************************)
(* How the commands of 25-osfs11 come to the disk and how they are called: *)
(* Init() extracts /cmd.tar with untar() at every start, until its first   *)
(* byte is 0 (kernel/main.c), and shabby_shell() splits what is typed into *)
(* the words of argv[].                                                    *)
(*                                                                         *)
(* A byte of a file is written as its place in the archive; a user's edit  *)
(* is the byte -1.  The archive is the headers and the contents of the     *)
(* files, each from a sector boundary on, and sectors of zeroes.           *)
(***************************************************************************)
EXTENDS Integers, Sequences, SequencesExt

CONSTANTS
  TarLengths,     \* TarLengths[k]: the length of the k-th file
  TAR_SECTOR,     \* SECTOR_SIZE
  CHUNK_SECTS,    \* sectors of buf[]
  MaxStarts,      \* bound on power losses
  MayRefuse,      \* whether an open() of untar() may fail, once
  Line,           \* the characters that are typed: " " and others
  LINE_MAX        \* 70
ASSUME InstallAssumption ==
  /\ {TAR_SECTOR, CHUNK_SECTS} \subseteq Nat \ {0}
  /\ MaxStarts \in Nat /\ LINE_MAX \in Nat /\ MayRefuse \in BOOLEAN
  /\ TarLengths \in Seq(Nat) /\ " " \in Line

VARIABLES
  tarPc, fd_pos_tar,      \* untar(): where it is; the position of fd, in sectors
  extracting, to_copy, \* the file, and f_len less what is written
  extracted,              \* i
  unpacked,               \* the first byte of the archive is 0
  installed,              \* the contents of each file, or Missing
  edited,                 \* history: the files a user has changed since they were extracted
  aborted,                \* history: an open() failed in the current or an earlier start
  starts, rdbuf
installVars == <<tarPc, fd_pos_tar, extracting, to_copy, extracted, unpacked, installed, edited,
                 aborted, starts, rdbuf>>

File == DOMAIN TarLengths
Missing == <<-2>>
Minimum(a, b) == IF a < b THEN a ELSE b
SectorsOf(n) == (n + TAR_SECTOR - 1) \div TAR_SECTOR
\* the sector of the header of file k
HeaderOf[k \in File] ==
  IF k = 1 THEN 0 ELSE HeaderOf[k - 1] + 1 + (TarLengths[k - 1] + TAR_SECTOR - 1) \div TAR_SECTOR
Contents(k) == [j \in 1 .. TarLengths[k] |-> (HeaderOf[k] + 1) * TAR_SECTOR + j]

(***************************************************************************)
(* untar(), a file and a chunk at a time.                                  *)
(***************************************************************************)
read_header ==
  /\ tarPc = "header"
  /\ LET here == {k \in File : HeaderOf[k] = fd_pos_tar /\ ~ (k = 1 /\ unpacked)} IN
     \/ /\ here = {} /\ tarPc' = "mark" /\ UNCHANGED <<extracting, extracted, installed, edited, to_copy>>
     \/ \E k \in here :
          /\ extracting' = k /\ extracted' = extracted + 1 /\ to_copy' = TarLengths[k] /\ tarPc' = "copy"
          /\ installed' = [installed EXCEPT ![k] = <<>>]   \* O_CREAT | O_TRUNC
          /\ edited' = edited \ {k}
  /\ fd_pos_tar' = fd_pos_tar + 1
  /\ UNCHANGED <<unpacked, aborted, starts, rdbuf>>
\* open() finds no inode, no entry or no descriptor
header_refused ==
  /\ tarPc = "header" /\ MayRefuse /\ ~ aborted /\ ~ unpacked
  /\ \E k \in File : HeaderOf[k] = fd_pos_tar
  /\ tarPc' = "done" /\ aborted' = TRUE
  /\ UNCHANGED <<fd_pos_tar, extracting, to_copy, extracted, unpacked, installed, edited, starts, rdbuf>>
copy_chunk ==
  /\ tarPc = "copy"
  /\ IF to_copy = 0
       THEN tarPc' = "header" /\ UNCHANGED <<fd_pos_tar, to_copy, installed>>
       ELSE LET iobytes == Minimum(CHUNK_SECTS * TAR_SECTOR, to_copy) IN
            /\ fd_pos_tar' = fd_pos_tar + SectorsOf(iobytes)
            /\ installed' = [installed EXCEPT ![extracting] =
                               @ \o [j \in 1 .. iobytes |-> fd_pos_tar * TAR_SECTOR + j]]
            /\ to_copy' = to_copy - iobytes /\ UNCHANGED tarPc
  /\ UNCHANGED <<extracting, extracted, unpacked, edited, aborted, starts, rdbuf>>
\* Mutation: that the archive is unpacked is not written.
markNot ==
  /\ tarPc = "mark" /\ tarPc' = "done"
  /\ UNCHANGED <<fd_pos_tar, extracting, to_copy, extracted, unpacked, installed, edited, aborted, starts, rdbuf>>
mark ==
  /\ tarPc = "mark" /\ tarPc' = "done"
  /\ unpacked' = (unpacked \/ extracted > 0)
  /\ UNCHANGED <<fd_pos_tar, extracting, to_copy, extracted, installed, edited, aborted, starts, rdbuf>>

(***************************************************************************)
(* shabby_shell(): a line, and its words.  word is the start of the word   *)
(* that is being read, or 0; NUL ends the line and each word in it.        *)
(***************************************************************************)
NUL == "NUL"
Split(acc, i, ch) ==
  IF ch \notin {" ", NUL} /\ acc.word = 0 THEN [acc EXCEPT !.word = i]
  ELSE IF ch \in {" ", NUL} /\ acc.word # 0
    THEN [argv |-> Append(acc.argv, acc.word), word |-> 0, buf |-> [acc.buf EXCEPT ![i] = NUL]]
  ELSE acc
argv_of(line) ==
  LET buf == Append(line, NUL)
      end == FoldLeft(LAMBDA acc, i : Split(acc, i, buf[i]), [argv |-> <<>>, word |-> 0, buf |-> buf],
                      [i \in 1 .. Len(buf) |-> i])
      String(s) == SubSeq(end.buf, s, (CHOOSE e \in s .. Len(buf) : end.buf[e] = NUL
                                         /\ \A m \in s .. e - 1 : end.buf[m] # NUL) - 1)
  IN  [w \in 1 .. Len(end.argv) |-> String(end.argv[w])]

\* the shells start when untar() has returned
type_char(ch) ==
  /\ tarPc = "done" /\ starts = 0 /\ Len(rdbuf) < LINE_MAX /\ rdbuf' = Append(rdbuf, ch)
  /\ UNCHANGED <<tarPc, fd_pos_tar, extracting, to_copy, extracted, unpacked, installed, edited, aborted, starts>>
\* a command, or the user with one, writes a file
edit_file(k) ==
  /\ tarPc = "done" /\ rdbuf = <<>>
  /\ installed' = [installed EXCEPT ![k] = <<-1>>] /\ edited' = edited \cup {k}
  /\ UNCHANGED <<tarPc, fd_pos_tar, extracting, to_copy, extracted, unpacked, aborted, starts, rdbuf>>
power_lost ==
  /\ starts < MaxStarts /\ rdbuf = <<>> /\ starts' = starts + 1
  /\ tarPc' = "header" /\ fd_pos_tar' = 0 /\ extracting' = 0 /\ to_copy' = 0 /\ extracted' = 0
  /\ UNCHANGED <<unpacked, installed, edited, aborted, rdbuf>>

InstallInit ==
  /\ tarPc = "header" /\ fd_pos_tar = 0 /\ extracting = 0 /\ to_copy = 0 /\ extracted = 0
  /\ unpacked = FALSE /\ installed = [k \in File |-> Missing] /\ edited = {} /\ aborted = FALSE
  /\ starts = 0 /\ rdbuf = <<>>
InstallNext ==
  \/ read_header \/ header_refused \/ copy_chunk \/ mark \/ power_lost
  \/ (\E ch \in Line : type_char(ch)) \/ \E k \in File : edit_file(k)
-----------------------------------------------------------------------------
(* Properties *)

(* Once the archive is marked every file of it is on the disk with all its *)
(* bytes, or a user has changed it, however often the power was lost       *)
(* between two files, two chunks or before the mark (main.c:197-240).      *)
InstalledWhenMarked == unpacked => \A k \in File \ edited : installed[k] = Contents(k)

(* A start does not take back what a user has changed.  It does when an    *)
(* earlier one gave up at a file it could not open: then the archive is    *)
(* not marked, and the files before it are extracted again (main.c:217-222,*)
(* 235-240).                                                               *)
EditsSurvive == \A k \in edited : ~ aborted => k \in edited'

(* argv[] holds the words of the line, in order and each to its end: the   *)
(* runs of characters between blanks (main.c:272-291).                     *)
WordStarts(line) == {i \in 1 .. Len(line) : line[i] # " " /\ (i > 1 => line[i - 1] = " ")}
WordFrom(line, i) ==
  SubSeq(line, i, (CHOOSE e \in i .. Len(line) : (\A m \in i .. e : line[m] # " ")
                                                 /\ (e < Len(line) => line[e + 1] = " ")))
ArgvIsWords ==
  argv_of(rdbuf) = LET s == SetToSortSeq(WordStarts(rdbuf), <) IN [w \in DOMAIN s |-> WordFrom(rdbuf, s[w])]

(* What the shells run is what was installed or what the user made of it   *)
(* (main.c:197-240).                                                       *)
CommandsKept == []InstalledWhenMarked /\ [][EditsSurvive]_installVars
=============================================================================
