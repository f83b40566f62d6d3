------------------------------- MODULE MCKernel -------------------------------
(***************************************************************************)
(* The two cores of the system, one at a time, for they share no state.    *)
(*                                                                         *)
(* "ipc": Ipc on a kernel of three tasks (TTY 0, HD 1, a server 2), one    *)
(* user process 3, one spinner 4 and a free slot 5.                        *)
(*                                                                         *)
(* "files": FS with two processes that open, close, create and remove      *)
(* files, fork and exit, on a disk that may lose its power.                *)
(***************************************************************************)
EXTENDS Ipc, FsFiles, TLC

\* The user calls the server and the terminal; the server calls the disk and
\* answers the user; everybody may be slow to receive.
MCSendTo ==
  [p \in Proc |-> CASE p = 0 -> {1, 2} [] p = 1 -> {}
                    [] p = 2 -> {1, 3} [] p = 3 -> {0, 2} [] OTHER -> {}]

MCRecvFrom ==
  [p \in Proc |-> CASE p = 0 -> {ANY} [] p = 1 -> {ANY, INTERRUPT}
                    [] p = 2 -> {ANY, 3} [] p = 3 -> {2} [] OTHER -> {}]

FsSymmetry == Permutations(FileName) \cup Permutations(FsProc)

\* A disk that was left torn is mounted and used by one process only: what is
\* still claimed of it are the types and the counts of the descriptors.
OneWhenTorn == torn => Cardinality(fsAlive) < 2

VARIABLE core
coreVars == <<core, vars, fsFilesVars>>
CoreInit == core \in {"ipc", "files"} /\ Init /\ FsFilesInit
CoreNext ==
  \/ core = "ipc" /\ Next /\ UNCHANGED <<core, fsFilesVars>>
  \/ core = "files" /\ FsFilesNext /\ UNCHANGED <<core, vars>>
  \/ core = "files" /\ UNCHANGED coreVars     \* its bounds may end a behaviour
CoreSpec == CoreInit /\ [][CoreNext]_coreVars
===============================================================================
