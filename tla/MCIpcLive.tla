----------------------------- MODULE MCIpcLive -----------------------------
(***************************************************************************)
(* Ipc with a server 0 (also the terminal's task), a disk task 1, a client *)
(* 2 and two spinners 3 and 4: enough for runnable processes that compete. *)
(***************************************************************************)
EXTENDS Ipc

MCSendTo ==
  [p \in Proc |-> CASE p = 0 -> {2} [] p = 2 -> {0} [] OTHER -> {}]

MCRecvFrom ==
  [p \in Proc |-> CASE p = 0 -> {ANY} [] p = 1 -> {INTERRUPT}
                    [] p = 2 -> {0} [] OTHER -> {}]

=============================================================================
