----------------------------- MODULE Rendezvous -----------------------------
(***************************************************************************)
(* What the kernel's sendrec() promises to the processes: a message passes *)
(* from a process that sends it to one that receives from that sender or   *)
(* from ANY, in one step, whichever of the two came first; an interrupt is *)
(* a message of its own, remembered until its task asks for it.  Who runs  *)
(* when, the order of the senders and the layout of the process table are  *)
(* left open.  Ipc implements this specification; the models of the        *)
(* kernel's tasks are built on it.                                         *)
(***************************************************************************)
EXTENDS Integers

CONSTANTS
  Proc, ANY, INTERRUPT, NO_TASK,
  HardInt,          \* the message an interrupt arrives as
  SendTo,           \* SendTo[p]: the destinations p's code sends to
  RecvFrom,         \* RecvFrom[p]: the sources p's code receives from
  IntTask,          \* the tasks interrupts are reported to
  Types             \* message types that processes send

VARIABLES
  st,       \* what p is blocked in: [op |-> "run" | "send" | "recv", peer]
  box,      \* the MESSAGE p passed to its last system call
  pend,     \* an interrupt waits for the task
  stopped   \* the kernel has panicked (or worse)

rvVars == <<st, box, pend, stopped>>

Run          == [op |-> "run", peer |-> NO_TASK]
Blocked(o, x) == [op |-> o, peer |-> x]

Running(p)    == st[p].op = "run"
SendsTo(s, d) == st[s] = Blocked("send", d)
Accepts(d, s) == st[d].op = "recv" /\ st[d].peer \in {s, ANY}
AcceptsInt(t) == st[t].op = "recv" /\ st[t].peer \in {INTERRUPT, ANY}

\* Blocked senders already lead from dest to src.
Circle(src, dest) ==
  \A S \in SUBSET Proc :
    (dest \in S /\ \A x \in S : st[x].op = "send" => st[x].peer \in S) => src \in S

SendPanics(p, dest) == /\ Circle(p, dest)
                       /\ stopped' = TRUE
                       /\ UNCHANGED <<st, box, pend>>

SendNow(p, dest, m) == /\ ~Circle(p, dest)
                       /\ Accepts(dest, p)
                       /\ box' = [box EXCEPT ![p] = m, ![dest] = m]
                       /\ st' = [st EXCEPT ![dest] = Run]
                       /\ UNCHANGED <<pend, stopped>>

SendWait(p, dest, m) == /\ ~Circle(p, dest)
                        /\ ~Accepts(dest, p)
                        /\ box' = [box EXCEPT ![p] = m]
                        /\ st' = [st EXCEPT ![p] = Blocked("send", dest)]
                        /\ UNCHANGED <<pend, stopped>>

\* The senders a RECEIVE from src may take from.
Offers(p, src) == {s \in Proc : SendsTo(s, p) /\ src \in {s, ANY}}

TakesInt(p, src) == pend[p] /\ src \in {ANY, INTERRUPT}

ReceiveInt(p, src) == /\ TakesInt(p, src)
                      /\ box' = [box EXCEPT ![p] = HardInt]
                      /\ pend' = [pend EXCEPT ![p] = FALSE]
                      /\ UNCHANGED <<st, stopped>>

ReceiveNow(p, src) == /\ ~TakesInt(p, src)
                      /\ \E s \in Offers(p, src) :
                           /\ box' = [box EXCEPT ![p] = box[s]]
                           /\ st' = [st EXCEPT ![s] = Run]
                      /\ UNCHANGED <<pend, stopped>>

ReceiveWait(p, src) == /\ ~TakesInt(p, src)
                       /\ Offers(p, src) = {}
                       /\ box' = [box EXCEPT ![p].source = p]
                       /\ st' = [st EXCEPT ![p] = Blocked("recv", src)]
                       /\ UNCHANGED <<pend, stopped>>

Send(p, dest, m) ==
  SendPanics(p, dest) \/ SendNow(p, dest, m) \/ SendWait(p, dest, m)

Receive(p, src) == ReceiveInt(p, src) \/ ReceiveNow(p, src) \/ ReceiveWait(p, src)

\* An interrupt for t: delivered, or remembered once.
Notify(t) ==
  \/ /\ AcceptsInt(t)
     /\ box' = [box EXCEPT ![t] = HardInt]
     /\ st' = [st EXCEPT ![t] = Run]
     /\ pend' = [pend EXCEPT ![t] = FALSE]
     /\ UNCHANGED stopped
  \/ /\ ~AcceptsInt(t)
     /\ pend' = [pend EXCEPT ![t] = TRUE]
     /\ UNCHANGED <<st, box, stopped>>

-----------------------------------------------------------------------------
Init ==
  /\ st = [p \in Proc |-> Run]
  /\ \E type \in Types : box = [p \in Proc |-> [source |-> p, type |-> type]]
  /\ pend = [p \in Proc |-> FALSE]
  /\ stopped = FALSE

Next ==
  /\ ~stopped
  /\ \/ \E p \in Proc :
          /\ Running(p)
          /\ \/ \E dest \in SendTo[p], type \in Types :
                  Send(p, dest, [source |-> p, type |-> type])
             \/ \E src \in RecvFrom[p] : Receive(p, src)
     \/ \E t \in IntTask : Notify(t)

Spec == Init /\ [][Next]_rvVars
=============================================================================
