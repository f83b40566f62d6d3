------------------------------ MODULE NicRing ------------------------------
(***************************************************************************)
(* The NE2000 driver of 25-osfs11 (net/ne2000.c).  ne2000_poll() moves the *)
(* frames of the card's ring of pages to the ring sw_ring in memory.  Both *)
(* task NET and the interrupt handler call it, with the same registers and *)
(* the same sw_head; ne2000_send() masks the interrupt around its use of   *)
(* the card's memory, ne2000_poll() does not.                              *)
(*                                                                         *)
(* Every frame fills one page.  A remote DMA moves its words one by one in *)
(* the code; here it is set up in one step and moves them in the next.     *)
(* Once the handler has come inside NET's own poll (`nested`) the steps    *)
(* are too coarse for what else the code may then do (its page select and  *)
(* its copy of sw_head go stale too), and nothing is said of the frames.   *)
(***************************************************************************)
EXTENDS Integers, Sequences, FiniteSets

CONSTANTS
  RX_PAGES,       \* RX_STOP - RX_START
  SW_RING,
  POLL_MAX,       \* frames that one call takes at most (32)
  MaxFrames,      \* bound on the frames that arrive
  MaxNested       \* bound on them once the handler has come inside NET's poll

ASSUME NicAssumption ==
  /\ RX_PAGES \in Nat \ {0, 1} /\ SW_RING \in Nat \ {0, 1} /\ POLL_MAX \in Nat \ {0}
  /\ MaxFrames \in Nat /\ MaxNested \in Nat

VARIABLES
  ring, curr, bnry,  \* the card: frame in each page, CURR, BNRY
  prx, irq,          \* ISR_PRX; the request the PIC has latched
  unmasked,          \* enable_irq, disable_irq
  dma, txbuf, sent,  \* remote DMA: who set it up; transmit page; last frame sent
  sw_ring, sw_head, sw_tail,
  netPc,             \* NET: idle, poll, recv, or a step of ne2000_send()
  inIrq,             \* ne2000_irq(): no, poll, ack
  poll,              \* poll[c]: locals of ne2000_poll() in context c
  arrived, taken, dropped, \* history: frames that came, were received, found sw_ring full
  nested             \* history: the handler has come inside NET's own ne2000_poll()
cardVars == <<ring, curr, bnry, prx, irq>>
txVars   == <<unmasked, txbuf, sent>>
swVars   == <<sw_ring, sw_head, sw_tail>>
nicVars == <<cardVars, txVars, dma, swVars, netPc, inIrq, poll, arrived, taken, dropped,
             nested>>

Context == {"task", "irq"}
NextPage(p) == (p + 1) % RX_PAGES
NoPoll == [at |-> "off", bnry |-> 0, n |-> 0]
Frames == 1 .. MaxFrames
InCard == {ring[(bnry + k) % RX_PAGES] : k \in 1 .. ((curr - bnry) + RX_PAGES - 1) % RX_PAGES}
InMemory == {sw_ring[(sw_tail + k) % SW_RING] : k \in 0 .. (((sw_head - sw_tail) + SW_RING) % SW_RING) - 1}

(***************************************************************************)
(* The card stores a frame while the page after CURR is not BNRY.          *)
(***************************************************************************)
CardReceives ==
  /\ arrived < (IF nested THEN MaxNested ELSE MaxFrames) /\ NextPage(curr) # bnry
  /\ arrived' = arrived + 1 /\ ring' = [ring EXCEPT ![curr] = arrived + 1]
  /\ curr' = NextPage(curr) /\ prx' = TRUE /\ irq' = (irq \/ ~ prx)
  /\ UNCHANGED <<bnry, txVars, dma, swVars, netPc, inIrq, poll, taken, dropped, nested>>

(***************************************************************************)
(* ne2000_poll() in context c.  The task waits while the handler runs.     *)
(***************************************************************************)
Runs(c) == c = "irq" \/ inIrq = "no"
Returns(c) ==
  IF c = "task" THEN netPc' = "recv" /\ UNCHANGED inIrq ELSE inIrq' = "ack" /\ UNCHANGED netPc
ReadBnry(c) == [at |-> "curr", bnry |-> bnry, n |-> 0]

ReadCurr(c) ==
  LET pkt == NextPage(poll[c].bnry) IN
  /\ Runs(c) /\ poll[c].at = "curr"
  /\ IF pkt = curr \/ poll[c].n = POLL_MAX
       THEN poll' = [poll EXCEPT ![c] = NoPoll] /\ Returns(c) /\ UNCHANGED dma
       ELSE /\ poll' = [poll EXCEPT ![c].at = "push"]
            /\ dma' = c /\ UNCHANGED <<netPc, inIrq>>
  /\ UNCHANGED <<cardVars, txVars, swVars, arrived, taken, dropped, nested>>

(* A DMA that the handler has used meanwhile gives the task whatever the   *)
(* card's memory holds: another header, with another next page, or none    *)
(* that passes for one.                                                    *)
Push(c) ==
  LET got == IF dma = c THEN ring[NextPage(poll[c].bnry)] ELSE 0
      push == (sw_head + 1) % SW_RING IN
  /\ Runs(c) /\ poll[c].at = "push"
  /\ IF push # sw_tail
       THEN /\ sw_ring' = [sw_ring EXCEPT ![sw_head] = got]
            /\ sw_head' = push /\ UNCHANGED dropped
       ELSE dropped' = dropped \cup {got} /\ UNCHANGED <<sw_ring, sw_head>>
  /\ \E b \in IF dma = c THEN {poll[c].bnry} ELSE 0 .. RX_PAGES - 1 :
       poll' = [poll EXCEPT ![c].at = "advance", ![c].bnry = b]
  /\ UNCHANGED <<cardVars, txVars, dma, sw_tail, netPc, inIrq, arrived, taken, nested>>
Corrupted(c) ==
  /\ Runs(c) /\ poll[c].at = "push" /\ dma # c
  /\ poll' = [poll EXCEPT ![c] = NoPoll] /\ Returns(c)
  /\ UNCHANGED <<cardVars, txVars, dma, swVars, arrived, taken, dropped, nested>>

\* Mutation: BNRY stays where it was.
AdvanceNot(c) ==
  /\ Runs(c) /\ poll[c].at = "advance"
  /\ poll' = [poll EXCEPT ![c] = [at |-> "curr", bnry |-> bnry, n |-> @.n + 1]]
  /\ UNCHANGED <<cardVars, txVars, dma, swVars, netPc, inIrq, arrived, taken, dropped, nested>>
Advance(c) ==
  LET pkt == NextPage(poll[c].bnry) IN
  /\ Runs(c) /\ poll[c].at = "advance"
  /\ bnry' = pkt
  /\ poll' = [poll EXCEPT ![c] = [at |-> "curr", bnry |-> pkt, n |-> @.n + 1]]
  /\ UNCHANGED <<ring, curr, prx, irq, txVars, dma, swVars, netPc, inIrq, arrived, taken, dropped, nested>>

(***************************************************************************)
(* ne2000_irq(): the bits it has read are acknowledged at its end.         *)
(***************************************************************************)
ne2000_irq ==
  /\ irq /\ unmasked /\ inIrq = "no" /\ irq' = FALSE
  /\ nested' = (nested \/ netPc = "poll")
  /\ inIrq' = "poll" /\ poll' = [poll EXCEPT !["irq"] = ReadBnry("irq")]
  /\ UNCHANGED <<ring, curr, bnry, prx, txVars, dma, swVars, netPc, arrived, taken, dropped>>
Acknowledge ==
  /\ inIrq = "ack" /\ inIrq' = "no" /\ prx' = FALSE
  /\ UNCHANGED <<ring, curr, bnry, irq, txVars, dma, swVars, netPc, poll, arrived, taken, dropped, nested>>

(***************************************************************************)
(* Task NET: net_poll() polls and drains sw_ring; ne2000_send().           *)
(***************************************************************************)
Task(from) == inIrq = "no" /\ netPc = from
\* Mutation: net_poll() only drains sw_ring and leaves the card to the interrupt.
net_pollSoftOnly ==
  /\ Task("idle") /\ netPc' = "recv"
  /\ UNCHANGED <<cardVars, txVars, dma, swVars, inIrq, poll, arrived, taken, dropped, nested>>
net_poll ==
  /\ Task("idle") /\ netPc' = "poll" /\ poll' = [poll EXCEPT !["task"] = ReadBnry("task")]
  /\ UNCHANGED <<cardVars, txVars, dma, swVars, inIrq, arrived, taken, dropped, nested>>
ne2000_recv ==
  /\ Task("recv")
  /\ IF sw_tail = sw_head THEN netPc' = "idle" /\ UNCHANGED <<taken, sw_tail>>
     ELSE /\ taken' = Append(taken, sw_ring[sw_tail]) /\ sw_tail' = (sw_tail + 1) % SW_RING
          /\ UNCHANGED netPc
  /\ UNCHANGED <<cardVars, txVars, dma, sw_ring, sw_head, inIrq, poll, arrived, dropped, nested>>
ne2000_send ==
  /\ Task("idle") /\ netPc' = "write" /\ dma' = "send" /\ unmasked' = FALSE
  /\ UNCHANGED <<cardVars, txbuf, sent, swVars, inIrq, poll, arrived, taken, dropped, nested>>
remote_write ==
  /\ Task("write") /\ netPc' = "transmit"
  /\ txbuf' = IF dma = "send" THEN "frame" ELSE "garbage"
  /\ UNCHANGED <<cardVars, dma, unmasked, sent, swVars, inIrq, poll, arrived, taken, dropped, nested>>
Transmit ==
  /\ Task("transmit") /\ netPc' = "idle" /\ sent' = txbuf /\ unmasked' = TRUE
  /\ UNCHANGED <<cardVars, txbuf, dma, swVars, inIrq, poll, arrived, taken, dropped, nested>>

NicInit ==
  /\ ring = [p \in 0 .. RX_PAGES - 1 |-> 0] /\ curr = 0 /\ bnry = RX_PAGES - 1
  /\ prx = FALSE /\ irq = FALSE /\ unmasked = TRUE
  /\ dma = "task" /\ txbuf = "empty" /\ sent = "empty"
  /\ sw_ring = [i \in 0 .. SW_RING - 1 |-> 0] /\ sw_head = 0 /\ sw_tail = 0
  /\ netPc = "idle" /\ inIrq = "no" /\ poll = [c \in Context |-> NoPoll]
  /\ arrived = 0 /\ taken = <<>> /\ dropped = {} /\ nested = FALSE
PollStep == \E c \in Context : ReadCurr(c) \/ Push(c) \/ Corrupted(c) \/ Advance(c)
NicTask == ne2000_recv \/ remote_write \/ Transmit
NicNext == CardReceives \/ PollStep \/ ne2000_irq \/ Acknowledge \/ NicTask \/ net_poll \/ ne2000_send
-----------------------------------------------------------------------------
(* Properties *)

NicTypeOK ==
  /\ curr \in 0 .. RX_PAGES - 1 /\ bnry \in 0 .. RX_PAGES - 1
  /\ sw_head \in 0 .. SW_RING - 1 /\ sw_tail \in 0 .. SW_RING - 1
  /\ netPc \in {"idle", "poll", "recv", "write", "transmit"} /\ inIrq \in {"no", "poll", "ack"}

(* NET receives frames in the order they came, each at most once, with the *)
(* handler and the task taking turns on both rings: "Called both from the  *)
(* IRQ handler and from the NET task's poll loops (both advances are       *)
(* idempotent)" (ne2000.c:162-163).                                        *)
FramesOnceInOrder == \A i, j \in DOMAIN taken : i < j => taken[i] < taken[j]

(* No frame vanishes: one that the card stored waits in the card, waits in *)
(* memory, was received, or came when sw_ring was full (ne2000.c:204).     *)
FramesAccounted ==
  1 .. arrived = InCard \cup InMemory \cup {taken[i] : i \in DOMAIN taken} \cup dropped

(* What is transmitted is what was written to the card: no interrupt uses  *)
(* the remote DMA between its set-up and its last word (ne2000.c:313).     *)
TransmitIntact == sent # "garbage"

(* While NET polls, the card's ring is emptied once frames stop to arrive,  *)
(* those too whose interrupt was acknowledged by the handler of an earlier  *)
(* one, or that were left over by the limit of a call.                      *)
RingDrained == InCard # {} ~> (InCard = {} \/ nested)

(* The card's frames reach NET whole, once and in order, and the others    *)
(* are accounted for, wherever the handler comes outside NET's own poll    *)
(* and until it comes inside: what the two do to bnry, sw_head and the     *)
(* remote DMA there may break them (ne2000.c:165-217).  A transmitted      *)
(* frame is whole even then (ne2000.c:313).                                *)
FramesServed ==
  NicTypeOK /\ TransmitIntact /\ (~ nested => FramesOnceInOrder /\ FramesAccounted)
=============================================================================
