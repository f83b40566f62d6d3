------------------------------ MODULE MCDevices ------------------------------
(* The devices and the tasks behind them: the disk, the network card, the     *)
(* network task, the console, the graphics tasks, and the scheduler of noxis. *)
(* They share no state; a behaviour exercises one of them.                    *)
EXTENDS Hd, NicRing, NetServer, Console, Graphics, TaskSched

VARIABLE device
vars == <<device, hdVars, nicVars, netSrvVars, conVars, gfxVars, taskVars>>

(* A disk with one plain partition and two extended ones, of more logical     *)
(* partitions than the driver takes, and of one.                              *)
Part(id, start) == [id |-> id, start |-> start, nr |-> 4]
MCMbr == <<Part("0x99", 1), Part(EXT_PART, 10), Part("none", 0), Part(EXT_PART, 30)>>
MCEbr == [s \in 0 .. 40 |->
            CASE s = 10 -> <<Part("0x99", 1), Part(EXT_PART, 2)>>
              [] s = 12 -> <<Part("0x99", 1), Part(EXT_PART, 4)>>
              [] s = 14 -> <<Part("0x99", 1), Part(EXT_PART, 6)>>
              [] OTHER  -> <<Part("0x99", 1), Part("none", 0)>>]
MCRequests ==
  [type: {"READ", "WRITE"}, dev: {1, LogicalNr(2, 1)}, first: {0, 1}, sects: 1..3]
  \cup [type: {"DEV_OPEN", "DEV_CLOSE", "DEV_IOCTL"}, dev: {1}, first: {0}, sects: {1}]
MCDemos == {<<"sleeps", 1>>, <<"yields", 2>>}

Init ==
  /\ device \in {"disk", "card", "net", "console", "graphics", "noxis"}
  /\ HdInit /\ NicInit /\ NetInit /\ init_screen /\ GraphicsInit /\ task_init
Next ==
  \/ /\ device = "disk" /\ HdNext
     /\ UNCHANGED <<device, nicVars, netSrvVars, conVars, gfxVars, taskVars>>
  \/ /\ device = "card" /\ NicNext
     /\ UNCHANGED <<device, hdVars, netSrvVars, conVars, gfxVars, taskVars>>
  \/ /\ device = "net" /\ NetNext
     /\ UNCHANGED <<device, hdVars, nicVars, conVars, gfxVars, taskVars>>
  \/ /\ device = "console" /\ ConNext
     /\ UNCHANGED <<device, hdVars, nicVars, netSrvVars, gfxVars, taskVars>>
  \/ /\ device = "graphics" /\ GraphicsNext
     /\ UNCHANGED <<device, hdVars, nicVars, netSrvVars, conVars, taskVars>>
  \/ /\ device = "noxis" /\ TaskNext
     /\ UNCHANGED <<device, hdVars, nicVars, netSrvVars, conVars, gfxVars>>
(* NET is in one of its wait loops, which poll in every turn.                 *)
CardFairness ==
  /\ WF_nicVars(device = "card" /\ PollStep) /\ WF_nicVars(device = "card" /\ Acknowledge)
  /\ WF_nicVars(device = "card" /\ NicTask) /\ SF_nicVars(device = "card" /\ net_poll)
Spec == /\ Init /\ [][Next]_vars
        /\ HdFairness /\ CardFairness /\ NetFairness
        /\ ConFairness /\ GraphicsFairness /\ TaskFairness

(* Nobody waits for ever: a request to the disk is answered while the         *)
(* controller works (hd.c:482), the card's ring is emptied, those frames too  *)
(* whose interrupt was acknowledged with an earlier one (ne2000.c:160), a     *)
(* look-up or a ping that is not answered ends (net.c:132), the loop that     *)
(* scrolls a console ends (console.c:132), gfx_run() returns while the        *)
(* desktop has the screen (gfx.c:105), and a task of noxis that is asked to   *)
(* exit ends in its sleep (cpu/task.c:163).                                   *)
EveryoneReturns ==
  HdAnswers /\ RingDrained /\ NetReturns /\ OutputEnds /\ DemoReturns /\ KilledEnds
===============================================================================
