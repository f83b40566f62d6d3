-------------------------------- MODULE Mouse --------------------------------
(***************************************************************************)
(* The PS/2 mouse of 25-osfs11 (kernel/mouse.c).  The mouse sends packets  *)
(* of three bytes; mouse_handler() collects them and moves the pointer.  A *)
(* byte may be lost: the controller holds one, and it is shared with the   *)
(* keyboard, whose driver reads it while it waits for an acknowledgement.  *)
(*                                                                         *)
(* Bytes are numbers, a bit of one is Bit(b, i).                           *)
(***************************************************************************)
EXTENDS Integers, Sequences

CONSTANTS
  GFX_FB_W, GFX_FB_H,
  Moves,      \* the movements <<dx, dy>> in one packet
  Overflows,  \* packets with an overflow bit are sent too
  MaxLost     \* bound on the bytes lost

ASSUME MouseAssumption ==
  /\ GFX_FB_W \in Nat \ {0} /\ GFX_FB_H \in Nat \ {0} /\ MaxLost \in Nat
  /\ \A m \in Moves : m[1] \in -128 .. 127 /\ m[2] \in -128 .. 127

VARIABLES
  mouse_x, mouse_y, mouse_buttons, mouse_cycle, mouse_packet,
  sending,   \* bytes of its packet that the mouse has yet to send
  nLost,     \* bound
  intended,  \* history: <<dx, dy, buttons>> of the packet being sent
  calm,      \* history: bytes received since one was lost or a data byte had bit 3 set
  whole      \* history: this packet is read from its first byte on, and none of it was lost
mouseVars == <<mouse_x, mouse_y, mouse_buttons, mouse_cycle, mouse_packet, sending, nLost, intended, calm, whole>>

Weight == <<1, 2, 4, 8, 16, 32, 64, 128>>
Bit(b, i) == (b \div Weight[i + 1]) % 2
Truth(b) == IF b THEN 1 ELSE 0
Clamp(v, size) == IF v < 0 THEN 0 ELSE IF v >= size THEN size - 1 ELSE v
CALM == 4  \* calm is counted up to this

\* what the mouse sends for a movement (external)
Packet(m, buttons, over) ==
  <<8 + buttons + 16 * Truth(m[1] < 0) + 32 * Truth(m[2] < 0) + 64 * over, m[1] % 256, m[2] % 256>>
Aligned == mouse_cycle = (IF sending = <<>> THEN 0 ELSE 3 - Len(sending))

Movement(header, data, sign) == IF Bit(header, sign) = 1 THEN data - 256 ELSE data

(***************************************************************************)
(* mouse_handler(): a byte with the bit of the mouse in the status.        *)
(***************************************************************************)
\* Mutation: any byte is taken for a header.
HeaderAny(data) ==
  /\ mouse_cycle = 0
  /\ mouse_packet' = [mouse_packet EXCEPT ![0] = data] /\ mouse_cycle' = 1
  /\ UNCHANGED <<mouse_x, mouse_y, mouse_buttons>>
Header(data) ==
  /\ mouse_cycle = 0
  /\ IF Bit(data, 3) = 1
       THEN mouse_packet' = [mouse_packet EXCEPT ![0] = data] /\ mouse_cycle' = 1
       ELSE UNCHANGED <<mouse_packet, mouse_cycle>>
  /\ UNCHANGED <<mouse_x, mouse_y, mouse_buttons>>
Second(data) ==
  /\ mouse_cycle = 1 /\ mouse_cycle' = 2
  /\ mouse_packet' = [mouse_packet EXCEPT ![1] = data]
  /\ UNCHANGED <<mouse_x, mouse_y, mouse_buttons>>
Third(data) ==
  LET header == mouse_packet[0] IN
  /\ mouse_cycle = 2 /\ mouse_cycle' = 0
  /\ mouse_packet' = [mouse_packet EXCEPT ![2] = data]
  /\ IF Bit(header, 6) = 1 \/ Bit(header, 7) = 1
       THEN UNCHANGED <<mouse_x, mouse_y, mouse_buttons>>
       ELSE /\ mouse_buttons' = header % 8
            /\ mouse_x' = Clamp(mouse_x + Movement(header, mouse_packet[1], 4), GFX_FB_W)
            /\ mouse_y' = Clamp(mouse_y - Movement(header, data, 5), GFX_FB_H)
mouse_handler ==
  LET data == Head(sending) IN
  /\ sending # <<>> /\ sending' = Tail(sending)
  /\ calm' = IF Len(sending) < 3 /\ Bit(data, 3) = 1 THEN 0 ELSE IF calm < CALM THEN calm + 1 ELSE CALM
  /\ whole' = IF Len(sending) = 3 THEN mouse_cycle = 0 ELSE whole
  /\ Header(data) \/ Second(data) \/ Third(data)
  /\ UNCHANGED <<nLost, intended>>

MouseMoves ==
  /\ sending = <<>>
  /\ \E m \in Moves, buttons \in {0, 1}, over \in (IF Overflows THEN {0, 1} ELSE {0}) :
       /\ sending' = Packet(m, buttons, over)
       /\ intended' = IF over = 1 THEN <<0, 0, mouse_buttons>> ELSE <<m[1], m[2], buttons>>
  /\ UNCHANGED <<mouse_x, mouse_y, mouse_buttons, mouse_cycle, mouse_packet, nLost, calm, whole>>
ByteLost ==
  /\ sending # <<>> /\ sending' = Tail(sending) /\ nLost < MaxLost /\ nLost' = nLost + 1
  /\ calm' = 0 /\ whole' = FALSE
  /\ UNCHANGED <<mouse_x, mouse_y, mouse_buttons, mouse_cycle, mouse_packet, intended>>

mouse_init ==
  /\ mouse_x = GFX_FB_W \div 2 /\ mouse_y = GFX_FB_H \div 2 /\ mouse_buttons = 0
  /\ mouse_cycle = 0 /\ mouse_packet = [i \in 0 .. 2 |-> 0]
  /\ sending = <<>> /\ nLost = 0 /\ intended = <<0, 0, 0>> /\ calm = CALM /\ whole = TRUE
MouseNext == mouse_handler \/ MouseMoves \/ ByteLost
-----------------------------------------------------------------------------
(* Properties *)

(* After a loss the packets are found again (mouse.c:177-181): once four   *)
(* bytes have come of which no data byte has bit 3 set, the first byte of  *)
(* a packet is taken for the first.  A mouse that goes on to move by 8 may *)
(* be misread for as long as it does.                                      *)
Realigned == calm = CALM => Aligned

(* A packet that is read from its first byte on moves the pointer by the   *)
(* movement that the mouse meant, Y upwards, no further than the edge, and *)
(* an overflown one does not move it at all (mouse.c:203-223).             *)
MovesAsMeant ==
  mouse_cycle = 2 /\ mouse_cycle' = 0 /\ whole =>
    /\ mouse_x' = Clamp(mouse_x + intended[1], GFX_FB_W)
    /\ mouse_y' = Clamp(mouse_y - intended[2], GFX_FB_H)
    /\ mouse_buttons' = intended[3]

(* Garbage after a loss leaves the pointer on the screen.                  *)
PointerOnScreen == mouse_x \in 0 .. GFX_FB_W - 1 /\ mouse_y \in 0 .. GFX_FB_H - 1

(* The pointer follows the mouse, and finds back to it after a loss        *)
(* (mouse.c:177-223).                                                      *)
PointerFaithful ==
  /\ [](Realigned /\ PointerOnScreen)
  /\ [][MovesAsMeant]_mouseVars
=============================================================================
