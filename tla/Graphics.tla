------------------------------ MODULE Graphics ------------------------------
(***************************************************************************)
(* Who owns the screen of 25-osfs11.  Programs ask task GFX for the demo   *)
(* (gfx_run()) and task DESKTOP for the desktop (desktop_start()); each    *)
(* enters graphics mode, draws into the one frame buffer, copies it to the *)
(* card bank by bank, polls ESC through TTY and restores the text mode     *)
(* (kernel/vga.c, gfx.c, desktop.c).  vga_enter_graphics() and             *)
(* vga_leave_graphics() run with interrupts disabled.                      *)
(*                                                                         *)
(* A frame is named for the task that drew it.  The pictures in the card   *)
(* overlay the memory of the text and of the font.                         *)
(***************************************************************************)
EXTENDS Integers, FiniteSets

CONSTANTS
  GFX, DESKTOP, NoTask,
  Prog,    \* programs that ask for graphics
  Banks    \* banks of the frame buffer

GTask == {GFX, DESKTOP}
ASSUME GraphicsAssumption == GFX # DESKTOP /\ NoTask \notin GTask /\ Banks \in Nat \ {0}

VARIABLES
  asked,            \* asked[p]: the task p has sent a request to, until it answers
  gPc, client,      \* of each task: where it is, and for whom
  graphics_active,
  bank,             \* the next bank vga_blit() copies
  frame,            \* vga_framebuffer
  vram,             \* what each bank of the card shows: text, or a task's frame
  saved,            \* saved_text, saved_font
  esc_pending,
  polled,           \* the answer of TTY to TTY_POLL_KEY
  ttyPoll,          \* kb_poll_esc(): its local, between the load and the store
  fresh             \* history: ESC was pressed since the owner discarded the old one
gfxVars == <<asked, gPc, client, graphics_active, bank, frame, vram, saved, esc_pending, polled, ttyPoll, fresh>>
screenVars == <<graphics_active, bank, frame, vram, saved>>
escVars == <<esc_pending, polled, ttyPoll, fresh>>

At(t, from, to) == gPc[t] = from /\ gPc' = [gPc EXCEPT ![t] = to]
Shows(x) == [b \in 1 .. Banks |-> x]
Inside == {"discard", "discarded", "draw", "blit", "poll", "polled", "leave"}

Ask(p, t) ==
  /\ asked[p] = NoTask /\ asked' = [asked EXCEPT ![p] = t]
  /\ UNCHANGED <<gPc, client, screenVars, escVars>>
\* task_gfx() and task_desktop() receive a request
Serve(t, p) ==
  /\ asked[p] = t /\ At(t, "idle", "enter") /\ client' = [client EXCEPT ![t] = p]
  /\ UNCHANGED <<asked, screenVars, escVars>>

vga_enter_graphics(t) ==
  /\ IF graphics_active
       THEN At(t, "enter", "reply") /\ UNCHANGED <<graphics_active, saved>>
       ELSE At(t, "enter", "discard") /\ graphics_active' = TRUE /\ saved' = vram
  /\ UNCHANGED <<asked, client, bank, frame, vram, escVars>>

(***************************************************************************)
(* ESC: IRQ1 sets the flag; gfx_poll_esc(), desktop_poll_esc() ask TTY.    *)
(***************************************************************************)
EscPressed ==
  /\ esc_pending' = TRUE /\ fresh' = TRUE
  /\ UNCHANGED <<asked, gPc, client, screenVars, polled, ttyPoll>>
LoadEsc(t) ==
  /\ gPc[t] \in {"discard", "poll"} /\ ttyPoll = "idle" /\ ttyPoll' = IF esc_pending THEN "pending" ELSE "none"
  /\ UNCHANGED <<asked, gPc, client, screenVars, esc_pending, polled, fresh>>
ClearEsc(t) ==
  /\ ttyPoll # "idle" /\ ttyPoll' = "idle" /\ esc_pending' = FALSE /\ polled' = (ttyPoll = "pending")
  /\ At(t, "discard", "discarded") \/ At(t, "poll", "polled")
  /\ UNCHANGED <<asked, client, screenVars, fresh>>
\* Mutation: the ESC that was pressed before is taken for one of its own.
DiscardNot(t) ==
  /\ gPc[t] = "discarded" /\ gPc' = [gPc EXCEPT ![t] = IF polled THEN "leave" ELSE "draw"] /\ fresh' = FALSE
  /\ UNCHANGED <<asked, client, screenVars, esc_pending, polled, ttyPoll>>
Discard(t) ==
  /\ At(t, "discarded", "draw") /\ fresh' = esc_pending
  /\ UNCHANGED <<asked, client, screenVars, esc_pending, polled, ttyPoll>>

(***************************************************************************)
(* A turn of the demo or of the desktop: draw, vga_blit(), poll.           *)
(***************************************************************************)
Draw(t) ==
  /\ At(t, "draw", "blit") /\ frame' = t /\ bank' = 1
  /\ UNCHANGED <<asked, client, graphics_active, vram, saved, escVars>>
vga_blit(t) ==
  /\ gPc[t] = "blit" /\ vram' = [vram EXCEPT ![bank] = frame]
  /\ IF bank = Banks THEN At(t, "blit", "poll") /\ UNCHANGED bank ELSE bank' = bank + 1 /\ UNCHANGED gPc
  /\ UNCHANGED <<asked, client, graphics_active, frame, saved, escVars>>
Turn(t) ==
  /\ gPc[t] = "polled" /\ gPc' = [gPc EXCEPT ![t] = IF polled THEN "leave" ELSE "draw"]
  /\ UNCHANGED <<asked, client, screenVars, escVars>>
\* the demo ends after GFX_PATTERN_TICKS + GFX_BALL_MAX_TICKS, the desktop by `exit'
DemoOver ==
  /\ At(GFX, "polled", "leave") /\ UNCHANGED <<asked, client, screenVars, escVars>>
ExitTyped ==
  /\ At(DESKTOP, "polled", "leave") /\ UNCHANGED <<asked, client, screenVars, escVars>>

vga_leave_graphics(t) ==
  /\ At(t, "leave", "reply") /\ graphics_active' = FALSE /\ vram' = saved
  /\ UNCHANGED <<asked, client, bank, frame, saved, escVars>>
\* Mutation: no answer to a program that is turned away.
ReplyNotRefused(t) ==
  /\ At(t, "reply", "idle") /\ asked' = IF graphics_active THEN asked ELSE [asked EXCEPT ![client[t]] = NoTask]
  /\ UNCHANGED <<client, screenVars, escVars>>
Reply(t) ==
  /\ At(t, "reply", "idle") /\ asked' = [asked EXCEPT ![client[t]] = NoTask]
  /\ UNCHANGED <<client, screenVars, escVars>>

GraphicsInit ==
  /\ asked = [p \in Prog |-> NoTask] /\ gPc = [t \in GTask |-> "idle"]
  /\ client = [t \in GTask |-> CHOOSE p \in Prog : TRUE]
  /\ graphics_active = FALSE /\ bank = 1 /\ frame = "none" /\ vram = Shows("text") /\ saved = Shows("none")
  /\ esc_pending = FALSE /\ polled = FALSE /\ ttyPoll = "idle" /\ fresh = FALSE
GStep(t) ==
  \/ \E p \in Prog : Serve(t, p)
  \/ vga_enter_graphics(t) \/ LoadEsc(t) \/ ClearEsc(t) \/ Discard(t)
  \/ Draw(t) \/ vga_blit(t) \/ Turn(t) \/ vga_leave_graphics(t) \/ Reply(t)
GraphicsNext ==
  (\E p \in Prog, t \in GTask : Ask(p, t)) \/ (\E t \in GTask : GStep(t)) \/ EscPressed \/ DemoOver \/ ExitTyped
\* the clock ends the demo; requests are received in the order they were sent
GraphicsFairness ==
  /\ WF_gfxVars(GStep(GFX)) /\ SF_gfxVars(DemoOver) /\ \A p \in Prog : SF_gfxVars(Serve(GFX, p))
-----------------------------------------------------------------------------
(* Properties *)

(* At most one task is in graphics mode, and graphics_active says so: the  *)
(* other is turned away before it has saved anything (vga.c:220-224).      *)
OneOwner ==
  /\ Cardinality({t \in GTask : gPc[t] \in Inside}) = IF graphics_active THEN 1 ELSE 0
  /\ ttyPoll # "idle" => graphics_active

(* In text mode the whole screen shows text: what was saved is the text,   *)
(* and not a picture of the other owner (vga.c:248-269).                   *)
TextRestored == ~ graphics_active => vram = Shows("text")

(* A frame on the screen is whole, and its owner's: the one frame buffer   *)
(* is not drawn into while another task copies it (vga.c:100-117).         *)
FrameWhole == \A t \in GTask : gPc[t] \in {"poll", "polled"} => vram = Shows(t)

(* An ESC pressed before the owner has discarded the old one does not end  *)
(* its session (desktop.c:127-131, gfx.c:111).                             *)
OnlyFreshEsc == \A t \in GTask : gPc[t] # "leave" /\ gPc'[t] = "leave" /\ polled => fresh

(* gfx_run() returns, also when the desktop has the screen (gfx.c:105-109).*)
DemoReturns == \A p \in Prog : asked[p] = GFX ~> asked[p] = NoTask

(* The screen is lent to one task at a time, who gives it back as it was,  *)
(* when it is asked to (vga.c:220-269, gfx.c:100-117, desktop.c:127-131).  *)
ScreenLent ==
  /\ [](OneOwner /\ TextRestored /\ FrameWhole)
  /\ [][OnlyFreshEsc]_gfxVars
=============================================================================
