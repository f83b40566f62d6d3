------------------------------- MODULE VgaText -------------------------------
(***************************************************************************)
(* The text mode of the card, left and entered again (25-osfs11,           *)
(* kernel/vga.c), and the consoles that write its registers meanwhile      *)
(* (kernel/console.c).  The functions of vga.c disable interrupts and are  *)
(* one step each.  TTY asks whether there is graphics, for a key and again *)
(* in flush(), and acts on the answer later: there are steps in between.   *)
(*                                                                         *)
(* A register is named for a group of registers that are written together, *)
(* and its value for who gave it: text, font access, or the VBE mode.  The *)
(* card is in that the CRTC group "timing" (indices 0 to 7) ignores writes *)
(* while register 0x11 locks it, that the attribute controller takes index *)
(* and data at one port by turns and blanks the screen when an index comes *)
(* without bit 5, and that the memory at GFX_FB_BASE is the font only when *)
(* the sequencer and the graphics controller say so.                       *)
(***************************************************************************)
EXTENDS Integers, Sequences

CONSTANTS
  NR_CONS,        \* consoles
  ConWords        \* words of memory of each console
ASSUME VgaTextAssumption == NR_CONS \in Nat /\ NR_CONS > 1 /\ ConWords \in Nat \ {0}

VARIABLES
  vga,
  vga_active,                     \* graphics_active
  saved_regs, saved_text, saved_font, saved_palette,
  current_console, con_cursor, con_start,
  tty_step,                       \* what TTY is about to do, and for which console
  written,                        \* history: the text last written in text mode
  missed                          \* history: the registers last meant for the screen met graphics
modeVars == <<vga_active, saved_regs, saved_text, saved_font, saved_palette>>
consoleVars == <<current_console, con_cursor, con_start, tty_step, written, missed>>
vgaTextVars == <<vga, modeVars, consoleVars>>

Con == 0 .. NR_CONS - 1
WordsOf(con) == con * ConWords .. (con + 1) * ConWords - 1
\* in the order of vga_write_regs(); the attribute controller has the last two
Group == {"misc", "mask", "mode", "timing", "map", "palette", "select"}
Lost == 2                         \* what the memory holds when it is not text

(***************************************************************************)
(* The ports.                                                              *)
(***************************************************************************)
WriteReg(c, r, v) ==
  IF r = "timing" /\ c.locked THEN c ELSE [c EXCEPT !.reg = [c.reg EXCEPT ![r] = v]]
\* a read of VGA_AC_RDY
AcReady(c) == [c EXCEPT !.data_next = FALSE]
\* a write to VGA_AC_ADDR, of an index without bit 5 and of a value
AcIndex(c, r) ==
  IF c.data_next THEN [c EXCEPT !.data_next = FALSE, !.reg = [c.reg EXCEPT ![c.index] = r]]
                 ELSE [c EXCEPT !.data_next = TRUE, !.index = r, !.video = FALSE]
AcOn(c) ==
  IF c.data_next THEN [c EXCEPT !.data_next = FALSE, !.reg = [c.reg EXCEPT ![c.index] = "0x20"]]
                 ELSE [c EXCEPT !.data_next = TRUE, !.index = "palette", !.video = TRUE]
AcData(c, v) == [c EXCEPT !.data_next = FALSE, !.reg = [c.reg EXCEPT ![c.index] = v]]

vga_ac_enable_video(c) == AcOn(AcReady(c))

(***************************************************************************)
(* vga_save_regs() reads every register, and leaves the card as it found   *)
(* it but for the attribute index; vga_write_regs() puts them back.        *)
(***************************************************************************)
AfterSave(c) ==
  LET Read(k, r) == AcIndex(AcReady(k), r)
  IN  vga_ac_enable_video(Read(Read(c, "palette"), "select"))
Snapshot(c) == [reg |-> c.reg, locked |-> c.locked, cursor |-> c.cursor, start |-> c.start]

\* Mutation: the CRTC is not unlocked.
UnlockNot(c) == c
Unlock(c) == [c EXCEPT !.locked = FALSE]
\* every register of the CRTC but 0x11, then 0x11
WritePlain(c, s) ==
  LET Put(k, r) == WriteReg(k, r, s.reg[r])
      crtc == Put(Put(Put(Put(Unlock(c), "misc"), "mask"), "mode"), "timing")
  IN  [Put(crtc, "map") EXCEPT !.cursor = s.cursor, !.start = s.start, !.locked = s.locked]
vga_write_regs(c, s) ==
  LET Put(k, r) == AcData(AcIndex(AcReady(k), r), s.reg[r])
  IN  vga_ac_enable_video(Put(Put(WritePlain(c, s), "palette"), "select"))

vga_font_access(c) ==
  LET Put(k, r) == WriteReg(k, r, "font") IN Put(Put(Put(c, "mask"), "mode"), "map")
FontShown(c) == \A r \in {"mask", "mode", "map"} : c.reg[r] = "font"
TextShown(c) == \A r \in {"mask", "mode", "map"} : c.reg[r] = "text"
ToFont(c, f) == IF FontShown(c) THEN [c EXCEPT !.font = f] ELSE [c EXCEPT !.text = Lost]
ToText(c, t) == IF TextShown(c) THEN [c EXCEPT !.text = t] ELSE c

\* the card takes the VBE mode: registers of its own, locked or not
VbeMode(c, lock) ==
  [c EXCEPT !.reg = [r \in Group |-> IF r \in {"palette", "select"} THEN c.reg[r] ELSE "vbe"],
            !.locked = lock, !.start = 0]

(***************************************************************************)
(* Steps of task GFX or DESKTOP (one of them: module Graphics).            *)
(***************************************************************************)
FontMapped == vga_font_access(AfterSave(vga))
enter_text_saved ==
  /\ ~ vga_active /\ vga_active' = TRUE
  /\ saved_regs' = Snapshot(vga) /\ saved_text' = (IF TextShown(vga) THEN vga.text ELSE Lost)
  /\ saved_palette' = vga.dac
  /\ saved_font' = IF FontShown(FontMapped) THEN FontMapped.font ELSE Lost
  /\ \E lock \in BOOLEAN : vga' = vga_ac_enable_video([VbeMode(FontMapped, lock) EXCEPT !.dac = "colors16"])
  /\ UNCHANGED consoleVars
\* a picture covers the memory of the text and of the font
picture_blit ==
  /\ vga_active /\ vga' = [vga EXCEPT !.text = Lost, !.font = Lost]
  /\ UNCHANGED <<modeVars, consoleVars>>
leave_text_restored ==
  /\ vga_active /\ vga_active' = FALSE
  /\ LET font == ToFont(vga_font_access(vga_write_regs(vga, saved_regs)), saved_font) IN
     vga' = [ToText(vga_write_regs(font, saved_regs), saved_text) EXCEPT !.dac = saved_palette]
  /\ UNCHANGED <<saved_regs, saved_text, saved_font, saved_palette, consoleVars>>

(***************************************************************************)
(* Steps of task TTY.                                                      *)
(***************************************************************************)
set_cursor(c, position) == [c EXCEPT !.cursor = position]
set_video_start_addr(c, addr) == [c EXCEPT !.start = addr]
NothingToDo == <<"idle", 0>>
flush(con) == IF vga_active \/ con # current_console' THEN NothingToDo ELSE <<"flush", con>>
\* whether what flush() shows will be seen when graphics ends
Misses(con) == IF con = current_console' THEN vga_active ELSE missed

\* out_char() and scroll_screen(), as far as the card goes (see Console)
con_output(con) ==
  /\ tty_step = NothingToDo /\ UNCHANGED <<modeVars, current_console>>
  /\ \E cur \in WordsOf(con), start \in WordsOf(con), t \in {0, 1} :
       /\ con_cursor' = [con_cursor EXCEPT ![con] = cur]
       /\ con_start' = [con_start EXCEPT ![con] = start]
       /\ vga' = ToText(vga, t) /\ written' = IF vga_active THEN written ELSE t
  /\ tty_step' = flush(con) /\ missed' = Misses(con)
\* ALT+Fn: in_process() finds no graphics
select_key(con) ==
  /\ tty_step = NothingToDo /\ ~ vga_active /\ tty_step' = <<"select", con>>
  /\ UNCHANGED <<vga, modeVars, current_console, con_cursor, con_start, written, missed>>
select_console(con) ==
  /\ tty_step = <<"select", con>>
  /\ current_console' = con /\ tty_step' = flush(con) /\ missed' = Misses(con)
  /\ UNCHANGED <<vga, modeVars, con_cursor, con_start, written>>
\* the end of flush()
flush_writes(con) ==
  /\ tty_step = <<"flush", con>> /\ tty_step' = NothingToDo
  /\ vga' = set_video_start_addr(set_cursor(vga, con_cursor[con]), con_start[con])
  /\ missed' = vga_active
  /\ UNCHANGED <<modeVars, current_console, con_cursor, con_start, written>>

(***************************************************************************)
(* After init_screen() of every console and select_console(1).             *)
(***************************************************************************)
VgaTextInit ==
  /\ con_cursor = [con \in Con |-> con * ConWords] /\ con_start = con_cursor
  /\ current_console = 1 /\ vga_active = FALSE /\ tty_step = NothingToDo
  /\ vga = [reg |-> [r \in Group |-> "text"], locked |-> TRUE, cursor |-> con_cursor[1],
             start |-> con_start[1], data_next |-> FALSE, index |-> "palette", video |-> TRUE,
             text |-> 0, font |-> 0, dac |-> "text"]
  /\ saved_regs = Snapshot(vga) /\ saved_text = Lost /\ saved_font = Lost /\ saved_palette = "text"
  /\ written = 0 /\ missed = FALSE
VgaTextNext ==
  \/ enter_text_saved \/ picture_blit \/ leave_text_restored
  \/ \E con \in Con : con_output(con) \/ select_key(con) \/ select_console(con) \/ flush_writes(con)
-----------------------------------------------------------------------------
(* Properties *)

(* Back in text mode the card is as it was: every register, the lock, the  *)
(* font and the colours, through a lock that the VBE mode may have set and *)
(* the font's way in over the same registers (vga.c:153-209, 248-269).     *)
TextModeRestored ==
  ~ vga_active => /\ \A r \in Group : vga.reg[r] = "text"
                  /\ vga.locked /\ vga.font = 0 /\ vga.dac = "text"

(* The memory of the text is what was last written in text mode; what is   *)
(* written during graphics is gone (vga.c:226, 262).                       *)
TextKept == ~ vga_active => vga.text = written

(* The screen is never left blank: saving and restoring the attribute      *)
(* registers blanks it each time (vga.c:119-133).                          *)
VideoOn == vga.video

(* In text mode the cursor and the start of the screen are those of the    *)
(* current console, whichever console wrote meanwhile and however output   *)
(* and a change of console cross the start and the end of graphics.  What  *)
(* flush() gave up, or wrote, during graphics is not made up for at its    *)
(* end (console.c:309-318, vga.c:259).                                     *)
ScreenFollowsCurrent ==
  ~ vga_active /\ ~ missed /\ tty_step[1] # "flush" =>
    vga.cursor = con_cursor[current_console] /\ vga.start = con_start[current_console]

(* When graphics ends the console is back: card, text and the place in it  *)
(* (vga.c:248-269).                                                        *)
TextIsBack == TextModeRestored /\ TextKept /\ VideoOn /\ ScreenFollowsCurrent
=============================================================================
