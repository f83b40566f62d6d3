------------------------------ MODULE DesktopProofs ------------------------------
(***************************************************************************)
(* What the devices of the user keep in 25-osfs11 for all sizes, keys and  *)
(* numbers of windows: the keyboard decoder, the text mode of the card     *)
(* that is left and entered again, the mouse, who owns the screen, the     *)
(* windows, the terminal window and the console.                           *)
(***************************************************************************)
EXTENDS KeyDecode, VgaText, Mouse, Graphics, Windows, Terminal, Console, SequenceTheorems, FiniteSetTheorems, TLAPS

(***************************************************************************)
(* The card in text mode and in graphics: what each operation on its       *)
(* registers leaves.                                                       *)
(***************************************************************************)
VgaTextSpec == VgaTextInit /\ [][VgaTextNext]_vgaTextVars

Value == {"text", "font", "vbe", "0x20", "palette", "select"}
Colours == {"text", "colors16"}
Card ==
  [reg : [Group -> Value], locked : BOOLEAN, cursor : Int, start : Int, data_next : BOOLEAN,
   index : {"palette", "select"}, video : BOOLEAN, text : Int, font : Int, dac : Colours]
Regs == [reg : [Group -> Value], locked : BOOLEAN, cursor : Int, start : Int]
TextRegs == [r \in Group |-> "text"]
VgaTypes ==
  /\ vga \in Card /\ vga_active \in BOOLEAN
  /\ saved_regs \in Regs /\ saved_text \in Int /\ saved_font \in Int /\ saved_palette \in Colours
  /\ current_console \in Con /\ con_cursor \in [Con -> Int] /\ con_start \in [Con -> Int]
  /\ tty_step \in {"idle", "select", "flush"} \X Con
  /\ written \in Int /\ missed \in BOOLEAN
\* what the text mode is, in the card or, during graphics, in what was saved of it
CardSound ==
  IF vga_active
    THEN /\ saved_regs.reg = TextRegs /\ saved_regs.locked
         /\ saved_text = written /\ saved_font = 0 /\ saved_palette = "text"
    ELSE /\ vga.reg = TextRegs /\ vga.locked
         /\ vga.text = written /\ vga.font = 0 /\ vga.dac = "text"
\* the place of the current console, there too, unless flush() is still to write it
PlaceSound ==
  LET place == IF vga_active THEN <<saved_regs.cursor, saved_regs.start>> ELSE <<vga.cursor, vga.start>> IN
  /\ tty_step[1] = "flush" => tty_step[2] = current_console
  /\ ~ missed /\ tty_step[1] # "flush" => place = <<con_cursor[current_console], con_start[current_console]>>
VgaInv == VgaTypes /\ CardSound /\ VideoOn /\ PlaceSound

\* vga_ac_enable_video() turns the video on and changes no register.
LEMMA EnablesVideo ==
  ASSUME NEW c \in Card
  PROVE  vga_ac_enable_video(c) = [c EXCEPT !.data_next = TRUE, !.index = "palette", !.video = TRUE]
  BY DEF vga_ac_enable_video, AcReady, AcOn, Card

\* A write of an attribute register, index and value.
LEMMA AttributePut ==
  ASSUME NEW c \in Card, NEW r \in {"palette", "select"}, NEW v \in Value
  PROVE  AcData(AcIndex(AcReady(c), r), v) =
           [c EXCEPT !.data_next = FALSE, !.index = r, !.video = FALSE, !.reg = [c.reg EXCEPT ![r] = v]]
  BY DEF AcData, AcReady, AcIndex, Card

LEMMA WritePut ==
  ASSUME NEW c \in Card, NEW r \in Group, NEW v \in Value, r # "timing" \/ ~ c.locked
  PROVE  WriteReg(c, r, v) = [c EXCEPT !.reg = [c.reg EXCEPT ![r] = v]]
  BY DEF WriteReg, Card

\* vga_save_regs() leaves the registers, with the video on.
LEMMA SaveKeeps ==
  ASSUME NEW c \in Card
  PROVE  AfterSave(c) = [c EXCEPT !.data_next = TRUE, !.index = "palette", !.video = TRUE]
<1> DEFINE r1 == [c EXCEPT !.data_next = TRUE, !.index = "palette", !.video = FALSE]
           r2 == [c EXCEPT !.data_next = TRUE, !.index = "select", !.video = FALSE]
<1>1. AcIndex(AcReady(c), "palette") = r1 /\ r1 \in Card
  BY DEF AcIndex, AcReady, Card
<1>2. AcIndex(AcReady(r1), "select") = r2 /\ r2 \in Card
  BY DEF AcIndex, AcReady, Card
<1>3. vga_ac_enable_video(r2) = [r2 EXCEPT !.data_next = TRUE, !.index = "palette", !.video = TRUE]
  BY <1>2, EnablesVideo
<1>4. [r2 EXCEPT !.data_next = TRUE, !.index = "palette", !.video = TRUE]
        = [c EXCEPT !.data_next = TRUE, !.index = "palette", !.video = TRUE]
  BY DEF Card
<1> QED  BY <1>1, <1>2, <1>3, <1>4 DEF AfterSave

\* vga_write_regs() puts back every register that was saved, locked or not, with the video on.
LEMMA RegsPutBack ==
  ASSUME NEW c \in Card, NEW s \in Regs
  PROVE  vga_write_regs(c, s) =
           [c EXCEPT !.reg = s.reg, !.locked = s.locked, !.cursor = s.cursor, !.start = s.start,
                     !.data_next = TRUE, !.index = "palette", !.video = TRUE]
<1> DEFINE Put(k, r) == WriteReg(k, r, s.reg[r])
           g1 == [c.reg EXCEPT !["misc"] = s.reg["misc"]]
           g2 == [g1 EXCEPT !["mask"] = s.reg["mask"]]
           g3 == [g2 EXCEPT !["mode"] = s.reg["mode"]]
           g4 == [g3 EXCEPT !["timing"] = s.reg["timing"]]
           g5 == [g4 EXCEPT !["map"] = s.reg["map"]]
           g6 == [g5 EXCEPT !["palette"] = s.reg["palette"]]
           g7 == [g6 EXCEPT !["select"] = s.reg["select"]]
           K(g) == [c EXCEPT !.locked = FALSE, !.reg = g]
           P == [c EXCEPT !.reg = g5, !.locked = s.locked, !.cursor = s.cursor, !.start = s.start]
           A(g, i) == [c EXCEPT !.reg = g, !.locked = s.locked, !.cursor = s.cursor, !.start = s.start,
                             !.data_next = FALSE, !.index = i, !.video = FALSE]
<1>1. s.reg \in [Group -> Value] /\ c.reg \in [Group -> Value] /\ \A r \in Group : s.reg[r] \in Value
  BY DEF Card, Regs
<1>2. /\ g1 \in [Group -> Value] /\ g2 \in [Group -> Value] /\ g3 \in [Group -> Value] /\ g4 \in [Group -> Value]
      /\ g5 \in [Group -> Value] /\ g6 \in [Group -> Value] /\ g7 \in [Group -> Value]
  BY <1>1 DEF Group
<1>3. g7 = s.reg
  BY <1>1, <1>2 DEF Group
<1>4. ASSUME NEW g \in [Group -> Value], NEW r \in Group
      PROVE  Put(K(g), r) = K([g EXCEPT ![r] = s.reg[r]])
  <2>1. K(g) \in Card /\ ~ K(g).locked /\ K(g).reg = g
    BY DEF Card
  <2>2. Put(K(g), r) = [K(g) EXCEPT !.reg = [g EXCEPT ![r] = s.reg[r]]]
    <3> HIDE DEF K
    <3>1. s.reg[r] \in Value
      BY <1>1
    <3>2. WriteReg(K(g), r, s.reg[r]) = [K(g) EXCEPT !.reg = [K(g).reg EXCEPT ![r] = s.reg[r]]]
      BY <2>1, <3>1 DEF WriteReg
    <3> QED  BY <2>1, <3>2
  <2> QED  BY <2>2 DEF Card
<1>5. Unlock(c) = K(c.reg)
  BY DEF Unlock, Card
<1> HIDE DEF g1, g2, g3, g4, g5, g6, g7
<1>6. Put(Unlock(c), "misc") = K(g1)
  BY <1>1, <1>4, <1>5, ZenonT(40) DEF g1, Group
<1>7. Put(K(g1), "mask") = K(g2)
  BY <1>2, <1>4 DEF g2, Group
<1>8. Put(K(g2), "mode") = K(g3)
  BY <1>2, <1>4 DEF g3, Group
<1>9. Put(K(g3), "timing") = K(g4)
  BY <1>2, <1>4 DEF g4, Group
<1>10. Put(K(g4), "map") = K(g5)
  BY <1>2, <1>4 DEF g5, Group
<1>11. WritePlain(c, s) = [K(g5) EXCEPT !.cursor = s.cursor, !.start = s.start, !.locked = s.locked]
  <2> HIDE DEF K
  <2> QED  BY <1>6, <1>7, <1>8, <1>9, <1>10 DEF WritePlain
<1>12. WritePlain(c, s) = P /\ P \in Card
  <2>1. [K(g5) EXCEPT !.cursor = s.cursor, !.start = s.start, !.locked = s.locked] = P
    BY DEF Card
  <2>2. P \in Card
    BY <1>2 DEF Card, Regs
  <2> QED  BY <2>1, <2>2, <1>11
<1>13. AcData(AcIndex(AcReady(P), "palette"), s.reg["palette"]) = A(g6, "palette")
  <2>1. AcData(AcIndex(AcReady(P), "palette"), s.reg["palette"])
          = [P EXCEPT !.data_next = FALSE, !.index = "palette", !.video = FALSE,
                      !.reg = [P.reg EXCEPT !["palette"] = s.reg["palette"]]]
    BY <1>1, <1>12, AttributePut DEF Group
  <2>2. P.reg = g5
    BY DEF Card
  <2> QED  BY <2>1, <2>2 DEF Card, g6
<1>14. A(g6, "palette") \in Card /\ A(g7, "select") \in Card
  BY <1>2 DEF Card, Regs
<1>15. AcData(AcIndex(AcReady(A(g6, "palette")), "select"), s.reg["select"]) = A(g7, "select")
  <2>1. AcData(AcIndex(AcReady(A(g6, "palette")), "select"), s.reg["select"])
          = [A(g6, "palette") EXCEPT !.data_next = FALSE, !.index = "select", !.video = FALSE,
                      !.reg = [A(g6, "palette").reg EXCEPT !["select"] = s.reg["select"]]]
    BY <1>1, <1>14, AttributePut, ZenonT(60) DEF Group
  <2>2. A(g6, "palette").reg = g6
    BY DEF Card
  <2> QED  BY <2>1, <2>2 DEF Card, g7
<1>16. vga_write_regs(c, s) = vga_ac_enable_video(A(g7, "select"))
  <2> HIDE DEF P, A
  <2> QED  BY <1>12, <1>13, <1>15 DEF vga_write_regs
<1>17. vga_ac_enable_video(A(g7, "select"))
         = [A(g7, "select") EXCEPT !.data_next = TRUE, !.index = "palette", !.video = TRUE]
  BY <1>14, EnablesVideo
<1> QED  BY <1>3, <1>16, <1>17, ZenonT(60) DEF Card

\* vga_font_access() maps the font in, and changes nothing else.
LEMMA FontMappedIn ==
  ASSUME NEW c \in Card
  PROVE  /\ vga_font_access(c) \in Card /\ FontShown(vga_font_access(c))
         /\ vga_font_access(c) = [c EXCEPT !.reg = vga_font_access(c).reg]
<1> DEFINE g1 == [c.reg EXCEPT !["mask"] = "font"]
           g2 == [g1 EXCEPT !["mode"] = "font"]
           g3 == [g2 EXCEPT !["map"] = "font"]
           K(g) == [c EXCEPT !.reg = g]
<1>1. c.reg \in [Group -> Value] /\ g1 \in [Group -> Value] /\ g2 \in [Group -> Value] /\ g3 \in [Group -> Value]
  BY DEF Card, Group, Value
<1>2. g3["mask"] = "font" /\ g3["mode"] = "font" /\ g3["map"] = "font"
  BY <1>1 DEF Group
<1>3. WriteReg(c, "mask", "font") = K(g1)
  BY WritePut DEF Group, Value
<1>4. K(g1) \in Card /\ K(g2) \in Card /\ K(g3) \in Card
  BY <1>1 DEF Card
<1>5. WriteReg(K(g1), "mode", "font") = K(g2)
  <2>1. WriteReg(K(g1), "mode", "font") = [K(g1) EXCEPT !.reg = [K(g1).reg EXCEPT !["mode"] = "font"]]
    BY <1>4, WritePut DEF Group, Value
  <2> QED  BY <2>1 DEF Card
<1>6. WriteReg(K(g2), "map", "font") = K(g3)
  <2>1. WriteReg(K(g2), "map", "font") = [K(g2) EXCEPT !.reg = [K(g2).reg EXCEPT !["map"] = "font"]]
    BY <1>4, WritePut DEF Group, Value
  <2> QED  BY <2>1 DEF Card
<1> HIDE DEF g1, g2, g3
<1>7. vga_font_access(c) = K(g3)
  <2> HIDE DEF K
  <2> QED  BY <1>3, <1>5, <1>6 DEF vga_font_access
<1>8. K(g3).reg = g3
  BY DEF Card
<1>9. FontShown(K(g3))
  BY <1>2, <1>8 DEF FontShown
<1> QED  BY <1>4, <1>7, <1>8, <1>9

LEMMA TextKeepsCard ==
  ASSUME NEW c \in Card, NEW t \in Int
  PROVE  /\ ToText(c, t) \in Card /\ ToText(c, t).reg = c.reg /\ ToText(c, t).locked = c.locked
         /\ ToText(c, t).cursor = c.cursor /\ ToText(c, t).start = c.start /\ ToText(c, t).font = c.font
         /\ ToText(c, t).video = c.video /\ ToText(c, t).dac = c.dac
         /\ TextShown(c) => ToText(c, t).text = t
  BY DEF ToText, Card

\* Each operation on the card, in terms of its registers and memory.
LEMMA EnteredCard ==
  ASSUME NEW c \in Card, NEW lock \in BOOLEAN
  PROVE  LET d == vga_ac_enable_video([VbeMode(c, lock) EXCEPT !.dac = "colors16"])
         IN  d \in Card /\ d.video
<1>1. VbeMode(c, lock) \in Card
  <2> DEFINE f == [r \in Group |-> IF r \in {"palette", "select"} THEN c.reg[r] ELSE "vbe"]
  <2>1. f \in [Group -> Value]
    BY DEF Card, Value
  <2> HIDE DEF f
  <2> DEFINE m1 == [c EXCEPT !.reg = f]
             m2 == [m1 EXCEPT !.locked = lock]
  <2>2. m1 \in Card
    BY <2>1 DEF Card
  <2> HIDE DEF m1
  <2>3. m2 \in Card
    BY <2>2 DEF Card
  <2> HIDE DEF m2
  <2>4. [m2 EXCEPT !.start = 0] \in Card
    BY <2>3 DEF Card
  <2>5. VbeMode(c, lock) = [m2 EXCEPT !.start = 0]
    BY DEF VbeMode, f, m1, m2, Card
  <2> QED  BY <2>4, <2>5
<1>2. [VbeMode(c, lock) EXCEPT !.dac = "colors16"] \in Card
  <2> DEFINE m == VbeMode(c, lock)
  <2> HIDE DEF m
  <2>1. m \in Card
    BY <1>1 DEF m
  <2>2. [m EXCEPT !.dac = "colors16"] \in Card
    BY <2>1 DEF Card, Colours
  <2> QED  BY <2>2 DEF m
<1> DEFINE k == [VbeMode(c, lock) EXCEPT !.dac = "colors16"]
<1> HIDE DEF k
<1>3. vga_ac_enable_video(k) = [k EXCEPT !.data_next = TRUE, !.index = "palette", !.video = TRUE]
  BY <1>2, EnablesVideo DEF k
<1>4. vga_ac_enable_video(k) \in Card /\ vga_ac_enable_video(k).video
  BY <1>2, <1>3 DEF Card, k
<1> QED  BY <1>4 DEF k

\* The font comes in over the text mode's own registers, which are then written again.
LEMMA LeftCard ==
  ASSUME NEW c \in Card, NEW s \in Regs, NEW f \in Int, NEW t \in Int, NEW d \in Colours, s.reg = TextRegs
  PROVE  LET font == ToFont(vga_font_access(vga_write_regs(c, s)), f)
             left == [ToText(vga_write_regs(font, s), t) EXCEPT !.dac = d]
         IN  /\ left \in Card /\ left.reg = TextRegs /\ left.locked = s.locked /\ left.video
             /\ left.cursor = s.cursor /\ left.start = s.start
             /\ left.font = f /\ left.text = t /\ left.dac = d
<1> DEFINE c1 == vga_write_regs(c, s)
           c2 == vga_font_access(c1)
           c3 == ToFont(c2, f)
           c4 == vga_write_regs(c3, s)
           c5 == ToText(c4, t)
<1>0. c1 = [c EXCEPT !.reg = s.reg, !.locked = s.locked, !.cursor = s.cursor, !.start = s.start,
                     !.data_next = TRUE, !.index = "palette", !.video = TRUE]
  BY RegsPutBack
<1> HIDE DEF c1
<1>1. c1 \in Card
  BY <1>0 DEF Card, Regs
<1>2. c2 \in Card /\ FontShown(c2)
  BY <1>1, FontMappedIn
<1> HIDE DEF c2
<1>3. c3 \in Card /\ c3.font = f
  BY <1>2 DEF ToFont, Card
<1> HIDE DEF c3
<1>4. c4 = [c3 EXCEPT !.reg = s.reg, !.locked = s.locked, !.cursor = s.cursor, !.start = s.start,
                      !.data_next = TRUE, !.index = "palette", !.video = TRUE]
  BY <1>3, RegsPutBack
<1>5. /\ c4 \in Card /\ c4.reg = TextRegs /\ c4.locked = s.locked /\ c4.video /\ c4.cursor = s.cursor
      /\ c4.start = s.start /\ c4.font = f
  BY <1>3, <1>4 DEF Card, Regs
<1> HIDE DEF c4
<1>6. TextShown(c4)
  BY <1>5 DEF TextShown, TextRegs, Group
<1>7. /\ c5 \in Card /\ c5.reg = TextRegs /\ c5.locked = s.locked /\ c5.video /\ c5.cursor = s.cursor
      /\ c5.start = s.start /\ c5.font = f /\ c5.text = t
  BY <1>5, <1>6, TextKeepsCard
<1> HIDE DEF c5
<1>8. LET left == [c5 EXCEPT !.dac = d]
      IN  /\ left \in Card /\ left.reg = TextRegs /\ left.locked = s.locked /\ left.video
          /\ left.cursor = s.cursor /\ left.start = s.start
          /\ left.font = f /\ left.text = t /\ left.dac = d
  BY <1>7 DEF Card
<1> QED  BY <1>8 DEF c1, c2, c3, c4, c5

LEMMA VgaInitially == VgaTextInit => VgaInv
<1> SUFFICES ASSUME VgaTextInit PROVE VgaInv
  OBVIOUS
<1>1. NR_CONS \in Nat /\ NR_CONS > 1 /\ ConWords \in Nat
  BY VgaTextAssumption
<1>2. 1 \in Con /\ 0 \in Con /\ \A con \in Con : con * ConWords \in Int
  BY <1>1 DEF Con
<1>3. con_cursor \in [Con -> Int] /\ con_start \in [Con -> Int] /\ con_cursor[1] \in Int /\ con_start = con_cursor
  BY <1>2 DEF VgaTextInit
<1>4. vga \in Card /\ vga.reg = TextRegs /\ vga.locked /\ vga.video /\ vga.text = 0 /\ vga.font = 0
      /\ vga.dac = "text" /\ vga.cursor = con_cursor[1] /\ vga.start = con_start[1]
  <2>1. TextRegs \in [Group -> Value]
    BY DEF TextRegs, Value
  <2>2. vga = [reg |-> TextRegs, locked |-> TRUE, cursor |-> con_cursor[1], start |-> con_start[1],
               data_next |-> FALSE, index |-> "palette", video |-> TRUE, text |-> 0, font |-> 0, dac |-> "text"]
    BY DEF VgaTextInit, TextRegs
  <2> QED  BY <1>3, <2>1, <2>2 DEF Card, Colours
<1>5. saved_regs \in Regs
  BY <1>4 DEF VgaTextInit, Snapshot, Card, Regs
<1>6. tty_step \in {"idle", "select", "flush"} \X Con /\ tty_step[1] = "idle"
  BY <1>2 DEF VgaTextInit, NothingToDo
<1>7. VgaTypes
  <2>1. saved_text \in Int /\ saved_font \in Int /\ saved_palette \in Colours /\ written \in Int
    BY DEF VgaTextInit, Lost, Colours
  <2>2. vga_active \in BOOLEAN /\ missed \in BOOLEAN /\ current_console \in Con
    BY <1>2 DEF VgaTextInit
  <2> QED  BY <1>3, <1>4, <1>5, <1>6, <2>1, <2>2 DEF VgaTypes
<1>8. CardSound
  BY <1>4 DEF VgaTextInit, CardSound
<1>9. PlaceSound
  BY <1>4, <1>6 DEF VgaTextInit, PlaceSound
<1> QED  BY <1>4, <1>7, <1>8, <1>9 DEF VgaInv, VideoOn

LEMMA TextIsSaved == VgaInv /\ enter_text_saved => VgaInv'
<1> SUFFICES ASSUME VgaInv, enter_text_saved PROVE VgaInv'
  OBVIOUS
<1> USE DEF VgaInv, VgaTypes
<1>1. TextShown(vga) /\ vga.text = written /\ vga.font = 0 /\ vga.dac = "text" /\ ~ vga_active /\ vga_active'
      /\ vga.reg = TextRegs /\ vga.locked
  BY DEF CardSound, TextShown, TextRegs, Group, enter_text_saved
<1>2. AfterSave(vga) \in Card /\ AfterSave(vga).font = 0
  <2>1. AfterSave(vga) = [vga EXCEPT !.data_next = TRUE, !.index = "palette", !.video = TRUE]
    BY SaveKeeps
  <2> QED  BY <1>1, <2>1, ZenonT(40) DEF Card
<1>3. FontShown(FontMapped) /\ FontMapped \in Card /\ FontMapped.font = 0
  <2> DEFINE k == AfterSave(vga)
  <2> HIDE DEF k
  <2>1. k \in Card /\ k.font = 0
    BY <1>2 DEF k
  <2>2. FontShown(vga_font_access(k)) /\ vga_font_access(k) = [k EXCEPT !.reg = vga_font_access(k).reg]
    BY <2>1, FontMappedIn
  <2>3. vga_font_access(k).font = 0
    BY <2>1, <2>2 DEF Card
  <2> QED  BY <2>1, <2>2, <2>3, FontMappedIn DEF k, FontMapped
<1>4. saved_font' = 0 /\ saved_text' = written /\ saved_palette' = "text" /\ saved_regs' = Snapshot(vga)
  BY <1>1, <1>3 DEF enter_text_saved
<1>5. /\ saved_regs' \in Regs /\ saved_regs'.reg = TextRegs /\ saved_regs'.locked
      /\ saved_regs'.cursor = vga.cursor /\ saved_regs'.start = vga.start
  BY <1>1, <1>4 DEF Snapshot, Card, Regs
<1>6. vga' \in Card /\ vga'.video
  <2>1. PICK lock \in BOOLEAN : vga' = vga_ac_enable_video([VbeMode(FontMapped, lock) EXCEPT !.dac = "colors16"])
    BY DEF enter_text_saved
  <2> QED  BY <1>3, <2>1, EnteredCard
<1>7. UNCHANGED consoleVars
  BY DEF enter_text_saved
<1>8. VgaTypes'
  BY <1>1, <1>4, <1>5, <1>6, <1>7 DEF consoleVars, Colours
<1>9. CardSound'
  BY <1>1, <1>4, <1>5, <1>7 DEF CardSound, consoleVars
<1>10. PlaceSound'
  BY <1>1, <1>5, <1>7 DEF PlaceSound, consoleVars
<1> QED  BY <1>6, <1>8, <1>9, <1>10 DEF VideoOn

LEMMA TextIsRestored == VgaInv /\ leave_text_restored => VgaInv'
<1> SUFFICES ASSUME VgaInv, leave_text_restored PROVE VgaInv'
  OBVIOUS
<1> USE DEF VgaInv, VgaTypes
<1>1. vga_active /\ ~ vga_active' /\ saved_regs.reg = TextRegs /\ saved_regs.locked /\ saved_text = written
      /\ saved_font = 0 /\ saved_palette = "text" /\ vga_active' \in BOOLEAN
  BY DEF CardSound, leave_text_restored
<1>2. /\ vga' \in Card /\ vga'.reg = TextRegs /\ vga'.locked /\ vga'.video
      /\ vga'.cursor = saved_regs.cursor /\ vga'.start = saved_regs.start
      /\ vga'.font = 0 /\ vga'.text = written /\ vga'.dac = "text"
  BY <1>1, LeftCard, SMTT(40) DEF leave_text_restored
<1>3. UNCHANGED <<saved_regs, saved_text, saved_font, saved_palette, consoleVars>>
  BY DEF leave_text_restored
<1>4. VgaTypes'
  BY <1>1, <1>2, <1>3 DEF consoleVars
<1>5. CardSound'
  BY <1>1, <1>2, <1>3 DEF CardSound, consoleVars
<1>6. PlaceSound'
  BY <1>1, <1>2, <1>3 DEF PlaceSound, consoleVars
<1> QED  BY <1>2, <1>4, <1>5, <1>6 DEF VideoOn

LEMMA PictureKeeps == VgaInv /\ picture_blit => VgaInv'
<1> SUFFICES ASSUME VgaInv, picture_blit PROVE VgaInv'
  OBVIOUS
<1> USE DEF VgaInv, VgaTypes
<1>1. vga' \in Card /\ vga'.video
  <2>1. vga' = [vga EXCEPT !.text = Lost, !.font = Lost] /\ Lost \in Int /\ vga.video
    BY DEF picture_blit, VideoOn, Lost
  <2> HIDE DEF Lost
  <2> QED  BY <2>1 DEF Card
<1>2. vga_active /\ UNCHANGED <<modeVars, consoleVars>>
  BY DEF picture_blit
<1>3. VgaTypes'
  BY <1>1, <1>2 DEF modeVars, consoleVars
<1>4. CardSound'
  BY <1>2 DEF CardSound, modeVars, consoleVars
<1>5. PlaceSound'
  BY <1>2 DEF PlaceSound, modeVars, consoleVars
<1> QED  BY <1>1, <1>3, <1>4, <1>5 DEF VideoOn

LEMMA ConsoleKeeps ==
  ASSUME VgaInv, NEW con \in Con, con_output(con) \/ select_key(con) \/ select_console(con) \/ flush_writes(con)
  PROVE  VgaInv'
<1> USE DEF VgaInv, VgaTypes
<1>1. CASE con_output(con)
  <2>1. PICK cur \in WordsOf(con), start \in WordsOf(con), t \in {0, 1} :
          /\ con_cursor' = [con_cursor EXCEPT ![con] = cur]
          /\ con_start' = [con_start EXCEPT ![con] = start]
          /\ vga' = ToText(vga, t) /\ written' = IF vga_active THEN written ELSE t
    BY <1>1 DEF con_output
  <2>2. cur \in Int /\ start \in Int /\ t \in Int
    BY <2>1 DEF WordsOf
  <2>3. /\ tty_step' = flush(con) /\ missed' = Misses(con) /\ tty_step = NothingToDo
        /\ UNCHANGED <<modeVars, current_console>>
    BY <1>1 DEF con_output
  <2>4. /\ vga' \in Card /\ vga'.reg = vga.reg /\ vga'.locked = vga.locked /\ vga'.cursor = vga.cursor
        /\ vga'.start = vga.start /\ vga'.font = vga.font /\ vga'.video = vga.video /\ vga'.dac = vga.dac
        /\ TextShown(vga) => vga'.text = t
    BY <2>1, <2>2, TextKeepsCard
  <2>5. ~ vga_active => TextShown(vga)
    BY DEF CardSound, TextShown, TextRegs, Group
  <2>6. 0 \in Con /\ tty_step' \in {"idle", "select", "flush"} \X Con /\ missed' \in BOOLEAN
    <3>1. 0 \in Con
      BY VgaTextAssumption DEF Con
    <3> QED  BY <3>1, <2>3 DEF flush, Misses, NothingToDo, modeVars
  <2>7. VgaTypes'
    BY <2>1, <2>2, <2>3, <2>4, <2>6 DEF modeVars
  <2>8. CardSound'
    BY <2>1, <2>3, <2>4, <2>5 DEF CardSound, modeVars
  <2>9. PlaceSound'
    <3>1. CASE con = current_console
      BY <3>1, <2>3 DEF PlaceSound, flush, Misses, NothingToDo, modeVars
    <3>2. CASE con # current_console
      <4>1. con_cursor'[current_console] = con_cursor[current_console]
            /\ con_start'[current_console] = con_start[current_console]
        BY <3>2, <2>1
      <4>2. tty_step' = NothingToDo /\ missed' = missed /\ current_console' = current_console
        BY <3>2, <2>3 DEF flush, Misses
      <4> QED  BY <4>1, <4>2, <2>3, <2>4 DEF PlaceSound, NothingToDo, modeVars
    <3> QED  BY <3>1, <3>2
  <2> QED  BY <2>4, <2>7, <2>8, <2>9 DEF VideoOn
<1>2. CASE select_key(con)
  <2>1. VgaTypes'
    BY <1>2 DEF select_key, modeVars
  <2>2. CardSound' /\ VideoOn'
    BY <1>2 DEF CardSound, VideoOn, select_key, modeVars
  <2>3. PlaceSound'
    BY <1>2 DEF PlaceSound, select_key, modeVars, NothingToDo
  <2> QED  BY <2>1, <2>2, <2>3
<1>3. CASE select_console(con)
  <2>1. current_console' = con /\ tty_step' = flush(con) /\ missed' = vga_active
        /\ UNCHANGED <<vga, modeVars, con_cursor, con_start, written>>
    BY <1>3 DEF select_console, Misses
  <2>2. 0 \in Con
    BY VgaTextAssumption DEF Con
  <2>3. VgaTypes'
    BY <2>1, <2>2 DEF flush, NothingToDo, modeVars
  <2>4. CardSound' /\ VideoOn'
    BY <2>1 DEF CardSound, VideoOn, modeVars
  <2>5. PlaceSound'
    BY <2>1 DEF PlaceSound, flush, NothingToDo, modeVars
  <2> QED  BY <2>3, <2>4, <2>5
<1>4. CASE flush_writes(con)
  <2>1. /\ vga' = set_video_start_addr(set_cursor(vga, con_cursor[con]), con_start[con])
        /\ tty_step' = NothingToDo /\ missed' = vga_active /\ tty_step = <<"flush", con>>
        /\ UNCHANGED <<modeVars, current_console, con_cursor, con_start, written>>
    BY <1>4 DEF flush_writes
  <2>2. /\ vga' \in Card /\ vga'.reg = vga.reg /\ vga'.locked = vga.locked /\ vga'.text = vga.text
        /\ vga'.font = vga.font /\ vga'.video = vga.video /\ vga'.dac = vga.dac
        /\ vga'.cursor = con_cursor[con] /\ vga'.start = con_start[con]
    BY <2>1 DEF set_video_start_addr, set_cursor, Card
  <2>3. 0 \in Con
    BY VgaTextAssumption DEF Con
  <2>4. VgaTypes'
    BY <2>1, <2>2, <2>3 DEF NothingToDo, modeVars
  <2>5. CardSound' /\ VideoOn'
    BY <2>1, <2>2 DEF CardSound, VideoOn, modeVars
  <2>6. con = current_console
    BY <2>1 DEF PlaceSound
  <2>7. PlaceSound'
    BY <2>1, <2>2, <2>6 DEF PlaceSound, NothingToDo, modeVars
  <2> QED  BY <2>4, <2>5, <2>7
<1> QED  BY <1>1, <1>2, <1>3, <1>4

(* TextIsBack for every number and size of consoles: whenever graphics     *)
(* ends, and however output and a change of console cross its start and    *)
(* its end, the card has its text mode back, every register through the    *)
(* lock, with the text, the font, the colours and the place of the current *)
(* console (vga.c:134-269, console.c:309-318).                             *)
THEOREM TextAlwaysBack == VgaTextSpec => []TextIsBack
<1>1. VgaTextInit => VgaInv
  BY VgaInitially
<1>2. VgaInv /\ [VgaTextNext]_vgaTextVars => VgaInv'
  <2> SUFFICES ASSUME VgaInv, [VgaTextNext]_vgaTextVars PROVE VgaInv'
    OBVIOUS
  <2>1. CASE UNCHANGED vgaTextVars
    BY <2>1 DEF vgaTextVars, modeVars, consoleVars, VgaInv, VgaTypes, CardSound, VideoOn, PlaceSound
  <2>2. CASE VgaTextNext
    BY <2>2, TextIsSaved, PictureKeeps, TextIsRestored, ConsoleKeeps DEF VgaTextNext
  <2> QED  BY <2>1, <2>2
<1>3. VgaInv => TextIsBack
  BY DEF VgaInv, VgaTypes, CardSound, VideoOn, PlaceSound, TextIsBack, TextModeRestored, TextKept,
         ScreenFollowsCurrent, TextRegs
<1> QED  BY <1>1, <1>2, <1>3, PTL DEF VgaTextSpec

(***************************************************************************)
(* The mouse: the packets and the bits of their bytes, and how far from    *)
(* the first byte of a packet the driver can be.                           *)
(***************************************************************************)
MouseSpec == mouse_init /\ [][MouseNext]_mouseVars

\* bytes of the packet that are to be sent, and that were
Left == Len(sending)
Sent == IF sending = <<>> THEN 0 ELSE 3 - Left
MouseTypes ==
  /\ mouse_x \in 0 .. GFX_FB_W - 1 /\ mouse_y \in 0 .. GFX_FB_H - 1 /\ mouse_buttons \in Int
  /\ mouse_cycle \in 0 .. 2 /\ mouse_packet \in [0 .. 2 -> Int]
  /\ sending \in Seq(Int) /\ Left <= 3
  /\ nLost \in Nat /\ calm \in 0 .. CALM /\ whole \in BOOLEAN
\* what the driver may take for the first byte, the longer nothing was lost the less
Straying(k) ==
  CASE k = 1 -> {<<1, 2>>, <<1, 0>>, <<2, 0>>, <<0, 2>>}
    [] k = 2 -> {<<2, 0>>, <<1, 0>>}
    [] k = 3 -> {<<2, 0>>}
    [] OTHER -> {}
FindsBack == calm = 0 \/ Aligned \/ <<Sent, mouse_cycle>> \in Straying(calm)
\* what is still to be sent, and what the driver has of it
OfPacket(m, buttons, over) ==
  LET p == Packet(m, buttons, over) IN
  /\ \A i \in 1 .. Left : sending[i] = p[(3 - Left) + i]
  /\ mouse_cycle = Sent /\ (Left < 3 => whole) =>
       /\ intended = IF over = 1 THEN <<0, 0, mouse_buttons>> ELSE <<m[1], m[2], buttons>>
       /\ Left < 3 => mouse_packet[0] = p[1]
       /\ Left < 2 => mouse_packet[1] = p[2]
PacketKnown ==
  sending # <<>> => \E m \in Moves, buttons \in {0, 1}, over \in {0, 1} : OfPacket(m, buttons, over)
MouseInv == MouseTypes /\ FindsBack /\ PacketKnown /\ (whole => Aligned)

HeaderByte(buttons, a, b, over) == 8 + buttons + 16 * a + 32 * b + 64 * over

LEMMA HeaderBits ==
  ASSUME NEW buttons \in {0, 1}, NEW a \in {0, 1}, NEW b \in {0, 1}, NEW over \in {0, 1}
  PROVE  LET h == HeaderByte(buttons, a, b, over) IN
         /\ h \in Int /\ h % 8 = buttons /\ (h \div 8) % 2 = 1 /\ (h \div 16) % 2 = a /\ (h \div 32) % 2 = b
         /\ (h \div 64) % 2 = over /\ (h \div 128) % 2 = 0
<1> DEFINE h == HeaderByte(buttons, a, b, over)
<1>0. h = 8 + buttons + 16 * a + 32 * b + 64 * over
  BY DEF HeaderByte
<1> HIDE DEF h
<1>1. h \in 0 .. 127 /\ h \div 128 = 0
  BY <1>0
<1>2. h \div 64 = over
  BY <1>0
<1>3. h \div 32 = 2 * over + b
  BY <1>0
<1>4. h \div 16 = 4 * over + 2 * b + a
  BY <1>0
<1>5. h \div 8 = 8 * over + 4 * b + 2 * a + 1
  BY <1>0
<1>6. h % 8 = buttons
  BY <1>0
<1>7. (2 * over + b) % 2 = b /\ over % 2 = over
  OBVIOUS
<1>8. (4 * over + 2 * b + a) % 2 = a
  OBVIOUS
<1>9. (8 * over + 4 * b + 2 * a + 1) % 2 = 1
  OBVIOUS
<1> QED  BY <1>1, <1>2, <1>3, <1>4, <1>5, <1>6, <1>7, <1>8, <1>9 DEF h

\* The bits of the three bytes mean what the mouse meant.
LEMMA PacketBits ==
  ASSUME NEW m \in Moves, NEW buttons \in {0, 1}, NEW over \in {0, 1}
  PROVE  LET p == Packet(m, buttons, over) IN
         /\ p[1] \in Int /\ p[2] \in Int /\ p[3] \in Int
         /\ p \in Seq(Int) /\ Len(p) = 3
         /\ Bit(p[1], 3) = 1 /\ p[1] % 8 = buttons
         /\ (Bit(p[1], 6) = 1 \/ Bit(p[1], 7) = 1) <=> over = 1
         /\ Movement(p[1], p[2], 4) = m[1] /\ Movement(p[1], p[3], 5) = m[2]
<1> DEFINE x == m[1]
           y == m[2]
           a == Truth(m[1] < 0)
           b == Truth(m[2] < 0)
           h == HeaderByte(buttons, a, b, over)
<1>1. x \in -128 .. 127 /\ y \in -128 .. 127
  BY MouseAssumption
<1>2. a \in {0, 1} /\ b \in {0, 1} /\ (a = 1 <=> x < 0) /\ (b = 1 <=> y < 0)
  BY DEF Truth
<1>3. Packet(m, buttons, over) = <<h, x % 256, y % 256>>
  BY DEF Packet, HeaderByte
<1>4. \A v \in -128 .. 127 : v % 256 \in Int /\ (IF v < 0 THEN (v % 256) - 256 ELSE v % 256) = v
  OBVIOUS
<1> HIDE DEF a, b, x, y
<1>5. h \in Int /\ h % 8 = buttons /\ (h \div 8) % 2 = 1 /\ (h \div 16) % 2 = a /\ (h \div 32) % 2 = b
      /\ (h \div 64) % 2 = over /\ (h \div 128) % 2 = 0
  BY <1>2, HeaderBits
<1> HIDE DEF h
<1>6. /\ Bit(h, 3) = (h \div 8) % 2 /\ Bit(h, 4) = (h \div 16) % 2 /\ Bit(h, 5) = (h \div 32) % 2
      /\ Bit(h, 6) = (h \div 64) % 2 /\ Bit(h, 7) = (h \div 128) % 2
  BY DEF Bit, Weight
<1>7. Movement(h, x % 256, 4) = x
  BY <1>1, <1>2, <1>4, <1>5, <1>6 DEF Movement
<1>8. Movement(h, y % 256, 5) = y
  BY <1>1, <1>2, <1>4, <1>5, <1>6 DEF Movement
<1>9. <<h, x % 256, y % 256>> \in Seq(Int)
  BY <1>1, <1>4, <1>5
<1> DEFINE p == <<h, x % 256, y % 256>>
<1>10. p[1] = h /\ p[2] = x % 256 /\ p[3] = y % 256 /\ Len(p) = 3
  OBVIOUS
<1>11. p[1] \in Int /\ p[2] \in Int /\ p[3] \in Int
  BY <1>1, <1>4, <1>5
<1>12. Bit(h, 3) = 1 /\ h % 8 = buttons /\ ((Bit(h, 6) = 1 \/ Bit(h, 7) = 1) <=> over = 1)
  BY <1>5, <1>6
<1>13. x = m[1] /\ y = m[2]
  BY DEF x, y
<1> HIDE DEF p
<1> QED  BY <1>3, <1>7, <1>8, <1>9, <1>10, <1>11, <1>12, <1>13 DEF p

\* One byte more, after which nothing was lost: the driver is where the mouse is, or comes nearer.
OneMore(q) == IF q = 2 THEN 0 ELSE q + 1
Calmer(k) == IF k < 4 THEN k + 1 ELSE 4

LEMMA ComesNearer ==
  ASSUME NEW k \in 0 .. 4, NEW q \in 0 .. 2, NEW c \in 0 .. 2,
         k = 0 \/ c = q \/ <<q, c>> \in Straying(k),
         NEW d \in 0 .. 2, c = 2 => d = 0, c = 1 => d = 2, c = 0 => d = (IF q = 0 THEN 1 ELSE 0)
  PROVE  d = OneMore(q) \/ <<OneMore(q), d>> \in Straying(Calmer(k))
<1> DEFINE r == OneMore(q)
           n == Calmer(k)
<1>0. r = (IF q = 2 THEN 0 ELSE q + 1) /\ n = (IF k < 4 THEN k + 1 ELSE 4)
  BY DEF OneMore, Calmer
<1> USE <1>0
<1> SUFFICES d = r \/ <<r, d>> \in Straying(n)
  OBVIOUS
<1> HIDE DEF r, n
<1>1. /\ Straying(0) = {} /\ Straying(1) = {<<1, 2>>, <<1, 0>>, <<2, 0>>, <<0, 2>>}
      /\ Straying(2) = {<<2, 0>>, <<1, 0>>} /\ Straying(3) = {<<2, 0>>} /\ Straying(4) = {}
  BY DEF Straying
<1>2. CASE c = q
  BY <1>2
<1>3. CASE k = 0
  BY <1>1, <1>3
<1>4. CASE k = 1 /\ <<q, c>> \in Straying(1)
  BY <1>1, <1>4
<1>5. CASE k = 2 /\ <<q, c>> \in Straying(2)
  BY <1>1, <1>5
<1>6. CASE k = 3 /\ <<q, c>> \in Straying(3)
  BY <1>1, <1>6
<1>7. k = 4 => <<q, c>> \notin Straying(k)
  BY <1>1
<1> QED  BY <1>2, <1>3, <1>4, <1>5, <1>6, <1>7

LEMMA SentTail ==
  ASSUME NEW s \in Seq(Int), s # <<>>, Len(s) <= 3
  PROVE  /\ Len(s) \in 1 .. 3 /\ Head(s) = s[1] /\ Head(s) \in Int
         /\ Tail(s) \in Seq(Int) /\ Len(Tail(s)) = Len(s) - 1
         /\ \A i \in 1 .. Len(s) - 1 : Tail(s)[i] = s[i + 1]
         /\ Tail(s) = <<>> <=> Len(s) = 1
<1>1. Len(s) \in 1 .. 3
  <2> DEFINE n == Len(s)
  <2>1. n \in Nat \ {0} /\ n <= 3
    BY EmptySeq
  <2> HIDE DEF n
  <2>2. n \in 1 .. 3
    BY <2>1
  <2> QED  BY <2>2 DEF n
<1>2. Head(s) = s[1] /\ Head(s) \in Int /\ Tail(s) \in Seq(Int) /\ Len(Tail(s)) = Len(s) - 1
  BY HeadTailProperties, ElementOfSeq
<1>3. \A i \in 1 .. Len(s) - 1 : Tail(s)[i] = s[i + 1]
  BY HeadTailProperties
<1> QED  BY <1>1, <1>2, <1>3, EmptySeq, SMTT(40)

LEMMA ClampInside ==
  ASSUME NEW v \in Int, NEW size \in Nat \ {0}
  PROVE  Clamp(v, size) \in 0 .. size - 1 /\ (v \in 0 .. size - 1 => Clamp(v, size) = v)
  BY DEF Clamp

LEMMA MouseInitially == mouse_init => MouseInv
<1> SUFFICES ASSUME mouse_init PROVE MouseInv
  OBVIOUS
<1>1. GFX_FB_W \div 2 \in 0 .. GFX_FB_W - 1 /\ GFX_FB_H \div 2 \in 0 .. GFX_FB_H - 1
  <2>1. \A n \in Nat \ {0} : n \div 2 \in 0 .. n - 1
    OBVIOUS
  <2> QED  BY <2>1, MouseAssumption
<1>2. sending = <<>> /\ sending \in Seq(Int) /\ Left = 0
  BY EmptySeq DEF mouse_init, Left
<1>3. MouseTypes
  BY <1>1, <1>2 DEF mouse_init, MouseTypes, CALM
<1>4. Aligned
  BY <1>2 DEF mouse_init, Aligned, Left
<1> QED  BY <1>2, <1>3, <1>4 DEF MouseInv, FindsBack, PacketKnown

\* A packet is sent when the one before it has been.
LEMMA MouseMovesKeeps == MouseInv /\ MouseMoves => MouseInv'
<1> SUFFICES ASSUME MouseInv, MouseMoves PROVE MouseInv'
  OBVIOUS
<1>1. PICK m \in Moves, buttons \in {0, 1}, over \in {0, 1} :
        /\ sending' = Packet(m, buttons, over)
        /\ intended' = IF over = 1 THEN <<0, 0, mouse_buttons>> ELSE <<m[1], m[2], buttons>>
  BY DEF MouseMoves
<1>2. sending' \in Seq(Int) /\ Left' = 3 /\ sending' # <<>>
  <2> DEFINE p == Packet(m, buttons, over)
  <2>1. p \in Seq(Int) /\ Len(p) = 3
    BY PacketBits
  <2> HIDE DEF p
  <2>2. sending' = p
    BY <1>1 DEF p
  <2>3. Left' = 3
    BY <2>1, <2>2 DEF Left
  <2>4. Len(p) # Len(<<>>)
    BY <2>1, EmptySeq
  <2> QED  BY <2>1, <2>2, <2>3, <2>4
<1>3. /\ sending = <<>>
      /\ UNCHANGED <<mouse_x, mouse_y, mouse_buttons, mouse_cycle, mouse_packet, nLost, calm, whole>>
  BY DEF MouseMoves
<1>4. Sent = 0 /\ Sent' = 0 /\ (Aligned <=> mouse_cycle = 0) /\ (Aligned' <=> mouse_cycle' = 0)
  BY <1>2, <1>3 DEF Sent, Aligned, Left
<1>5. MouseTypes'
  BY <1>2, <1>3 DEF MouseInv, MouseTypes
<1>6. FindsBack'
  BY <1>3, <1>4 DEF MouseInv, FindsBack
<1>7. OfPacket(m, buttons, over)'
  BY <1>1, <1>2, <1>3 DEF OfPacket
<1>8. PacketKnown'
  BY <1>7 DEF PacketKnown
<1>9. whole' => Aligned'
  BY <1>3, <1>4 DEF MouseInv
<1> QED  BY <1>5, <1>6, <1>8, <1>9 DEF MouseInv

\* A byte is lost.
LEMMA LossKeeps == MouseInv /\ ByteLost => MouseInv'
<1> SUFFICES ASSUME MouseInv, ByteLost PROVE MouseInv'
  OBVIOUS
<1>1. /\ sending # <<>> /\ sending' = Tail(sending) /\ nLost' = nLost + 1 /\ calm' = 0 /\ whole' = FALSE
      /\ UNCHANGED <<mouse_x, mouse_y, mouse_buttons, mouse_cycle, mouse_packet, intended>>
  BY DEF ByteLost
<1>2. /\ Left \in 1 .. 3 /\ sending' \in Seq(Int) /\ Left' = Left - 1
      /\ \A i \in 1 .. Left - 1 : sending'[i] = sending[i + 1]
  BY <1>1, SentTail DEF MouseInv, MouseTypes, Left
<1>3. MouseTypes'
  <2>1. whole' \in BOOLEAN
    BY <1>1
  <2>2. Left' <= 3 /\ nLost' \in Nat /\ calm' \in 0 .. CALM
    BY <1>1, <1>2 DEF MouseInv, MouseTypes, CALM
  <2> QED  BY <1>1, <1>2, <2>1, <2>2 DEF MouseInv, MouseTypes
<1>4. PICK m \in Moves, buttons \in {0, 1}, over \in {0, 1} : OfPacket(m, buttons, over)
  BY <1>1 DEF MouseInv, PacketKnown
<1>5. OfPacket(m, buttons, over)'
  <2> DEFINE p == Packet(m, buttons, over)
  <2> HIDE DEF p
  <2>1. \A i \in 1 .. Left : sending[i] = p[(3 - Left) + i]
    BY <1>4 DEF OfPacket, p
  <2>2. \A i \in 1 .. Left' : sending'[i] = p[(3 - Left') + i]
    BY <1>2, <2>1
  <2>3. Left' < 3 /\ ~ whole'
    BY <1>1, <1>2
  <2> QED  BY <2>2, <2>3 DEF OfPacket, p
<1>6. PacketKnown'
  BY <1>5 DEF PacketKnown
<1> QED  BY <1>1, <1>3, <1>6 DEF MouseInv, FindsBack

\* What mouse_handler() is given, and what it leaves in every case.
LEMMA HandlerFacts ==
  ASSUME MouseInv, mouse_handler
  PROVE  /\ sending # <<>> /\ Left \in 1 .. 3 /\ sending' \in Seq(Int)
         /\ Left' = Left - 1 /\ Head(sending) = sending[1] /\ sending[1] \in Int
         /\ \A i \in 1 .. Left - 1 : sending'[i] = sending[i + 1]
         /\ sending' = <<>> <=> Left = 1
         /\ Left = 3 => Bit(sending[1], 3) = 1
         /\ mouse_cycle = 2 => mouse_cycle' = 0
         /\ mouse_cycle = 1 => mouse_cycle' = 2
         /\ mouse_cycle = 0 => mouse_cycle' = IF Bit(sending[1], 3) = 1 THEN 1 ELSE 0
         /\ nLost' = nLost /\ intended' = intended
         /\ whole' = IF Left = 3 THEN mouse_cycle = 0 ELSE whole
         /\ calm' = IF Left < 3 /\ Bit(sending[1], 3) = 1 THEN 0
                    ELSE IF calm < CALM THEN calm + 1 ELSE CALM
<1>1. /\ sending # <<>> /\ Left \in 1 .. 3 /\ sending' \in Seq(Int)
      /\ Left' = Left - 1 /\ Head(sending) = sending[1] /\ sending[1] \in Int
      /\ \A i \in 1 .. Left - 1 : sending'[i] = sending[i + 1]
      /\ sending' = <<>> <=> Left = 1
  BY SentTail DEF mouse_handler, MouseInv, MouseTypes, Left
<1>2. Left = 3 => Bit(sending[1], 3) = 1
  <2> SUFFICES ASSUME Left = 3 PROVE Bit(sending[1], 3) = 1
    OBVIOUS
  <2>1. PICK m \in Moves, buttons \in {0, 1}, over \in {0, 1} : OfPacket(m, buttons, over)
    BY <1>1 DEF MouseInv, PacketKnown
  <2>2. sending[1] = Packet(m, buttons, over)[1]
    BY <2>1 DEF OfPacket
  <2>3. Bit(Packet(m, buttons, over)[1], 3) = 1
    BY PacketBits
  <2> QED  BY <2>2, <2>3
<1>3. /\ nLost' = nLost /\ intended' = intended
      /\ whole' = IF Left = 3 THEN mouse_cycle = 0 ELSE whole
      /\ calm' = IF Left < 3 /\ Bit(sending[1], 3) = 1 THEN 0
                 ELSE IF calm < CALM THEN calm + 1 ELSE CALM
  BY <1>1 DEF mouse_handler, Left
<1>4. Header(sending[1]) \/ Second(sending[1]) \/ Third(sending[1])
  BY <1>1 DEF mouse_handler
<1>5. /\ mouse_cycle = 2 => mouse_cycle' = 0
      /\ mouse_cycle = 1 => mouse_cycle' = 2
      /\ mouse_cycle = 0 => mouse_cycle' = IF Bit(sending[1], 3) = 1 THEN 1 ELSE 0
  BY <1>4 DEF Header, Second, Third
<1> QED  BY <1>1, <1>2, <1>3, <1>5

LEMMA HandlerTypes ==
  ASSUME MouseInv, mouse_handler
  PROVE  MouseTypes'
<1> DEFINE data == sending[1]
<1>1. Header(data) \/ Second(data) \/ Third(data)
  BY HandlerFacts DEF mouse_handler
<1>2. data \in Int /\ mouse_packet[0] \in Int /\ mouse_packet[1] \in Int /\ mouse_packet \in [0 .. 2 -> Int]
  BY HandlerFacts DEF MouseInv, MouseTypes
<1> HIDE DEF data
<1>3. mouse_packet' \in [0 .. 2 -> Int]
  BY <1>1, <1>2 DEF Header, Second, Third
<1>4. mouse_x' \in 0 .. GFX_FB_W - 1 /\ mouse_y' \in 0 .. GFX_FB_H - 1 /\ mouse_buttons' \in Int
  <2>1. CASE UNCHANGED <<mouse_x, mouse_y, mouse_buttons>>
    BY <2>1 DEF MouseInv, MouseTypes
  <2>2. CASE /\ mouse_buttons' = mouse_packet[0] % 8
             /\ mouse_x' = Clamp(mouse_x + Movement(mouse_packet[0], mouse_packet[1], 4), GFX_FB_W)
             /\ mouse_y' = Clamp(mouse_y - Movement(mouse_packet[0], data, 5), GFX_FB_H)
    <3>1. Movement(mouse_packet[0], mouse_packet[1], 4) \in Int /\ Movement(mouse_packet[0], data, 5) \in Int
      BY <1>2 DEF Movement
    <3>2. mouse_x \in Int /\ mouse_y \in Int
      BY DEF MouseInv, MouseTypes
    <3> QED  BY <1>2, <2>2, <3>1, <3>2, ClampInside, MouseAssumption, SMTT(40)
  <2> QED  BY <1>1, <2>1, <2>2 DEF Header, Second, Third
<1>5. /\ mouse_cycle' \in 0 .. 2 /\ sending' \in Seq(Int) /\ Left' <= 3 /\ nLost' \in Nat
      /\ calm' \in 0 .. CALM /\ whole' \in BOOLEAN
  <2>1. /\ Left' = Left - 1 /\ Left \in 1 .. 3 /\ sending' \in Seq(Int) /\ nLost' = nLost
        /\ calm' = 0 \/ calm' = (IF calm < CALM THEN calm + 1 ELSE CALM)
        /\ mouse_cycle' \in 0 .. 2
    BY HandlerFacts DEF MouseInv, MouseTypes
  <2>2. nLost \in Nat /\ calm \in 0 .. 4 /\ CALM = 4 /\ whole \in BOOLEAN
    BY DEF MouseInv, MouseTypes, CALM
  <2>3. whole' \in BOOLEAN
    BY <2>2, HandlerFacts
  <2>4. calm' \in 0 .. CALM
    BY <2>1, <2>2
  <2> QED  BY <2>1, <2>2, <2>3, <2>4
<1> QED  BY <1>3, <1>4, <1>5 DEF MouseTypes

LEMMA HandlerFindsBack ==
  ASSUME MouseInv, mouse_handler
  PROVE  FindsBack'
<1> USE HandlerFacts
<1>1. mouse_cycle \in 0 .. 2 /\ calm \in 0 .. 4 /\ CALM = 4 /\ mouse_cycle' \in 0 .. 2
  BY DEF MouseInv, MouseTypes, CALM
<1>2. Sent = 3 - Left /\ Sent' = OneMore(Sent) /\ Sent \in 0 .. 2
  BY DEF Sent, OneMore
<1>3. (Aligned <=> mouse_cycle = Sent) /\ (Aligned' <=> mouse_cycle' = Sent')
  BY DEF Aligned, Sent, Left
<1>4. CASE calm' = 0
  BY <1>4 DEF FindsBack
<1>5. CASE calm' # 0
  <2>1. calm' = Calmer(calm) /\ (Left < 3 => Bit(sending[1], 3) # 1)
    BY <1>1, <1>5 DEF Calmer
  <2>2. /\ mouse_cycle = 2 => mouse_cycle' = 0
        /\ mouse_cycle = 1 => mouse_cycle' = 2
        /\ mouse_cycle = 0 => mouse_cycle' = (IF Sent = 0 THEN 1 ELSE 0)
    BY <1>2, <2>1
  <2>3. calm = 0 \/ mouse_cycle = Sent \/ <<Sent, mouse_cycle>> \in Straying(calm)
    BY <1>3 DEF MouseInv, FindsBack
  <2>4. mouse_cycle' = Sent' \/ <<Sent', mouse_cycle'>> \in Straying(calm')
    BY <1>1, <1>2, <2>1, <2>2, <2>3, ComesNearer
  <2> QED  BY <1>3, <2>4 DEF FindsBack
<1> QED  BY <1>4, <1>5

LEMMA HandlerKnows ==
  ASSUME MouseInv, mouse_handler
  PROVE  PacketKnown' /\ (whole' => Aligned')
<1> DEFINE data == sending[1]
<1>1. Header(data) \/ Second(data) \/ Third(data)
  BY HandlerFacts DEF mouse_handler
<1>2. PICK m \in Moves, buttons \in {0, 1}, over \in {0, 1} : OfPacket(m, buttons, over)
  BY HandlerFacts DEF MouseInv, PacketKnown
<1> DEFINE p == Packet(m, buttons, over)
<1> HIDE DEF p
<1>3. \A i \in 1 .. Left : sending[i] = p[(3 - Left) + i]
  BY <1>2 DEF OfPacket, p
<1>4. \A i \in 1 .. Left' : sending'[i] = p[(3 - Left') + i]
  <2>1. /\ Left \in 1 .. 3 /\ Left' = Left - 1
        /\ \A i \in 1 .. Left - 1 : sending'[i] = sending[i + 1]
    BY HandlerFacts
  <2> SUFFICES ASSUME NEW i \in 1 .. Left' PROVE sending'[i] = p[(3 - Left') + i]
    OBVIOUS
  <2>2. i \in 1 .. Left - 1 /\ i + 1 \in 1 .. Left /\ (3 - Left) + (i + 1) = (3 - Left') + i
    BY <2>1
  <2>3. sending'[i] = sending[i + 1] /\ sending[i + 1] = p[(3 - Left) + (i + 1)]
    BY <1>3, <2>1, <2>2
  <2> QED  BY <2>2, <2>3
<1>5. data = p[4 - Left]
  BY <1>3, HandlerFacts
<1> HIDE DEF data
<1>6. mouse_cycle \in 0 .. 2 /\ mouse_packet \in [0 .. 2 -> Int] /\ Sent = 3 - Left
      /\ (Left = 1 => Sent' = 0) /\ (Left # 1 => Sent' = 4 - Left)
      /\ (Aligned <=> mouse_cycle = Sent) /\ (Aligned' <=> mouse_cycle' = Sent')
  BY HandlerFacts DEF MouseInv, MouseTypes, Sent, Aligned, Left
\* the packet is read as a whole, up to this byte
<1>7. whole' => mouse_cycle = Sent /\ (Left < 3 => whole)
  <2>1. whole' = IF Left = 3 THEN mouse_cycle = 0 ELSE whole
    BY HandlerFacts
  <2>2. Left \in 1 .. 3 /\ (whole => Aligned)
    BY HandlerFacts DEF MouseInv
  <2>3. CASE Left = 3
    <3>1. whole' => mouse_cycle = 0
      BY <2>1, <2>3
    <3>2. Sent = 0
      BY <1>6, <2>3
    <3> QED  BY <2>3, <3>1, <3>2
  <2>4. CASE Left # 3
    BY <1>6, <2>1, <2>2, <2>4
  <2> QED  BY <2>3, <2>4
<1>8. whole' => Aligned'
  BY <1>6, <1>7, HandlerFacts
<1>9. ASSUME whole', sending' # <<>>
      PROVE  /\ intended' = IF over = 1 THEN <<0, 0, mouse_buttons'>> ELSE <<m[1], m[2], buttons>>
             /\ mouse_packet'[0] = p[1]
             /\ Left' < 2 => mouse_packet'[1] = p[2]
  <2>1. /\ intended = IF over = 1 THEN <<0, 0, mouse_buttons>> ELSE <<m[1], m[2], buttons>>
        /\ Left < 3 => mouse_packet[0] = p[1]
    BY <1>2, <1>7, <1>9 DEF OfPacket, p
  <2>2. CASE Left = 3
    <3>1. Header(data) /\ Bit(data, 3) = 1 /\ data = p[1]
      <4>1. mouse_cycle = 0 /\ Bit(data, 3) = 1 /\ data = p[1]
        BY <1>5, <1>6, <1>7, <1>9, <2>2, HandlerFacts DEF data
      <4> QED  BY <1>1, <4>1 DEF Second, Third
    <3>2. mouse_packet'[0] = p[1] /\ mouse_buttons' = mouse_buttons
      BY <1>6, <3>1 DEF Header
    <3> QED  BY <2>1, <2>2, <3>2, HandlerFacts
  <2>3. CASE Left = 2
    <3>1. Second(data) /\ data = p[2]
      <4>1. mouse_cycle = 1 /\ data = p[2]
        BY <1>5, <1>6, <1>7, <1>9, <2>3
      <4> QED  BY <1>1, <4>1 DEF Header, Third
    <3>2. mouse_packet'[0] = mouse_packet[0] /\ mouse_packet'[1] = p[2] /\ mouse_buttons' = mouse_buttons
      BY <1>6, <3>1 DEF Second
    <3> QED  BY <2>1, <2>3, <3>2, HandlerFacts
  <2> QED  BY <1>9, <2>2, <2>3, HandlerFacts
<1>10. OfPacket(m, buttons, over)' \/ sending' = <<>>
  <2>1. Left' < 3
    BY HandlerFacts
  <2> QED  BY <1>4, <1>9, <2>1 DEF OfPacket, p
<1>11. PacketKnown'
  BY <1>10 DEF PacketKnown
<1> QED  BY <1>8, <1>11

\* The last byte of a packet that was read as a whole.
LEMMA HandlerMoves ==
  ASSUME MouseInv, mouse_handler
  PROVE  MovesAsMeant
<1> SUFFICES ASSUME mouse_cycle = 2, whole
             PROVE  /\ mouse_x' = Clamp(mouse_x + intended[1], GFX_FB_W)
                    /\ mouse_y' = Clamp(mouse_y - intended[2], GFX_FB_H)
                    /\ mouse_buttons' = intended[3]
  BY DEF MovesAsMeant
<1> DEFINE data == sending[1]
           header == mouse_packet[0]
<1>1. Third(data)
  BY HandlerFacts DEF mouse_handler, Header, Second
<1>2. PICK m \in Moves, buttons \in {0, 1}, over \in {0, 1} : OfPacket(m, buttons, over)
  BY HandlerFacts DEF MouseInv, PacketKnown
<1> DEFINE p == Packet(m, buttons, over)
<1>3. Left = 1 /\ mouse_cycle = Sent
  <2>1. Left \in 1 .. 3 /\ sending # <<>> /\ mouse_cycle = 3 - Left
    BY HandlerFacts DEF MouseInv, Aligned, Left
  <2> QED  BY <2>1 DEF Sent
<1>4. /\ data = p[3] /\ header = p[1] /\ mouse_packet[1] = p[2]
      /\ intended = IF over = 1 THEN <<0, 0, mouse_buttons>> ELSE <<m[1], m[2], buttons>>
  BY <1>2, <1>3 DEF OfPacket
<1>5. /\ header % 8 = buttons /\ ((Bit(header, 6) = 1 \/ Bit(header, 7) = 1) <=> over = 1)
      /\ Movement(header, mouse_packet[1], 4) = m[1] /\ Movement(header, data, 5) = m[2]
  <2>1. /\ p[1] % 8 = buttons /\ ((Bit(p[1], 6) = 1 \/ Bit(p[1], 7) = 1) <=> over = 1)
        /\ Movement(p[1], p[2], 4) = m[1] /\ Movement(p[1], p[3], 5) = m[2]
    BY PacketBits, ZenonT(40)
  <2> QED  BY <1>4, <2>1
<1>6. mouse_x \in 0 .. GFX_FB_W - 1 /\ mouse_y \in 0 .. GFX_FB_H - 1
  BY DEF MouseInv, MouseTypes
<1> HIDE DEF data, header, p
<1>7. CASE over = 1
  <2>1. mouse_x' = mouse_x /\ mouse_y' = mouse_y /\ mouse_buttons' = mouse_buttons
    BY <1>1, <1>5, <1>7 DEF Third, header
  <2>2. intended[1] = 0 /\ intended[2] = 0 /\ intended[3] = mouse_buttons
    BY <1>4, <1>7
  <2>3. Clamp(mouse_x + 0, GFX_FB_W) = mouse_x /\ Clamp(mouse_y - 0, GFX_FB_H) = mouse_y
    BY <1>6, MouseAssumption DEF Clamp
  <2> QED  BY <2>1, <2>2, <2>3
<1>8. CASE over = 0
  <2>1. /\ mouse_buttons' = header % 8
        /\ mouse_x' = Clamp(mouse_x + Movement(header, mouse_packet[1], 4), GFX_FB_W)
        /\ mouse_y' = Clamp(mouse_y - Movement(header, data, 5), GFX_FB_H)
    BY <1>1, <1>5, <1>8 DEF Third, header
  <2>2. intended[1] = m[1] /\ intended[2] = m[2] /\ intended[3] = buttons
    BY <1>4, <1>8
  <2> QED  BY <1>5, <2>1, <2>2
<1> QED  BY <1>7, <1>8

(* PointerFaithful for every size of screen, all movements of a byte and   *)
(* however many bytes are lost: a packet that is read from its first byte  *)
(* on moves the pointer as the mouse meant, no garbage moves it off the    *)
(* screen, and four bytes after the last loss, of which no data byte has   *)
(* bit 3 set, the driver has found the packets again (mouse.c:177-223).    *)
THEOREM PointerAlwaysFaithful == MouseSpec => PointerFaithful
<1>1. mouse_init => MouseInv
  BY MouseInitially
<1>2. MouseInv /\ [MouseNext]_mouseVars => MouseInv' /\ [MovesAsMeant]_mouseVars
  <2> SUFFICES ASSUME MouseInv, [MouseNext]_mouseVars PROVE MouseInv' /\ [MovesAsMeant]_mouseVars
    OBVIOUS
  <2>1. CASE UNCHANGED mouseVars
    <3>1. MouseInv'
      BY <2>1 DEF mouseVars, MouseInv, MouseTypes, FindsBack, PacketKnown, OfPacket, Aligned, Sent, Left
    <3> QED  BY <2>1, <3>1
  <2>2. CASE mouse_handler
    BY <2>2, HandlerTypes, HandlerFindsBack, HandlerKnows, HandlerMoves DEF MouseInv
  <2>3. CASE MouseMoves
    <3>1. MovesAsMeant
      BY <2>3 DEF MouseMoves, MovesAsMeant
    <3> QED  BY <2>3, <3>1, MouseMovesKeeps
  <2>4. CASE ByteLost
    <3>1. MovesAsMeant
      BY <2>4 DEF ByteLost, MovesAsMeant
    <3> QED  BY <2>4, <3>1, LossKeeps
  <2> QED  BY <2>1, <2>2, <2>3, <2>4 DEF MouseNext
<1>3. MouseInv => Realigned /\ PointerOnScreen
  BY DEF MouseInv, MouseTypes, FindsBack, Realigned, PointerOnScreen, CALM, Straying
<1> QED  BY <1>1, <1>2, <1>3, PTL DEF MouseSpec, PointerFaithful

(***************************************************************************)
(* Who owns the screen.                                                    *)
(***************************************************************************)
GraphicsSpec == GraphicsInit /\ [][GraphicsNext]_gfxVars

OutsidePc == {"idle", "enter", "reply"}
\* after the ESC from before is discarded
Own == {"draw", "blit", "poll", "polled"}
GfxTypes ==
  /\ gPc \in [GTask -> OutsidePc \cup Inside]
  /\ graphics_active \in BOOLEAN /\ esc_pending \in BOOLEAN /\ polled \in BOOLEAN /\ fresh \in BOOLEAN
  /\ ttyPoll \in {"idle", "pending", "none"} /\ bank \in 1 .. Banks
  /\ vram \in [1 .. Banks -> GTask \cup {"text"}]
Owned ==
  /\ \A t \in GTask : gPc[t] \in Inside => graphics_active
  /\ graphics_active => \E t \in GTask : gPc[t] \in Inside
  /\ \A t, u \in GTask : gPc[t] \in Inside /\ gPc[u] \in Inside => t = u
  /\ ttyPoll # "idle" => \E t \in GTask : gPc[t] \in {"discard", "poll"}
TextSafe == IF graphics_active THEN saved = Shows("text") ELSE vram = Shows("text")
Copied ==
  \A t \in GTask :
    /\ gPc[t] = "blit" => frame = t /\ \A b \in 1 .. Banks : b < bank => vram[b] = t
    /\ gPc[t] \in {"poll", "polled"} => vram = Shows(t)
EscOfOwner ==
  \A t \in GTask :
    /\ gPc[t] \in Own /\ esc_pending => fresh
    /\ gPc[t] = "poll" /\ ttyPoll = "pending" => fresh
    /\ gPc[t] = "polled" /\ polled => fresh
GfxInv == GfxTypes /\ Owned /\ TextSafe /\ Copied /\ EscOfOwner

\* the steps of a task but Serve(), for one program
GTurn(t) ==
  \/ vga_enter_graphics(t) \/ LoadEsc(t) \/ ClearEsc(t) \/ Discard(t)
  \/ Draw(t) \/ vga_blit(t) \/ Turn(t) \/ vga_leave_graphics(t) \/ Reply(t)

\* Each step of a task, what it disturbs and what not.
LEMMA GfxTypesKept ==
  ASSUME GfxInv, NEW t \in GTask, NEW p, Serve(t, p) \/ GTurn(t)
  PROVE  GfxTypes'
<1>1. CASE Serve(t, p)
  BY <1>1 DEF GfxInv, GfxTypes, Owned, TextSafe, Copied, EscOfOwner, Serve, At, Inside, OutsidePc, Own, Shows, screenVars, escVars
<1>2. CASE vga_enter_graphics(t)
  BY <1>2, ZenonT(40) DEF GfxInv, GfxTypes, Owned, TextSafe, Copied, EscOfOwner, vga_enter_graphics, At, Inside, OutsidePc, Own, Shows, screenVars, escVars
<1>3. CASE LoadEsc(t)
  BY <1>3 DEF GfxInv, GfxTypes, Owned, TextSafe, Copied, EscOfOwner, LoadEsc, At, Inside, OutsidePc, Own, Shows, screenVars, escVars
<1>4. CASE ClearEsc(t)
  BY <1>4 DEF GfxInv, GfxTypes, Owned, TextSafe, Copied, EscOfOwner, ClearEsc, At, Inside, OutsidePc, Own, Shows, screenVars, escVars
<1>5. CASE Discard(t)
  BY <1>5 DEF GfxInv, GfxTypes, Owned, TextSafe, Copied, EscOfOwner, Discard, At, Inside, OutsidePc, Own, Shows, screenVars, escVars
<1>6. CASE Draw(t)
  BY <1>6, GraphicsAssumption DEF GfxInv, GfxTypes, Owned, TextSafe, Copied, EscOfOwner, Draw, At, Inside, OutsidePc, Own, Shows, screenVars, escVars
<1>7. CASE vga_blit(t)
  <2>1. frame \in GTask /\ vram' = [vram EXCEPT ![bank] = frame]
    BY <1>7 DEF GfxInv, Copied, vga_blit
  <2>2. vram' \in [1 .. Banks -> GTask \cup {"text"}]
    BY <2>1 DEF GfxInv, GfxTypes
  <2>3. bank' \in 1 .. Banks
    <3>1. CASE bank = Banks
      BY <1>7, <3>1 DEF GfxInv, GfxTypes, vga_blit
    <3>2. CASE bank # Banks
      <4>1. bank' = bank + 1 /\ bank \in 1 .. Banks /\ Banks \in Nat
        BY <1>7, <3>2, GraphicsAssumption DEF GfxInv, GfxTypes, vga_blit
      <4> QED  BY <3>2, <4>1
    <3> QED  BY <3>1, <3>2
  <2>4. gPc' \in [GTask -> OutsidePc \cup Inside]
    BY <1>7 DEF GfxInv, GfxTypes, vga_blit, At, Inside
  <2>5. UNCHANGED <<graphics_active, esc_pending, polled, fresh, ttyPoll>>
    BY <1>7 DEF vga_blit, escVars
  <2> QED  BY <2>2, <2>3, <2>4, <2>5 DEF GfxInv, GfxTypes
<1>8. CASE Turn(t)
  BY <1>8 DEF GfxInv, GfxTypes, Owned, TextSafe, Copied, EscOfOwner, Turn, At, Inside, OutsidePc, Own, Shows, screenVars, escVars
<1>9. CASE vga_leave_graphics(t)
  BY <1>9 DEF GfxInv, GfxTypes, Owned, TextSafe, Copied, EscOfOwner, vga_leave_graphics, At, Inside, OutsidePc, Own, Shows, screenVars, escVars
<1>10. CASE Reply(t)
  BY <1>10 DEF GfxInv, GfxTypes, Owned, TextSafe, Copied, EscOfOwner, Reply, At, Inside, OutsidePc, Own, Shows, screenVars, escVars
<1> QED  BY <1>1, <1>2, <1>3, <1>4, <1>5, <1>6, <1>7, <1>8, <1>9, <1>10 DEF GTurn

LEMMA OwnedKept ==
  ASSUME GfxInv, NEW t \in GTask, NEW p, Serve(t, p) \/ GTurn(t)
  PROVE  Owned'
<1>1. CASE Serve(t, p)
  BY <1>1 DEF GfxInv, GfxTypes, Owned, TextSafe, Copied, EscOfOwner, Serve, At, Inside, OutsidePc, Own, Shows, screenVars, escVars
<1>2. CASE vga_enter_graphics(t)
  BY <1>2 DEF GfxInv, GfxTypes, Owned, TextSafe, Copied, EscOfOwner, vga_enter_graphics, At, Inside, OutsidePc, Own, Shows, screenVars, escVars
<1>3. CASE LoadEsc(t)
  BY <1>3 DEF GfxInv, GfxTypes, Owned, TextSafe, Copied, EscOfOwner, LoadEsc, At, Inside, OutsidePc, Own, Shows, screenVars, escVars
<1>4. CASE ClearEsc(t)
  BY <1>4 DEF GfxInv, GfxTypes, Owned, TextSafe, Copied, EscOfOwner, ClearEsc, At, Inside, OutsidePc, Own, Shows, screenVars, escVars
<1>5. CASE Discard(t)
  BY <1>5 DEF GfxInv, GfxTypes, Owned, TextSafe, Copied, EscOfOwner, Discard, At, Inside, OutsidePc, Own, Shows, screenVars, escVars
<1>6. CASE Draw(t)
  BY <1>6 DEF GfxInv, GfxTypes, Owned, TextSafe, Copied, EscOfOwner, Draw, At, Inside, OutsidePc, Own, Shows, screenVars, escVars
<1>7. CASE vga_blit(t)
  BY <1>7 DEF GfxInv, GfxTypes, Owned, TextSafe, Copied, EscOfOwner, vga_blit, At, Inside, OutsidePc, Own, Shows, screenVars, escVars
<1>8. CASE Turn(t)
  BY <1>8 DEF GfxInv, GfxTypes, Owned, TextSafe, Copied, EscOfOwner, Turn, At, Inside, OutsidePc, Own, Shows, screenVars, escVars
<1>9. CASE vga_leave_graphics(t)
  BY <1>9 DEF GfxInv, GfxTypes, Owned, TextSafe, Copied, EscOfOwner, vga_leave_graphics, At, Inside, OutsidePc, Own, Shows, screenVars, escVars
<1>10. CASE Reply(t)
  BY <1>10 DEF GfxInv, GfxTypes, Owned, TextSafe, Copied, EscOfOwner, Reply, At, Inside, OutsidePc, Own, Shows, screenVars, escVars
<1> QED  BY <1>1, <1>2, <1>3, <1>4, <1>5, <1>6, <1>7, <1>8, <1>9, <1>10 DEF GTurn

LEMMA TextSafeKept ==
  ASSUME GfxInv, NEW t \in GTask, NEW p, Serve(t, p) \/ GTurn(t)
  PROVE  TextSafe'
<1>1. CASE Serve(t, p)
  BY <1>1 DEF GfxInv, GfxTypes, Owned, TextSafe, Copied, EscOfOwner, Serve, At, Inside, OutsidePc, Own, Shows, screenVars, escVars
<1>2. CASE vga_enter_graphics(t)
  BY <1>2 DEF GfxInv, GfxTypes, Owned, TextSafe, Copied, EscOfOwner, vga_enter_graphics, At, Inside, OutsidePc, Own, Shows, screenVars, escVars
<1>3. CASE LoadEsc(t)
  BY <1>3 DEF GfxInv, GfxTypes, Owned, TextSafe, Copied, EscOfOwner, LoadEsc, At, Inside, OutsidePc, Own, Shows, screenVars, escVars
<1>4. CASE ClearEsc(t)
  BY <1>4 DEF GfxInv, GfxTypes, Owned, TextSafe, Copied, EscOfOwner, ClearEsc, At, Inside, OutsidePc, Own, Shows, screenVars, escVars
<1>5. CASE Discard(t)
  BY <1>5 DEF GfxInv, GfxTypes, Owned, TextSafe, Copied, EscOfOwner, Discard, At, Inside, OutsidePc, Own, Shows, screenVars, escVars
<1>6. CASE Draw(t)
  BY <1>6 DEF GfxInv, GfxTypes, Owned, TextSafe, Copied, EscOfOwner, Draw, At, Inside, OutsidePc, Own, Shows, screenVars, escVars
<1>7. CASE vga_blit(t)
  BY <1>7 DEF GfxInv, GfxTypes, Owned, TextSafe, Copied, EscOfOwner, vga_blit, At, Inside, OutsidePc, Own, Shows, screenVars, escVars
<1>8. CASE Turn(t)
  BY <1>8 DEF GfxInv, GfxTypes, Owned, TextSafe, Copied, EscOfOwner, Turn, At, Inside, OutsidePc, Own, Shows, screenVars, escVars
<1>9. CASE vga_leave_graphics(t)
  BY <1>9 DEF GfxInv, GfxTypes, Owned, TextSafe, Copied, EscOfOwner, vga_leave_graphics, At, Inside, OutsidePc, Own, Shows, screenVars, escVars
<1>10. CASE Reply(t)
  BY <1>10 DEF GfxInv, GfxTypes, Owned, TextSafe, Copied, EscOfOwner, Reply, At, Inside, OutsidePc, Own, Shows, screenVars, escVars
<1> QED  BY <1>1, <1>2, <1>3, <1>4, <1>5, <1>6, <1>7, <1>8, <1>9, <1>10 DEF GTurn

LEMMA CopiedKept ==
  ASSUME GfxInv, NEW t \in GTask, NEW p, Serve(t, p) \/ GTurn(t)
  PROVE  Copied'
<1>1. CASE Serve(t, p)
  BY <1>1 DEF GfxInv, GfxTypes, Owned, TextSafe, Copied, EscOfOwner, Serve, At, Inside, OutsidePc, Own, Shows, screenVars, escVars
<1>2. CASE vga_enter_graphics(t)
  BY <1>2 DEF GfxInv, GfxTypes, Owned, TextSafe, Copied, EscOfOwner, vga_enter_graphics, At, Inside, OutsidePc, Own, Shows, screenVars, escVars
<1>3. CASE LoadEsc(t)
  BY <1>3 DEF GfxInv, GfxTypes, Owned, TextSafe, Copied, EscOfOwner, LoadEsc, At, Inside, OutsidePc, Own, Shows, screenVars, escVars
<1>4. CASE ClearEsc(t)
  BY <1>4 DEF GfxInv, GfxTypes, Owned, TextSafe, Copied, EscOfOwner, ClearEsc, At, Inside, OutsidePc, Own, Shows, screenVars, escVars
<1>5. CASE Discard(t)
  BY <1>5 DEF GfxInv, GfxTypes, Owned, TextSafe, Copied, EscOfOwner, Discard, At, Inside, OutsidePc, Own, Shows, screenVars, escVars
<1>6. CASE Draw(t)
  BY <1>6 DEF GfxInv, GfxTypes, Owned, TextSafe, Copied, EscOfOwner, Draw, At, Inside, OutsidePc, Own, Shows, screenVars, escVars
<1>7. CASE vga_blit(t)
  <2>1. /\ gPc[t] = "blit" /\ frame = t /\ (\A b \in 1 .. Banks : b < bank => vram[b] = t)
        /\ vram' = [vram EXCEPT ![bank] = t] /\ frame' = frame
    BY <1>7 DEF GfxInv, Copied, vga_blit
  <2>2. vram \in [1 .. Banks -> GTask \cup {"text"}] /\ bank \in 1 .. Banks /\ Banks \in Nat
        /\ gPc \in [GTask -> OutsidePc \cup Inside]
    BY GraphicsAssumption DEF GfxInv, GfxTypes
  <2>3. \A u \in GTask : gPc'[u] \in {"blit", "poll", "polled"} => u = t
    BY <1>7, <2>1, <2>2 DEF GfxInv, Owned, vga_blit, At, Inside
  <2>4. CASE bank = Banks
    <3>1. gPc'[t] = "poll"
      BY <1>7, <2>2, <2>4 DEF vga_blit, At
    <3>2. \A b \in 1 .. Banks : vram'[b] = t
      BY <2>1, <2>2, <2>4
    <3>3. vram' = Shows(t)
      BY <2>1, <2>2, <3>2 DEF Shows
    <3> QED  BY <2>3, <3>1, <3>3 DEF Copied
  <2>5. CASE bank # Banks
    <3>1. gPc'[t] = "blit" /\ bank' = bank + 1
      BY <1>7, <2>1, <2>5 DEF vga_blit
    <3>2. \A b \in 1 .. Banks : b < bank + 1 => vram'[b] = t
      BY <2>1, <2>2
    <3> QED  BY <2>1, <2>3, <3>1, <3>2 DEF Copied
  <2> QED  BY <2>4, <2>5
<1>8. CASE Turn(t)
  BY <1>8 DEF GfxInv, GfxTypes, Owned, TextSafe, Copied, EscOfOwner, Turn, At, Inside, OutsidePc, Own, Shows, screenVars, escVars
<1>9. CASE vga_leave_graphics(t)
  BY <1>9 DEF GfxInv, GfxTypes, Owned, TextSafe, Copied, EscOfOwner, vga_leave_graphics, At, Inside, OutsidePc, Own, Shows, screenVars, escVars
<1>10. CASE Reply(t)
  BY <1>10 DEF GfxInv, GfxTypes, Owned, TextSafe, Copied, EscOfOwner, Reply, At, Inside, OutsidePc, Own, Shows, screenVars, escVars
<1> QED  BY <1>1, <1>2, <1>3, <1>4, <1>5, <1>6, <1>7, <1>8, <1>9, <1>10 DEF GTurn

LEMMA EscOfOwnerKept ==
  ASSUME GfxInv, NEW t \in GTask, NEW p, Serve(t, p) \/ GTurn(t)
  PROVE  EscOfOwner'
<1>1. CASE Serve(t, p)
  BY <1>1 DEF GfxInv, GfxTypes, Owned, TextSafe, Copied, EscOfOwner, Serve, At, Inside, OutsidePc, Own, Shows, screenVars, escVars
<1>2. CASE vga_enter_graphics(t)
  BY <1>2 DEF GfxInv, GfxTypes, Owned, TextSafe, Copied, EscOfOwner, vga_enter_graphics, At, Inside, OutsidePc, Own, Shows, screenVars, escVars
<1>3. CASE LoadEsc(t)
  BY <1>3 DEF GfxInv, GfxTypes, Owned, TextSafe, Copied, EscOfOwner, LoadEsc, At, Inside, OutsidePc, Own, Shows, screenVars, escVars
<1>4. CASE ClearEsc(t)
  BY <1>4 DEF GfxInv, GfxTypes, Owned, TextSafe, Copied, EscOfOwner, ClearEsc, At, Inside, OutsidePc, Own, Shows, screenVars, escVars
<1>5. CASE Discard(t)
  BY <1>5 DEF GfxInv, GfxTypes, Owned, TextSafe, Copied, EscOfOwner, Discard, At, Inside, OutsidePc, Own, Shows, screenVars, escVars
<1>6. CASE Draw(t)
  BY <1>6 DEF GfxInv, GfxTypes, Owned, TextSafe, Copied, EscOfOwner, Draw, At, Inside, OutsidePc, Own, Shows, screenVars, escVars
<1>7. CASE vga_blit(t)
  BY <1>7 DEF GfxInv, GfxTypes, Owned, TextSafe, Copied, EscOfOwner, vga_blit, At, Inside, OutsidePc, Own, Shows, screenVars, escVars
<1>8. CASE Turn(t)
  BY <1>8 DEF GfxInv, GfxTypes, Owned, TextSafe, Copied, EscOfOwner, Turn, At, Inside, OutsidePc, Own, Shows, screenVars, escVars
<1>9. CASE vga_leave_graphics(t)
  BY <1>9 DEF GfxInv, GfxTypes, Owned, TextSafe, Copied, EscOfOwner, vga_leave_graphics, At, Inside, OutsidePc, Own, Shows, screenVars, escVars
<1>10. CASE Reply(t)
  BY <1>10 DEF GfxInv, GfxTypes, Owned, TextSafe, Copied, EscOfOwner, Reply, At, Inside, OutsidePc, Own, Shows, screenVars, escVars
<1> QED  BY <1>1, <1>2, <1>3, <1>4, <1>5, <1>6, <1>7, <1>8, <1>9, <1>10 DEF GTurn

\* ESC is pressed, and the two ways a session ends by itself.
LEMMA OthersKeep ==
  ASSUME GfxInv, EscPressed \/ DemoOver \/ ExitTyped
  PROVE  GfxInv'
<1>1. CASE EscPressed
  BY <1>1 DEF GfxInv, GfxTypes, Owned, TextSafe, Copied, EscOfOwner, EscPressed, screenVars
<1>2. CASE DemoOver
  BY <1>2 DEF GfxInv, GfxTypes, Owned, TextSafe, Copied, EscOfOwner, DemoOver, At, Inside, OutsidePc, Own,
              screenVars, escVars, GTask
<1>3. CASE ExitTyped
  BY <1>3 DEF GfxInv, GfxTypes, Owned, TextSafe, Copied, EscOfOwner, ExitTyped, At, Inside, OutsidePc, Own,
              screenVars, escVars, GTask
<1> QED  BY <1>1, <1>2, <1>3

LEMMA GfxInitially == GraphicsInit => GfxInv
<1> SUFFICES ASSUME GraphicsInit PROVE GfxInv
  OBVIOUS
<1>1. \A t \in GTask : gPc[t] = "idle" /\ gPc[t] \notin Inside /\ gPc[t] \notin Own
  BY DEF GraphicsInit, Inside, Own
<1>2. gPc \in [GTask -> OutsidePc \cup Inside]
  BY DEF GraphicsInit, OutsidePc
<1>3. bank \in 1 .. Banks /\ vram \in [1 .. Banks -> GTask \cup {"text"}]
  BY GraphicsAssumption DEF GraphicsInit, Shows
<1>4. GfxTypes
  BY <1>2, <1>3 DEF GraphicsInit, GfxTypes
<1>5. Owned /\ TextSafe
  BY <1>1 DEF GraphicsInit, Owned, TextSafe
<1>6. Copied /\ EscOfOwner
  BY <1>1 DEF Copied, EscOfOwner
<1> QED  BY <1>4, <1>5, <1>6 DEF GfxInv

LEMMA OneInside == GfxInv => OneOwner
<1> SUFFICES ASSUME GfxInv PROVE OneOwner
  OBVIOUS
<1> DEFINE S == {t \in GTask : gPc[t] \in Inside}
<1>1. CASE graphics_active
  <2>1. PICK t \in GTask : gPc[t] \in Inside
    BY <1>1 DEF GfxInv, Owned
  <2>2. S = {t}
    BY <2>1 DEF GfxInv, Owned
  <2>3. Cardinality(S) = 1
    BY <2>2, FS_Singleton
  <2> QED  BY <1>1, <2>3 DEF OneOwner
<1>2. CASE ~ graphics_active
  <2>1. S = {}
    BY <1>2 DEF GfxInv, Owned
  <2>2. Cardinality(S) = 0
    BY <2>1, FS_EmptySet
  <2>3. ttyPoll = "idle"
    BY <1>2 DEF GfxInv, Owned, Inside
  <2> QED  BY <1>2, <2>2, <2>3 DEF OneOwner
<1> QED  BY <1>1, <1>2

\* A session ends with an ESC of its own, or for another reason.
LEMMA EndsByItsOwn ==
  ASSUME GfxInv, GraphicsNext
  PROVE  OnlyFreshEsc
<1> SUFFICES ASSUME NEW t \in GTask, gPc[t] # "leave", gPc'[t] = "leave", polled PROVE fresh
  BY DEF OnlyFreshEsc
<1>1. gPc[t] = "polled"
  <2>1. CASE \E p \in Prog, u \in GTask : Ask(p, u)
    BY <2>1 DEF Ask
  <2>2. ASSUME NEW u \in GTask, GStep(u) PROVE gPc[t] = "polled"
    <3>1. gPc \in [GTask -> OutsidePc \cup Inside]
      BY DEF GfxInv, GfxTypes
    <3>2. CASE \E p \in Prog : Serve(u, p)
      BY <3>1, <3>2 DEF Serve, At
    <3>3. CASE vga_enter_graphics(u) \/ LoadEsc(u) \/ ClearEsc(u) \/ Discard(u)
      BY <3>1, <3>3 DEF vga_enter_graphics, LoadEsc, ClearEsc, Discard, At
    <3>4. CASE Draw(u) \/ vga_blit(u) \/ vga_leave_graphics(u) \/ Reply(u)
      BY <3>1, <3>4 DEF Draw, vga_blit, vga_leave_graphics, Reply, At
    <3>5. CASE Turn(u)
      BY <3>1, <3>5 DEF Turn
    <3> QED  BY <2>2, <3>2, <3>3, <3>4, <3>5 DEF GStep
  <2>3. CASE EscPressed
    BY <2>3 DEF EscPressed
  <2>4. CASE DemoOver \/ ExitTyped
    BY <2>4 DEF DemoOver, ExitTyped, At, GfxInv, GfxTypes
  <2> QED  BY <2>1, <2>2, <2>3, <2>4 DEF GraphicsNext
<1> QED  BY <1>1 DEF GfxInv, EscOfOwner

(* ScreenLent for any number of programs and banks: the screen is lent to  *)
(* one task at a time, which is shown whole frames of its own, leaves the  *)
(* text as it was saved, and is ended by no ESC from before its session    *)
(* (vga.c:100-117, 216-269, gfx.c:105-154, desktop.c:119-203).             *)
THEOREM ScreenAlwaysLent == GraphicsSpec => ScreenLent
<1>1. GraphicsInit => GfxInv
  BY GfxInitially
<1>2. GfxInv /\ [GraphicsNext]_gfxVars => GfxInv' /\ [OnlyFreshEsc]_gfxVars
  <2> SUFFICES ASSUME GfxInv, [GraphicsNext]_gfxVars PROVE GfxInv' /\ [OnlyFreshEsc]_gfxVars
    OBVIOUS
  <2>1. CASE UNCHANGED gfxVars
    BY <2>1 DEF gfxVars, GfxInv, GfxTypes, Owned, TextSafe, Copied, EscOfOwner
  <2>2. CASE GraphicsNext
    <3>1. ASSUME \E p \in Prog, t \in GTask : Ask(p, t) PROVE GfxInv'
      BY <3>1 DEF Ask, GfxInv, GfxTypes, Owned, TextSafe, Copied, EscOfOwner, screenVars, escVars
    <3>2. ASSUME NEW t \in GTask, GStep(t) PROVE GfxInv'
      <4>1. CASE \E p \in Prog : Serve(t, p)
        BY <4>1, GfxTypesKept, OwnedKept, TextSafeKept, CopiedKept, EscOfOwnerKept DEF GfxInv
      <4>2. CASE GTurn(t)
        BY <4>2, GfxTypesKept, OwnedKept, TextSafeKept, CopiedKept, EscOfOwnerKept DEF GfxInv
      <4> QED  BY <3>2, <4>1, <4>2 DEF GStep, GTurn
    <3>3. ASSUME EscPressed \/ DemoOver \/ ExitTyped PROVE GfxInv'
      BY <3>3, OthersKeep
    <3>4. GfxInv'
      BY <2>2, <3>1, <3>2, <3>3 DEF GraphicsNext
    <3> QED  BY <2>2, <3>4, EndsByItsOwn
  <2> QED  BY <2>1, <2>2
<1>3. GfxInv => OneOwner /\ TextRestored /\ FrameWhole
  BY OneInside DEF GfxInv, TextSafe, Copied, TextRestored, FrameWhole
<1> QED  BY <1>1, <1>2, <1>3, PTL DEF GraphicsSpec, ScreenLent

(***************************************************************************)
(* The windows and the pointer.                                            *)
(***************************************************************************)
WindowsSpec == wm_init /\ [][wmNext]_wmVars

Dragging == [i \in 1 .. 2 |-> pointer[i] - drag_offset[i]]
WmTypes ==
  /\ pos \in [Window -> [1 .. 2 -> Int]]
  /\ z_order \in [Window -> 1 .. 2] /\ z_order[Files] # z_order[TTY]
  /\ active_window \in Window /\ z_order[active_window] = 2
  /\ drag_window \in Window \cup {NoWindow} /\ (drag_window # NoWindow => held)
  /\ \A i \in 1 .. 2 : drag_offset[i] \in Int
  /\ pointer \in Screen /\ held \in BOOLEAN
\* the window that is held is where the pointer holds it, or at the edge
HeldAtPointer == drag_window # NoWindow => pos[drag_window] = OnScreenAt(drag_window, Dragging)
WmInv == WmTypes /\ WindowsOnScreen /\ HeldAtPointer

LEMMA OnScreenFacts ==
  ASSUME NEW w \in Window, NEW p, \A i \in 1 .. 2 : p[i] \in Int
  PROVE  /\ OnScreenAt(w, p) \in [1 .. 2 -> Int]
         /\ \A i \in 1 .. 2 : /\ OnScreenAt(w, p)[i] >= 0 /\ OnScreenAt(w, p)[i] + WindowSize[w][i] <= Size[i]
                              /\ p[i] >= 0 /\ p[i] + WindowSize[w][i] <= Size[i] => OnScreenAt(w, p)[i] = p[i]
<1>1. \A i \in 1 .. 2 : WindowSize[w][i] \in Int /\ Size[i] \in Int /\ WindowSize[w][i] <= Size[i]
  <2>1. /\ WindowSize[w] \in (1 .. SCREEN_W) \X (WM_TITLE_HEIGHT .. SCREEN_H)
        /\ SCREEN_W \in Nat /\ SCREEN_H \in Nat /\ WM_TITLE_HEIGHT \in Nat
    BY WindowsAssumption
  <2>2. /\ WindowSize[w][1] \in Int /\ WindowSize[w][1] <= SCREEN_W
        /\ WindowSize[w][2] \in Int /\ WindowSize[w][2] <= SCREEN_H
    BY <2>1
  <2>3. Size[1] = SCREEN_W /\ Size[2] = SCREEN_H
    BY DEF Size
  <2>4. \A i \in 1 .. 2 : i = 1 \/ i = 2
    OBVIOUS
  <2> QED  BY <2>1, <2>2, <2>3, <2>4
<1>2. \A i \in 1 .. 2 : OnScreenAt(w, p)[i] = Smaller(Larger(0, p[i]), Size[i] - WindowSize[w][i])
  BY DEF OnScreenAt
<1>3. OnScreenAt(w, p) \in [1 .. 2 -> Int]
  BY <1>1 DEF OnScreenAt, Smaller, Larger
<1> QED  BY <1>1, <1>2, <1>3 DEF Smaller, Larger

\* A clamped coordinate moves no further than the one it is made of.
LEMMA ClampedMovesLess ==
  ASSUME NEW a \in Int, NEW b \in Int, NEW m \in Int
  PROVE  Distance(Smaller(Larger(0, a), m), Smaller(Larger(0, b), m)) <= Distance(a, b)
  BY DEF Distance, Smaller, Larger

LEMMA TwoWindows ==
  /\ Files # TTY /\ NoWindow \notin Window /\ Window = {Files, TTY}
  /\ Cardinality(Window) = 2
<1>1. Files # TTY /\ NoWindow \notin Window
  BY WindowsAssumption
<1>2. IsFiniteSet({Files}) /\ Cardinality({Files}) = 1
  BY FS_Singleton
<1>3. Cardinality({Files} \cup {TTY}) = 2
  BY <1>1, <1>2, FS_AddElement
<1>4. {Files} \cup {TTY} = Window
  BY DEF Window
<1> QED  BY <1>1, <1>3, <1>4 DEF Window

\* wm_restack() puts front on top and the other window under it.
LEMMA Restacked ==
  ASSUME NEW z \in [Window -> Nat], NEW front \in Window, \A w \in Window : w # front => z[w] > 0
  PROVE  wm_restack(z, front) = [w \in Window |-> IF w = front THEN 2 ELSE 1]
<1>1. Open(z) \cup {front} = Window
  BY DEF Open
<1>2. Cardinality(Open(z) \cup {front}) = 2
  BY <1>1, TwoWindows
<1>3. ASSUME NEW w \in Window, w # front
      PROVE  Cardinality({v \in Open(z) \ {front} : z[v] <= z[w]}) = 1
  <2>1. {v \in Open(z) \ {front} : z[v] <= z[w]} = {w}
    BY <1>3, TwoWindows DEF Open
  <2> QED  BY <2>1, FS_Singleton
<1> QED  BY <1>2, <1>3 DEF wm_restack

LEMMA WmInitially == wm_init => WmInv
<1> SUFFICES ASSUME wm_init PROVE WmInv
  OBVIOUS
<1> DEFINE closed == [w \in Window |-> 0]
           z1 == wm_restack(closed, Files)
           z2 == wm_restack(z1, TTY)
           top == [w \in Window |-> IF w = TTY THEN 2 ELSE 1]
<1>1. z1 \in [Window -> Nat] /\ z1[Files] = 1
  <2>1. Open(closed) = {}
    BY DEF Open
  <2>2. Cardinality(Open(closed) \cup {Files}) = 1
    BY <2>1, FS_Singleton
  <2>3. \A w \in Window : Cardinality({v \in Open(closed) \ {Files} : closed[v] <= closed[w]}) = 0
    <3>1. \A w \in Window : {v \in Open(closed) \ {Files} : closed[v] <= closed[w]} = {}
      BY <2>1
    <3> QED  BY <3>1, FS_EmptySet
  <2> HIDE DEF closed
  <2>4. z1 = [w \in Window |-> IF w = Files THEN 1 ELSE 0]
    BY <2>2, <2>3 DEF wm_restack
  <2> QED  BY <2>4, TwoWindows
<1> HIDE DEF z1
<1>2. z2 = top
  BY <1>1, Restacked, TwoWindows
<1>3. wm_restack(z2, TTY) = top
  <2>1. top \in [Window -> Nat] /\ \A w \in Window : top[w] > 0
    OBVIOUS
  <2> HIDE DEF top
  <2>2. wm_restack(top, TTY) = top
    BY <2>1, Restacked, TwoWindows DEF top
  <2> QED  BY <1>2, <2>2
<1>4. z_order = top
  BY <1>3 DEF wm_init, wm_create_window, z1, z2, closed
<1>5. \A w \in Window : WindowAt[w][1] \in Int /\ WindowAt[w][2] \in Int
  BY WindowsAssumption
<1>6. \A w \in Window : \A i \in 1 .. 2 : WindowAt[w][i] \in Int
  <2>1. \A i \in 1 .. 2 : i = 1 \/ i = 2
    OBVIOUS
  <2> QED  BY <1>5, <2>1
<1>7. pos \in [Window -> [1 .. 2 -> Int]] /\ WindowsOnScreen
  BY <1>6, OnScreenFacts DEF wm_init, WindowsOnScreen
<1>8. pointer \in Screen
  <2>1. PICK w \in Window : w = TTY
    BY TwoWindows
  <2>2. /\ WindowSize[w] \in (1 .. SCREEN_W) \X (WM_TITLE_HEIGHT .. SCREEN_H)
        /\ SCREEN_W \in Nat /\ SCREEN_H \in Nat /\ WM_TITLE_HEIGHT \in Nat \ {0}
    BY WindowsAssumption
  <2>3. SCREEN_W > 0 /\ SCREEN_H > 0
    BY <2>2
  <2>4. SCREEN_W \div 2 \in 0 .. SCREEN_W - 1 /\ SCREEN_H \div 2 \in 0 .. SCREEN_H - 1
    BY <2>2, <2>3
  <2> QED  BY <2>4 DEF wm_init, Screen
<1>9. \A i \in 1 .. 2 : drag_offset[i] \in Int
  BY DEF wm_init
<1>10. WmTypes
  <2>1. z_order \in [Window -> 1 .. 2] /\ z_order[Files] # z_order[TTY] /\ z_order[TTY] = 2
    BY <1>4, TwoWindows
  <2>2. active_window = TTY /\ drag_window = NoWindow /\ held = FALSE
    BY DEF wm_init
  <2> QED  BY <1>7, <1>8, <1>9, <2>1, <2>2, TwoWindows DEF WmTypes
<1> QED  BY <1>7, <1>10 DEF wm_init, WmInv, HeldAtPointer

\* A press: the window at the pointer comes to the front, and no window moves.
LEMMA PressFacts ==
  ASSUME WmInv, NEW p \in Screen, Press(p)
  PROVE  /\ pos' = pos /\ active_window' \in Window /\ z_order' \in [Window -> 1 .. 2]
         /\ z_order'[Files] # z_order'[TTY] /\ z_order'[active_window'] = 2
         /\ active_window' = (IF wm_hit_test(p) = NoWindow THEN active_window ELSE wm_hit_test(p))
         /\ drag_window' = (IF InTitle(active_window', p) THEN active_window' ELSE NoWindow)
         /\ \A i \in 1 .. 2 : drag_offset'[i] \in Int
         /\ HeldAtPointer'
<1> DEFINE w == wm_hit_test(p)
<1>1. w \in Window \cup {NoWindow}
  <2> DEFINE here == {v \in Open(z_order) : \A i \in 1 .. 2 : pos[v][i] <= p[i] /\ p[i] < pos[v][i] + WindowSize[v][i]}
  <2>1. CASE here = {}
    BY <2>1 DEF wm_hit_test
  <2>2. CASE here # {}
    <3>1. here \subseteq Window
      BY DEF Open
    <3>2. \E v \in here : \A u \in here : z_order[u] <= z_order[v]
      <4>1. CASE Files \in here /\ (TTY \in here => z_order[TTY] <= z_order[Files])
        BY <3>1, <4>1, TwoWindows DEF WmInv, WmTypes
      <4>2. CASE TTY \in here /\ (Files \in here => z_order[Files] <= z_order[TTY])
        BY <3>1, <4>2, TwoWindows DEF WmInv, WmTypes
      <4>3. z_order[TTY] <= z_order[Files] \/ z_order[Files] <= z_order[TTY]
        BY TwoWindows DEF WmInv, WmTypes
      <4>4. Files \in here \/ TTY \in here
        BY <2>2, <3>1, TwoWindows, SMTT(40)
      <4> QED  BY <4>1, <4>2, <4>3, <4>4
    <3>3. w = CHOOSE v \in here : \A u \in here : z_order[u] <= z_order[v]
      BY <2>2 DEF wm_hit_test
    <3> HIDE DEF here, w
    <3>4. w \in here
      BY <3>2, <3>3
    <3> QED  BY <3>1, <3>4
  <2> QED  BY <2>1, <2>2
<1> HIDE DEF w
<1>2. wm_focus_window(w)
  BY DEF Press, w
<1>3. /\ active_window' \in Window /\ z_order' \in [Window -> 1 .. 2]
      /\ z_order'[Files] # z_order'[TTY] /\ z_order'[active_window'] = 2
      /\ active_window' = (IF w = NoWindow THEN active_window ELSE w)
  <2>1. CASE w = NoWindow
    BY <1>2, <2>1 DEF wm_focus_window, WmInv, WmTypes
  <2>2. CASE w \in Window
    <3>1. z_order' = wm_restack(z_order, w) /\ active_window' = w
      BY <1>2, <2>2, TwoWindows DEF wm_focus_window
    <3>2. z_order \in [Window -> Nat] /\ \A v \in Window : z_order[v] > 0
      BY DEF WmInv, WmTypes
    <3>3. z_order' = [v \in Window |-> IF v = w THEN 2 ELSE 1]
      BY <2>2, <3>1, <3>2, Restacked
    <3> QED  BY <2>2, <3>1, <3>3, TwoWindows
  <2> QED  BY <1>1, <2>1, <2>2
<1>4. active_window' # NoWindow
  BY <1>3, TwoWindows
<1> DEFINE a == active_window'
<1>5. CASE InTitle(a, p)
  <2>1. drag_window' = a /\ drag_offset' = Grab(p) /\ Dragged(drag_window', drag_offset', p)
    BY <1>4, <1>5 DEF Press
  <2>2. \A i \in 1 .. 2 : p[i] \in Int /\ pos[a][i] \in Int
    <3>1. p[1] \in Int /\ p[2] \in Int
      BY DEF Screen
    <3>2. \A i \in 1 .. 2 : i = 1 \/ i = 2
      OBVIOUS
    <3> QED  BY <1>3, <3>1, <3>2 DEF WmInv, WmTypes
  <2>3. \A i \in 1 .. 2 : drag_offset'[i] = p[i] - pos[a][i] /\ drag_offset'[i] \in Int
    BY <2>1, <2>2 DEF Grab
  <2> DEFINE at == [i \in 1 .. 2 |-> p[i] - drag_offset'[i]]
  <2>4. \A i \in 1 .. 2 : at[i] = pos[a][i]
    BY <2>2, <2>3
  <2>5. OnScreenAt(a, at) = pos[a]
    <3> HIDE DEF at
    <3>1. OnScreenAt(a, at) \in [1 .. 2 -> Int] /\ \A i \in 1 .. 2 : OnScreenAt(a, at)[i] = pos[a][i]
      BY <1>3, <2>2, <2>4, OnScreenFacts DEF WmInv, WindowsOnScreen
    <3>2. pos[a] \in [1 .. 2 -> Int]
      BY <1>3 DEF WmInv, WmTypes
    <3> QED  BY <3>1, <3>2
  <2>6. pos' = pos
    <3>1. pos' = [pos EXCEPT ![a] = OnScreenAt(a, at)]
      BY <2>1 DEF Dragged
    <3> QED  BY <2>5, <3>1 DEF WmInv, WmTypes
  <2>7. pointer' = p
    BY DEF Press
  <2>8. HeldAtPointer'
    BY <2>1, <2>5, <2>6, <2>7 DEF HeldAtPointer, Dragging
  <2> QED  BY <1>3, <1>5, <2>1, <2>3, <2>6, <2>8 DEF w
<1>6. CASE ~ InTitle(a, p)
  <2>1. drag_window' = NoWindow /\ drag_offset' = drag_offset /\ pos' = pos
    BY <1>6 DEF Press
  <2> QED  BY <1>3, <1>6, <2>1 DEF w, HeldAtPointer, WmInv, WmTypes
<1> QED  BY <1>5, <1>6

LEMMA PressKeeps ==
  ASSUME WmInv, NEW p \in Screen, Press(p)
  PROVE  WmInv' /\ MovesWithPointer
<1>1. pointer' = p /\ held' = TRUE
  BY DEF Press
<1>2. WmTypes'
  BY <1>1, PressFacts DEF WmInv, WmTypes
<1>3. WindowsOnScreen'
  BY PressFacts DEF WmInv, WindowsOnScreen
<1> QED  BY <1>2, <1>3, PressFacts DEF WmInv, MovesWithPointer

LEMMA HoldKeeps ==
  ASSUME WmInv, NEW p \in Screen, Hold(p)
  PROVE  WmInv' /\ MovesWithPointer
<1> DEFINE d == drag_window
           at == [i \in 1 .. 2 |-> p[i] - drag_offset[i]]
<1>1. /\ pointer' = p /\ held /\ UNCHANGED <<held, z_order, active_window, drag_window, drag_offset>>
      /\ IF d = NoWindow THEN UNCHANGED pos ELSE Dragged(d, drag_offset, p)
  BY DEF Hold
<1>2. \A i \in 1 .. 2 : p[i] \in Int /\ pointer[i] \in Int /\ drag_offset[i] \in Int
  <2>1. p[1] \in Int /\ p[2] \in Int /\ pointer[1] \in Int /\ pointer[2] \in Int
    BY DEF Screen, WmInv, WmTypes
  <2>2. \A i \in 1 .. 2 : i = 1 \/ i = 2
    OBVIOUS
  <2> QED  BY <2>1, <2>2 DEF WmInv, WmTypes
<1>3. CASE d = NoWindow
  <2>1. pos' = pos
    BY <1>1, <1>3
  <2>2. WmInv'
    BY <1>1, <1>3, <2>1 DEF WmInv, WmTypes, WindowsOnScreen, HeldAtPointer
  <2> QED  BY <2>1, <2>2 DEF MovesWithPointer
<1>4. CASE d # NoWindow
  <2>1. d \in Window
    BY <1>4 DEF WmInv, WmTypes
  <2>2. pos' = [pos EXCEPT ![d] = OnScreenAt(d, at)]
    BY <1>1, <1>4 DEF Dragged
  <2>3. \A i \in 1 .. 2 : at[i] \in Int /\ Dragging[i] \in Int /\ at[i] = p[i] - drag_offset[i]
                         /\ Dragging[i] = pointer[i] - drag_offset[i]
    BY <1>2 DEF Dragging
  <2>4. pos[d] = OnScreenAt(d, Dragging)
    BY <1>4 DEF WmInv, HeldAtPointer
  <2>5. Dragging' = at
    BY <1>1 DEF Dragging
  <2> HIDE DEF at, d
  <2>6. OnScreenAt(d, at) \in [1 .. 2 -> Int]
        /\ \A i \in 1 .. 2 : OnScreenAt(d, at)[i] >= 0 /\ OnScreenAt(d, at)[i] + WindowSize[d][i] <= Size[i]
    BY <2>1, <2>3, OnScreenFacts
  <2>7. pos \in [Window -> [1 .. 2 -> Int]] /\ pos'[d] = OnScreenAt(d, at) /\ \A w \in Window : w # d => pos'[w] = pos[w]
    BY <2>1, <2>2 DEF WmInv, WmTypes
  <2>8. WmTypes'
    BY <1>1, <2>2, <2>6 DEF WmInv, WmTypes
  <2>9. WindowsOnScreen'
    BY <2>6, <2>7 DEF WmInv, WindowsOnScreen
  <2>10. HeldAtPointer'
    BY <1>1, <2>5, <2>7 DEF HeldAtPointer, d
  <2>11. MovesWithPointer
    <3> SUFFICES ASSUME NEW i \in 1 .. 2 PROVE Distance(pos[d][i], pos'[d][i]) <= Distance(pointer[i], p[i])
      BY <1>1, <2>7 DEF MovesWithPointer, d
    <3> DEFINE m == Size[i] - WindowSize[d][i]
    <3>1. m \in Int
      <4>1. /\ WindowSize[d] \in (1 .. SCREEN_W) \X (WM_TITLE_HEIGHT .. SCREEN_H)
            /\ SCREEN_W \in Nat /\ SCREEN_H \in Nat /\ WM_TITLE_HEIGHT \in Nat
        BY <2>1, WindowsAssumption
      <4>2. i = 1 \/ i = 2
        OBVIOUS
      <4> QED  BY <4>1, <4>2 DEF Size
    <3>2. pos[d][i] = Smaller(Larger(0, Dragging[i]), m) /\ pos'[d][i] = Smaller(Larger(0, at[i]), m)
      BY <2>4, <2>7 DEF OnScreenAt
    <3> HIDE DEF m
    <3>3. Distance(pos[d][i], pos'[d][i]) <= Distance(Dragging[i], at[i])
      BY <2>3, <3>1, <3>2, ClampedMovesLess
    <3>4. Distance(Dragging[i], at[i]) = Distance(pointer[i], p[i])
      BY <1>2, <2>3 DEF Distance
    <3> QED  BY <3>3, <3>4
  <2> QED  BY <2>8, <2>9, <2>10, <2>11 DEF WmInv
<1> QED  BY <1>3, <1>4

LEMMA ReleaseKeeps ==
  ASSUME WmInv, NEW p \in Screen, Release(p)
  PROVE  WmInv' /\ MovesWithPointer
  BY DEF Release, WmInv, WmTypes, WindowsOnScreen, HeldAtPointer, MovesWithPointer

\* the pointer is over a window, whether it is in front or not
Over(w, p) == \A i \in 1 .. 2 : pos[w][i] <= p[i] /\ p[i] < pos[w][i] + WindowSize[w][i]

\* What a window that is painted shows at a place, and leaves of what was painted before.
LEMMA Drawn ==
  ASSUME WmInv, NEW fb, NEW w \in Window, NEW p \in Screen
  PROVE  /\ Over(w, p) => wm_draw_window(fb, w)[p] = <<w, IF InTitle(w, p) THEN "title" ELSE "client">>
         /\ ~ Over(w, p) => wm_draw_window(fb, w)[p] \in {<<w, "shadow">>, fb[p]}
<1> DEFINE from == pos[w]
           to == [i \in 1 .. 2 |-> (from[i] + WindowSize[w][i]) - 1]
           shadow == wm_fill_rect(fb, [i \in 1 .. 2 |-> from[i] + 2], [i \in 1 .. 2 |-> to[i] + 2], <<w, "shadow">>)
           inner == wm_fill_rect(shadow, from, to, <<w, "client">>)
           corner == <<to[1], (from[2] + WM_TITLE_HEIGHT) - 1>>
           title == wm_fill_rect(inner, from, corner, <<w, "title">>)
<1>1. /\ from[1] \in Int /\ from[2] \in Int /\ p[1] \in Int /\ p[2] \in Int
      /\ WindowSize[w][1] \in Int /\ WindowSize[w][2] \in Int
      /\ WM_TITLE_HEIGHT \in Nat /\ WM_TITLE_HEIGHT <= WindowSize[w][2]
  <2>1. WindowSize[w] \in (1 .. SCREEN_W) \X (WM_TITLE_HEIGHT .. SCREEN_H) /\ SCREEN_W \in Nat
        /\ SCREEN_H \in Nat /\ WM_TITLE_HEIGHT \in Nat
    BY WindowsAssumption
  <2>2. pos[w] \in [1 .. 2 -> Int]
    BY DEF WmInv, WmTypes
  <2>3. p[1] \in Int /\ p[2] \in Int
    BY DEF Screen
  <2> QED  BY <2>1, <2>2, <2>3
<1>2. to[1] = (from[1] + WindowSize[w][1]) - 1 /\ to[2] = (from[2] + WindowSize[w][2]) - 1
  OBVIOUS
<1>3. wm_draw_window(fb, w) = title
  BY DEF wm_draw_window
<1>4. shadow[p] \in {<<w, "shadow">>, fb[p]}
  BY DEF wm_fill_rect
<1> HIDE DEF shadow
<1>5. inner[p] = IF \A i \in 1 .. 2 : from[i] <= p[i] /\ p[i] <= to[i] THEN <<w, "client">> ELSE shadow[p]
  BY DEF wm_fill_rect
<1> HIDE DEF inner
<1>6. title[p] = IF \A i \in 1 .. 2 : from[i] <= p[i] /\ p[i] <= corner[i] THEN <<w, "title">> ELSE inner[p]
  BY DEF wm_fill_rect
<1>7. corner[1] = to[1] /\ corner[2] = (from[2] + WM_TITLE_HEIGHT) - 1
  OBVIOUS
<1> HIDE DEF title, corner
<1>8. \A i \in 1 .. 2 : i = 1 \/ i = 2
  OBVIOUS
<1>9. Over(w, p) <=> \A i \in 1 .. 2 : from[i] <= p[i] /\ p[i] <= to[i]
  BY <1>1, <1>2, <1>8 DEF Over
<1>10. (\A i \in 1 .. 2 : from[i] <= p[i] /\ p[i] <= corner[i]) <=> Over(w, p) /\ InTitle(w, p)
  <2>1. (\A i \in 1 .. 2 : from[i] <= p[i] /\ p[i] <= corner[i])
          <=> /\ from[1] <= p[1] /\ p[1] <= to[1]
              /\ from[2] <= p[2] /\ p[2] <= (from[2] + WM_TITLE_HEIGHT) - 1
    BY <1>7, <1>8
  <2>2. Over(w, p) <=> /\ from[1] <= p[1] /\ p[1] <= to[1] /\ from[2] <= p[2] /\ p[2] <= to[2]
    BY <1>8, <1>9
  <2>3. InTitle(w, p) <=> p[2] < from[2] + WM_TITLE_HEIGHT
    BY DEF InTitle
  <2> HIDE DEF to, from
  <2> QED  BY <1>1, <1>2, <2>1, <2>2, <2>3
<1> QED  BY <1>3, <1>4, <1>5, <1>6, <1>9, <1>10

\* The window that is hit is the front one of those under the pointer.
LEMMA Hit ==
  ASSUME WmInv, NEW p, NEW f \in Window, NEW b \in Window, z_order[f] = 2, z_order[b] = 1
  PROVE  wm_hit_test(p) = IF Over(f, p) THEN f ELSE IF Over(b, p) THEN b ELSE NoWindow
<1> DEFINE here == {w \in Open(z_order) : \A i \in 1 .. 2 : pos[w][i] <= p[i] /\ p[i] < pos[w][i] + WindowSize[w][i]}
<1>1. here = {w \in Window : Over(w, p)}
  BY DEF Open, Over, WmInv, WmTypes
<1>2. wm_hit_test(p) = IF here = {} THEN NoWindow ELSE CHOOSE w \in here : \A v \in here : z_order[v] <= z_order[w]
  BY DEF wm_hit_test
<1>3. Window = {f, b} /\ f # b
  BY TwoWindows
<1> HIDE DEF here
<1>4. CASE Over(f, p)
  <2>1. f \in here /\ here \subseteq {f, b}
    BY <1>1, <1>3, <1>4
  <2>2. \A w \in here : (\A v \in here : z_order[v] <= z_order[w]) <=> w = f
    BY <2>1
  <2>3. (CHOOSE w \in here : \A v \in here : z_order[v] <= z_order[w]) = f
    BY <2>1, <2>2
  <2> QED  BY <1>2, <1>4, <2>1, <2>3
<1>5. CASE ~ Over(f, p) /\ Over(b, p)
  <2>1. here = {b}
    BY <1>1, <1>3, <1>5
  <2>2. (CHOOSE w \in here : \A v \in here : z_order[v] <= z_order[w]) = b
    BY <2>1
  <2> QED  BY <1>2, <1>5, <2>1, <2>2
<1>6. CASE ~ Over(f, p) /\ ~ Over(b, p)
  BY <1>1, <1>2, <1>3, <1>6
<1> QED  BY <1>4, <1>5, <1>6

LEMMA PressSeen ==
  ASSUME WmInv, NEW p \in Screen, Press(p)
  PROVE  PressFocusesSeen
<1> DEFINE f == active_window
<1>1. PICK b \in Window : z_order[b] = 1 /\ b # f /\ Window = {f, b}
  BY TwoWindows DEF WmInv, WmTypes
<1>2. f \in Window /\ z_order[f] = 2
  BY DEF WmInv, WmTypes
<1>3. BackToFront = <<b, f>>
  BY <1>1, <1>2, TwoWindows DEF BackToFront
<1> DEFINE under == wm_draw_window(wm_draw_desktop, b)
           seen == wm_paint_all[p]
<1>4. wm_paint_all = wm_draw_window(under, f)
  <2>1. f \in Open(z_order) /\ b \in Open(z_order)
    BY <1>1, <1>2 DEF Open
  <2> QED  BY <1>3, <2>1 DEF wm_paint_all
<1>5. wm_draw_desktop[p] = <<NoWindow, "background">>
  BY DEF wm_draw_desktop
<1> SUFFICES ASSUME seen[2] \notin {"shadow", "background"}
             PROVE  active_window' = seen[1] /\ (drag_window' = seen[1] <=> seen[2] = "title")
  BY DEF PressFocusesSeen, Press
<1>6. PICK w \in Window : seen = <<w, IF InTitle(w, p) THEN "title" ELSE "client">> /\ wm_hit_test(p) = w
  <2>1. CASE Over(f, p)
    <3>1. seen = <<f, IF InTitle(f, p) THEN "title" ELSE "client">>
      BY <1>2, <1>4, <2>1, Drawn
    <3>2. wm_hit_test(p) = f
      BY <1>1, <1>2, <2>1, Hit
    <3> QED  BY <1>2, <3>1, <3>2
  <2>2. CASE ~ Over(f, p)
    <3>1. seen = under[p]
      <4>1. seen \in {<<f, "shadow">>, under[p]}
        BY <1>2, <1>4, <2>2, Drawn
      <4> QED  BY <4>1
    <3>2. Over(b, p)
      <4> SUFFICES ASSUME ~ Over(b, p) PROVE FALSE
        OBVIOUS
      <4>1. under[p] \in {<<b, "shadow">>, <<NoWindow, "background">>}
        BY <1>1, <1>5, Drawn
      <4> QED  BY <3>1, <4>1
    <3>3. seen = <<b, IF InTitle(b, p) THEN "title" ELSE "client">>
      BY <1>1, <3>1, <3>2, Drawn
    <3>4. wm_hit_test(p) = b
      BY <1>1, <1>2, <2>2, <3>2, Hit
    <3> QED  BY <1>1, <3>3, <3>4
  <2> QED  BY <2>1, <2>2
<1>7. active_window' = w /\ drag_window' = IF InTitle(w, p) THEN w ELSE NoWindow
  BY <1>6, PressFacts, TwoWindows
<1> HIDE DEF seen
<1> QED  BY <1>6, <1>7, TwoWindows

(* WindowsAsSeen for every size of screen and windows that fit it with     *)
(* their title bars, wherever they are opened: the z_orders stay 1 and 2   *)
(* with the focus on top, windows stay on the screen and move only with    *)
(* the pointer, and a press finds the window and the title bar that the    *)
(* screen shows at the pointer (wm.c:728-966).                             *)
THEOREM WindowsAlwaysAsSeen == WindowsSpec => WindowsAsSeen
<1>1. wm_init => WmInv
  BY WmInitially
<1>2. WmInv /\ [wmNext]_wmVars => WmInv' /\ [PressFocusesSeen /\ MovesWithPointer]_wmVars
  <2> SUFFICES ASSUME WmInv, [wmNext]_wmVars
               PROVE  WmInv' /\ [PressFocusesSeen /\ MovesWithPointer]_wmVars
    OBVIOUS
  <2>1. CASE UNCHANGED wmVars
    BY <2>1 DEF wmVars, WmInv, WmTypes, WindowsOnScreen, HeldAtPointer, Dragging
  <2>2. CASE wmNext
    <3>1. PICK p \in Screen : Press(p) \/ Hold(p) \/ Release(p)
      BY <2>2 DEF wmNext
    <3>2. CASE Press(p)
      BY <3>2, PressKeeps, PressSeen
    <3>3. CASE Hold(p)
      <4>1. PressFocusesSeen
        BY <3>3 DEF Hold, PressFocusesSeen
      <4> QED  BY <3>3, <4>1, HoldKeeps
    <3>4. CASE Release(p)
      <4>1. PressFocusesSeen
        BY <3>4 DEF Release, PressFocusesSeen
      <4> QED  BY <3>4, <4>1, ReleaseKeeps
    <3> QED  BY <3>1, <3>2, <3>3, <3>4
  <2> QED  BY <2>1, <2>2
<1>3. WmInv => StackExact /\ WindowsOnScreen
  <2> SUFFICES ASSUME WmInv PROVE StackExact
    BY DEF WmInv
  <2>1. \A w \in Window : z_order[w] \in 1 .. 2
    BY DEF WmInv, WmTypes
  <2>2. {z_order[w] : w \in Window} = {1, 2}
    <3>1. z_order[Files] \in {1, 2} /\ z_order[TTY] \in {1, 2} /\ z_order[Files] # z_order[TTY]
      BY <2>1, TwoWindows DEF WmInv, WmTypes
    <3> QED  BY <3>1, TwoWindows
  <2>3. {1, 2} = 1 .. 2
    OBVIOUS
  <2> QED  BY <2>2, <2>3, TwoWindows DEF StackExact, WmInv, WmTypes
<1> QED  BY <1>1, <1>2, <1>3, PTL DEF WindowsSpec, WindowsAsSeen

(***************************************************************************)
(* The keyboard: what is on its way from the keys to in_process() is the   *)
(* codes of a sequence of presses and releases, the first of which may     *)
(* have been read in part.                                                 *)
(***************************************************************************)
KeySpec == KeyInit /\ [][KeyNext]_keyVars

ScanByte == {"1E", "2A", "3A", "45", "4B", "7A", "38", "37", "1D", "E0", "E1"} \X BOOLEAN
\* what comes from the keyboard: keys, and its answers to set_leds()
SentKeys == AllKeys \cup {"KB_ACK"}
Modifiers == [shift_l : BOOLEAN, alt_l : BOOLEAN, caps_lock : BOOLEAN, num_lock : BOOLEAN]
\* what a key means under the modifiers m
Meaning(k, m) ==
  [symbol |-> IF k = "a" THEN Letter(m) ELSE IF k = "PAD_4" THEN NumPad(m) ELSE k, flags |-> KeyFlags(m)]
Meant == [symbol : SentKeys \cup {"A", "4", "LEFT"}, flags : [shift : BOOLEAN, alt : BOOLEAN]]

\* the bytes of the code that is read, of kb_in and of the keyboard
InFlight(g, k, b) ==
  [j \in 1 .. Len(g) + Len(k) + Len(b) |->
     IF j <= Len(g) THEN g[j] ELSE IF j <= Len(g) + Len(k) THEN k[j - Len(g)] ELSE b[j - Len(g) - Len(k)]]

\* the i-th of the keys on their way: its code is what lies from at[i] on, it
\* makes of the modifiers md[i] those of md[i + 1], and is the press no[i + 1]
OnItsWay(i, s, said, ev, mk, at, md, no) ==
  /\ (ev[i] = "PAUSEBREAK" => mk[i]) /\ (ev[i] = "KB_ACK" => ~ mk[i])
  /\ at[i + 1] = at[i] + Len(ScanCode(ev[i], ~ mk[i]))
  /\ \A j \in 1 .. Len(ScanCode(ev[i], ~ mk[i])) : s[at[i] + j] = ScanCode(ev[i], ~ mk[i])[j]
  /\ md[i + 1] = Modified(md[i], ev[i], mk[i])
  /\ no[i + 1] = no[i] + IF mk[i] THEN 1 ELSE 0
  /\ mk[i] => no[i + 1] \in 1 .. Len(said) /\ said[no[i + 1]] = Meaning(ev[i], md[i + 1])
\* s2 is s and the code c behind it; s2 is s without its first L bytes
LongerBy(s, s2, len, c) == (\A j \in 1 .. len : s2[j] = s[j]) /\ \A j \in 1 .. Len(c) : s2[len + j] = c[j]
WithoutFirst(s, s2, len, L) == \A j \in 1 .. len - L : s2[j] = s[L + j]
CodeFor(k, made, code) == code = ScanCode(k, ~ made)
Recorded(said, k, t, made) == IF made THEN Append(said, Meaning(k, Modified(t, k, made))) ELSE said
Queued(s, len, m, t, done, said, n, ev, mk, at, md, no) ==
  /\ n \in Nat /\ ev \in [Nat -> SentKeys] /\ mk \in [Nat -> BOOLEAN]
  /\ at \in [Nat -> Int] /\ md \in [Nat -> Modifiers] /\ no \in [Nat -> Int]
  /\ at[0] = 0 /\ at[n] = len /\ md[0] = m /\ md[n] = t /\ no[0] = done /\ no[n] = Len(said)
  /\ \A i \in 0 .. n - 1 : OnItsWay(i, s, said, ev, mk, at, md, no)
  /\ \A i, j \in 0 .. n : i <= j => j - i <= at[j] - at[i] /\ no[i] <= no[j]

KeyTypes ==
  /\ KeyTypeOK /\ "PAUSEBREAK" \notin down
  /\ bytes \in Seq(ScanByte) /\ kb_in \in Seq(ScanByte) /\ got \in Seq(ScanByte)
  /\ full \in BOOLEAN /\ stale \in BOOLEAN /\ eaten \in BOOLEAN
KeyOrder ==
  /\ typed \in Modifiers /\ mods \in Modifiers /\ out \in Seq(Meant) /\ meant \in Seq(Meant)
  /\ \A i \in 1 .. Len(out) : i <= Len(meant) /\ out[i] = meant[i]
  /\ \E n, ev, mk, at, md, no :
       /\ Queued(InFlight(got, kb_in, bytes), Len(got) + Len(kb_in) + Len(bytes), mods, typed, Len(out), meant,
                 n, ev, mk, at, md, no)
       /\ n > 0 => Len(got) < Len(ScanCode(ev[0], ~ mk[0]))
KeyInv == KeyTypes /\ (Sound => KeyOrder)

LEMMA ShortSequences ==
  ASSUME NEW S, NEW x1 \in S, NEW x2 \in S, NEW x3 \in S, NEW x4 \in S, NEW x5 \in S, NEW x6 \in S
  PROVE  /\ <<x1>> \in Seq(S) /\ Len(<<x1>>) = 1 /\ <<x1>>[1] = x1
         /\ <<x1, x2>> \in Seq(S) /\ Len(<<x1, x2>>) = 2 /\ <<x1, x2>>[1] = x1 /\ <<x1, x2>>[2] = x2
         /\ <<x1, x2, x3, x4>> \in Seq(S) /\ Len(<<x1, x2, x3, x4>>) = 4
         /\ <<x1, x2, x3, x4>>[1] = x1 /\ <<x1, x2, x3, x4>>[2] = x2
         /\ <<x1, x2, x3, x4>>[3] = x3 /\ <<x1, x2, x3, x4>>[4] = x4
         /\ <<x1, x2, x3, x4, x5, x6>> \in Seq(S) /\ Len(<<x1, x2, x3, x4, x5, x6>>) = 6
         /\ <<x1, x2, x3, x4, x5, x6>>[1] = x1 /\ <<x1, x2, x3, x4, x5, x6>>[2] = x2
  OBVIOUS

LEMMA LongCodes ==
  /\ E0 \in ScanByte /\ E1 \in ScanByte /\ E0 # E1
  /\ \A c \in {"1E", "2A", "3A", "45", "4B", "7A", "38", "37", "1D"}, b \in BOOLEAN :
       <<c, b>> \in ScanByte /\ <<c, b>> # E0 /\ <<c, b>> # E1
  /\ PrintMake \in Seq(ScanByte) /\ Len(PrintMake) = 4
  /\ PrintMake[1] = E0 /\ PrintMake[2] = <<"2A", FALSE>> /\ PrintMake[4] = <<"37", FALSE>>
  /\ PrintBreak \in Seq(ScanByte) /\ Len(PrintBreak) = 4
  /\ PrintBreak[1] = E0 /\ PrintBreak[2] = <<"37", TRUE>> /\ PrintBreak[4] = <<"2A", TRUE>>
  /\ PauseCode \in Seq(ScanByte) /\ Len(PauseCode) = 6
  /\ PauseCode[1] = E1 /\ PauseCode[2] = <<"1D", FALSE>>
<1>1. /\ E0 \in ScanByte /\ E1 \in ScanByte /\ E0 # E1
      /\ \A c \in {"1E", "2A", "3A", "45", "4B", "7A", "38", "37", "1D"}, b \in BOOLEAN :
           <<c, b>> \in ScanByte /\ <<c, b>> # E0 /\ <<c, b>> # E1
  BY DEF E0, E1, ScanByte
<1> DEFINE m2 == <<"2A", FALSE>>  m37 == <<"37", FALSE>>  b2 == <<"2A", TRUE>>  b37 == <<"37", TRUE>>
           m1 == <<"1D", FALSE>>  m4 == <<"45", FALSE>>  b1 == <<"1D", TRUE>>  b4 == <<"45", TRUE>>
<1>2. {m2, m37, b2, b37, m1, m4, b1, b4} \subseteq ScanByte
  BY <1>1
<1>3. PrintMake = <<E0, m2, E0, m37>> /\ PrintBreak = <<E0, b37, E0, b2>> /\ PauseCode = <<E1, m1, m4, E1, b1, b4>>
  BY DEF PrintMake, PrintBreak, PauseCode
<1>4. m2 = <<"2A", FALSE>> /\ m37 = <<"37", FALSE>> /\ b2 = <<"2A", TRUE>> /\ b37 = <<"37", TRUE>>
      /\ m1 = <<"1D", FALSE>>
  OBVIOUS
<1> HIDE DEF m2, m37, b2, b37, m1, m4, b1, b4
<1>5. /\ PrintMake \in Seq(ScanByte) /\ Len(PrintMake) = 4
      /\ PrintMake[1] = E0 /\ PrintMake[2] = m2 /\ PrintMake[4] = m37
  BY <1>1, <1>2, <1>3, ShortSequences
<1>6. /\ PrintBreak \in Seq(ScanByte) /\ Len(PrintBreak) = 4
      /\ PrintBreak[1] = E0 /\ PrintBreak[2] = b37 /\ PrintBreak[4] = b2
  BY <1>1, <1>2, <1>3, ShortSequences
<1>7. /\ PauseCode \in Seq(ScanByte) /\ Len(PauseCode) = 6
      /\ PauseCode[1] = E1 /\ PauseCode[2] = m1
  BY <1>1, <1>2, <1>3, ShortSequences
<1> QED
  BY <1>1, <1>4, <1>5, <1>6, <1>7

LEMMA ShortCodes ==
  ASSUME NEW b \in BOOLEAN
  PROVE  /\ ScanCode("ALT_R", b) = <<E0, <<"38", b>>>>
         /\ ScanCode("ALT_R", b) \in Seq(ScanByte) /\ Len(ScanCode("ALT_R", b)) = 2
         /\ ScanCode("ALT_R", b)[1] = E0 /\ ScanCode("ALT_R", b)[2] = <<"38", b>>
         /\ \A k \in {"a", "SHIFT_L", "CAPS_LOCK", "NUM_LOCK", "PAD_4", "KB_ACK"} :
              /\ CodeOf[k] \in {"1E", "2A", "3A", "45", "4B", "7A"}
              /\ ScanCode(k, b) \in Seq(ScanByte) /\ Len(ScanCode(k, b)) = 1
              /\ ScanCode(k, b)[1] = <<CodeOf[k], b>>
<1> DEFINE x == <<"38", b>>
<1>1. ScanCode("ALT_R", b) = <<E0, x>> /\ x \in ScanByte
  BY LongCodes DEF ScanCode
<1> HIDE DEF x
<1>2. <<E0, x>> \in Seq(ScanByte) /\ Len(<<E0, x>>) = 2 /\ <<E0, x>>[1] = E0 /\ <<E0, x>>[2] = x
  BY <1>1, LongCodes, ShortSequences
<1>3. ASSUME NEW k \in {"a", "SHIFT_L", "CAPS_LOCK", "NUM_LOCK", "PAD_4", "KB_ACK"}
      PROVE  /\ CodeOf[k] \in {"1E", "2A", "3A", "45", "4B", "7A"}
             /\ ScanCode(k, b) \in Seq(ScanByte) /\ Len(ScanCode(k, b)) = 1
             /\ ScanCode(k, b)[1] = <<CodeOf[k], b>>
  <2> DEFINE y == <<CodeOf[k], b>>
  <2>1. CodeOf[k] \in {"1E", "2A", "3A", "45", "4B", "7A"}
    BY DEF CodeOf
  <2>2. ScanCode(k, b) = <<y>> /\ y \in ScanByte
    BY <2>1, LongCodes DEF ScanCode
  <2> HIDE DEF y
  <2>3. <<y>> \in Seq(ScanByte) /\ Len(<<y>>) = 1 /\ <<y>>[1] = y
    BY <2>2, ShortSequences
  <2> QED
    BY <2>1, <2>2, <2>3 DEF y
<1> QED
  BY <1>1, <1>2, <1>3 DEF x

LEMMA CodesOfKeys ==
  ASSUME NEW k \in SentKeys, NEW b \in BOOLEAN, k = "PAUSEBREAK" => ~ b
  PROVE  /\ ScanCode(k, b) \in Seq(ScanByte)
         /\ Len(ScanCode(k, b)) \in Nat \ {0}
<1>1. CASE k = "PRINTSCREEN"
  BY <1>1, LongCodes DEF ScanCode
<1>2. CASE k = "PAUSEBREAK"
  BY <1>2, LongCodes DEF ScanCode
<1> QED
  BY <1>1, <1>2, ShortCodes DEF AllKeys, SentKeys

\* a code is read to its end and not further
LEMMA ReadToItsEnd ==
  ASSUME NEW k \in SentKeys, NEW b \in BOOLEAN, k = "PAUSEBREAK" => ~ b,
         NEW g \in Seq(ScanByte), Len(g) \in 1 .. Len(ScanCode(k, b)),
         \A j \in 1 .. Len(g) : g[j] = ScanCode(k, b)[j]
  PROVE  More(g) <=> Len(g) < Len(ScanCode(k, b))
<1> DEFINE s == ScanCode(k, b)
<1>1. s \in Seq(ScanByte) /\ Len(s) \in Nat \ {0} /\ Len(g) \in 1 .. Len(s) /\ \A j \in 1 .. Len(g) : g[j] = s[j]
  BY CodesOfKeys
<1>2. \A t \in Special : t \in Seq(ScanByte) /\ Len(t) \in {4, 6}
  BY LongCodes DEF Special
<1>3. ASSUME NEW t \in Special, Len(g) < Len(t), g = SubSeq(t, 1, Len(g))
      PROVE  \A j \in 1 .. Len(g) : g[j] = t[j]
  BY <1>2, <1>3, SubSeqProperties
<1>4. CASE k \in {"PRINTSCREEN", "PAUSEBREAK"}
  <2>1. s \in Special /\ Len(s) = (IF k = "PRINTSCREEN" THEN 4 ELSE 6) /\ s[1] = (IF k = "PRINTSCREEN" THEN E0 ELSE E1)
    BY <1>4, LongCodes DEF ScanCode, Special
  <2>2. ASSUME Len(g) < Len(s)
        PROVE  g = SubSeq(s, 1, Len(g))
    <3> HIDE DEF s
    <3> QED  BY <1>1, <2>2
  <2>3. ASSUME Len(g) = Len(s), NEW t \in Special, Len(g) < Len(t), g = SubSeq(t, 1, Len(g))
        PROVE  FALSE
    <3>1. t = PauseCode /\ Len(g) = 4 /\ k = "PRINTSCREEN"
      BY <2>1, <2>3, LongCodes DEF Special
    <3>2. g[1] = t[1]
      BY <2>3, <1>3, <3>1
    <3> QED
      BY <3>1, <3>2, <2>1, <1>1, LongCodes
  <2> HIDE DEF s
  <2>4. ASSUME Len(g) < Len(s)
        PROVE  More(g)
    BY <2>1, <2>2, <2>4 DEF More
  <2>5. ASSUME ~ (Len(g) < Len(s)), More(g)
        PROVE  FALSE
    BY <2>3, <2>5, <1>1 DEF More
  <2> QED
    BY <2>4, <2>5 DEF s
<1>5. CASE k = "ALT_R"
  <2>1. Len(s) = 2 /\ s[1] = E0 /\ s[2] = <<"38", b>>
    BY <1>5, ShortCodes
  <2>2. ASSUME Len(g) = 1
        PROVE  More(g)
    <3>1. PrintMake \in Special /\ Len(PrintMake) = 4 /\ PrintMake[1] = E0 /\ g[1] = E0 /\ PrintMake \in Seq(ScanByte)
      BY <2>1, <2>2, <1>1, LongCodes DEF Special
    <3>2. g = SubSeq(PrintMake, 1, Len(g))
      BY <3>1, <2>2
    <3>3. Len(g) < Len(PrintMake)
      BY <3>1, <2>2
    <3> QED
      BY <3>1, <3>2, <3>3, Zenon DEF More
  <2>3. ASSUME Len(g) = 2, NEW t \in Special, Len(g) < Len(t), g = SubSeq(t, 1, Len(g))
        PROVE  FALSE
    <3>1. t[2] = <<"38", b>>
      BY <2>1, <2>3, <1>1, <1>3
    <3> QED
      BY <3>1, LongCodes DEF Special
  <2> HIDE DEF s
  <2>4. Len(g) \in {1, 2}
    BY <2>1, <1>1
  <2> QED
    BY <2>1, <2>2, <2>3, <2>4, SMTT(40) DEF More, s
<1>6. CASE k \in {"a", "SHIFT_L", "CAPS_LOCK", "NUM_LOCK", "PAD_4", "KB_ACK"}
  <2>1. Len(s) = 1 /\ s[1] = <<CodeOf[k], b>> /\ CodeOf[k] \in {"1E", "2A", "3A", "45", "4B", "7A"}
    BY <1>6, ShortCodes
  <2>2. ASSUME NEW t \in Special, Len(g) < Len(t), g = SubSeq(t, 1, Len(g))
        PROVE  FALSE
    <3>1. t[1] = <<CodeOf[k], b>>
      BY <2>1, <2>2, <1>1, <1>3
    <3> QED
      BY <3>1, <2>1, LongCodes DEF Special
  <2> HIDE DEF s
  <2>3. ~ More(g)
    BY <2>2 DEF More
  <2>4. ~ (Len(g) < Len(s))
    BY <1>1, <2>1
  <2> QED
    BY <2>3, <2>4 DEF s
<1> QED
  BY <1>4, <1>5, <1>6 DEF AllKeys, SentKeys

\* keyboard_read() makes of a code what the key means, or of a stale local
LEMMA DecodedAsMeant ==
  ASSUME NEW k \in SentKeys, NEW b \in BOOLEAN, k = "PAUSEBREAK" => ~ b, mods \in Modifiers,
         k = "KB_ACK" => b, Decode(ScanCode(k, b)), ~ stale'
  PROVE  /\ ~ stale
         /\ mods' = Modified(mods, k, ~ b)
         /\ out' = IF b THEN out ELSE Append(out, Meaning(k, mods'))
<1> DEFINE g == ScanCode(k, b)
<1>1. CASE k = "PAUSEBREAK"
  <2>1. g = PauseCode /\ g \in Special /\ g \notin {PrintMake, PrintBreak}
    BY <1>1, LongCodes DEF ScanCode, Special
  <2> QED
    BY <2>1 DEF Decode
<1>2. CASE k = "PRINTSCREEN"
  <2>1. g = (IF b THEN PrintBreak ELSE PrintMake) /\ g \in Special /\ g # PauseCode /\ (g = PrintMake <=> ~ b)
    BY <1>2, LongCodes DEF ScanCode, Special
  <2>2. DecodeAs(g, k, ~ b, mods) /\ ~ stale
    BY <1>2, <2>1 DEF Decode
  <2>3. Symbol(k, mods) = k /\ Modified(mods, k, ~ b) = mods
    BY <1>2 DEF Symbol, Modified
  <2> QED
    BY <1>2, <2>2, <2>3 DEF DecodeAs, Meaning
<1>3. CASE k \notin {"PAUSEBREAK", "PRINTSCREEN"}
  <2>1. g \notin Special
    <3>1. Len(g) \in {1, 2}
      BY <1>3, ShortCodes DEF AllKeys, SentKeys
    <3>2. Len(PauseCode) = 6 /\ Len(PrintMake) = 4 /\ Len(PrintBreak) = 4
      BY LongCodes
    <3> HIDE DEF g
    <3> QED
      BY <3>1, <3>2 DEF Special
  <2>2. ~ stale /\ DecodeAs(g, KeyMap(g, mods), ~ Scan(g)[2], Modified(mods, KeyMap(g, mods), ~ Scan(g)[2]))
    <3>1. g \notin Special /\ key \notin {"PAUSEBREAK", "PRINTSCREEN"}
      BY <2>1, LongCodes DEF Decode, Special
    <3> HIDE DEF g
    <3>2. Decode(g)
      BY DEF g
    <3> QED
      BY <3>1, <3>2 DEF Decode
  <2>3. CASE k = "ALT_R"
    <3>1. Len(g) = 2 /\ g[1] = E0 /\ g[2] = <<"38", b>> /\ E0 # E1
      BY <2>3, ShortCodes, LongCodes
    <3> HIDE DEF g
    <3>2. Scan(g) = <<"38", b>> /\ WithE0(g)
      BY <3>1 DEF Scan, WithE0
    <3>3. Scan(g)[1] = "38" /\ Scan(g)[2] = b
      BY <3>2
    <3>4. KeyMap(g, mods) = k
      BY <3>2, <3>3, <2>3 DEF KeyMap
    <3>5. Symbol(k, mods') = k
      BY <2>3 DEF Symbol
    <3> QED
      BY <2>2, <2>3, <3>3, <3>4, <3>5 DEF DecodeAs, Meaning, Symbol
  <2>4. CASE k \in {"a", "SHIFT_L", "CAPS_LOCK", "NUM_LOCK", "PAD_4", "KB_ACK"}
    <3>1. Len(g) = 1 /\ g[1] = <<CodeOf[k], b>> /\ CodeOf[k] \in {"1E", "2A", "3A", "45", "4B", "7A"}
      BY <2>4, ShortCodes
    <3>2. g[1] # E1
      BY <3>1, LongCodes
    <3> HIDE DEF g
    <3>3. Scan(g) = <<CodeOf[k], b>> /\ ~ WithE0(g)
      BY <3>1, <3>2 DEF Scan, WithE0
    <3>4. Scan(g)[1] = CodeOf[k] /\ Scan(g)[2] = b
      BY <3>3
    <3>5. CASE k = "a"
      <4>1. CodeOf[k] = "1E"
        BY <3>5 DEF CodeOf
      <4>2. KeyMap(g, mods) = Letter(mods)
        BY <4>1, <3>3, <3>4 DEF KeyMap
      <4>3. Letter(mods) \in {"A", "a"}
        BY DEF Letter
      <4>4. Modified(mods, Letter(mods), ~ b) = mods /\ Modified(mods, k, ~ b) = mods
        BY <3>5, <4>3 DEF Modified
      <4> QED
        BY <2>2, <3>4, <3>5, <4>2, <4>3, <4>4 DEF DecodeAs, Meaning, Symbol
    <3>6. CASE k = "KB_ACK"
      <4>1. CodeOf[k] = "7A"
        BY <3>6 DEF CodeOf
      <4>2. KeyMap(g, mods) = "other"
        BY <4>1, <3>3, <3>4 DEF KeyMap
      <4>3. Modified(mods, "other", ~ b) = mods /\ Modified(mods, k, ~ b) = mods
        BY <3>6 DEF Modified
      <4> QED
        BY <2>2, <3>4, <3>6, <4>2, <4>3 DEF DecodeAs
    <3>7. CASE k \notin {"a", "KB_ACK"}
      <4>1. CodeOf[k] \in {"2A", "3A", "45", "4B"}
        BY <3>7, <2>4 DEF CodeOf
      <4>2. k \in DOMAIN CodeOf /\ \A j \in DOMAIN CodeOf : CodeOf[j] = CodeOf[k] => j = k
        BY <2>4 DEF CodeOf
      <4>3. (CHOOSE j \in DOMAIN CodeOf : CodeOf[j] = CodeOf[k]) = k
        BY <4>2
      <4>4. KeyMap(g, mods) = k
        BY <3>3, <3>4, <4>1, <4>3 DEF KeyMap
      <4> QED
        BY <2>2, <3>4, <3>7, <4>4 DEF DecodeAs, Meaning, Symbol
    <3> QED
      BY <3>5, <3>6, <3>7
  <2> QED
    BY <1>3, <2>3, <2>4 DEF AllKeys, SentKeys
<1> QED
  BY <1>1, <1>2, <1>3

LEMMA MeansAsModified ==
  ASSUME NEW k \in SentKeys, typed \in Modifiers
  PROVE  /\ Means(k) => /\ typed' = Modified(typed, k, TRUE)
                        /\ meant' = Append(meant, Meaning(k, typed'))
         /\ [typed EXCEPT !.shift_l = @ /\ k # "SHIFT_L", !.alt_l = @ /\ k # "ALT_R"] = Modified(typed, k, FALSE)
         /\ \A m \in Modifiers, made \in BOOLEAN : Modified(m, k, made) \in Modifiers
         /\ \A m \in Modifiers : Meaning(k, m) \in Meant
<1> DEFINE m == [typed EXCEPT !.shift_l = @ \/ k = "SHIFT_L", !.alt_l = @ \/ k = "ALT_R",
                              !.caps_lock = @ # (k = "CAPS_LOCK"), !.num_lock = @ # (k = "NUM_LOCK")]
<1>1. m = Modified(typed, k, TRUE)
  BY ZenonT(60) DEF Modified, Modifiers, AllKeys, SentKeys, Toggle
<1>2. [typed EXCEPT !.shift_l = @ /\ k # "SHIFT_L", !.alt_l = @ /\ k # "ALT_R"] = Modified(typed, k, FALSE)
  BY DEF Modified, Modifiers, AllKeys, SentKeys, Toggle
<1>3. ASSUME NEW d \in Modifiers, NEW made \in BOOLEAN
      PROVE  Modified(d, k, made) \in Modifiers
  BY DEF Modified, Modifiers, AllKeys, SentKeys, Toggle
<1>4. ASSUME NEW d \in Modifiers
      PROVE  Meaning(k, d) \in Meant
  <2>1. KeyFlags(d) \in [shift : BOOLEAN, alt : BOOLEAN]
    BY DEF Modifiers, KeyFlags
  <2>2. (IF k = "a" THEN Letter(d) ELSE IF k = "PAD_4" THEN NumPad(d) ELSE k) \in SentKeys \cup {"A", "4", "LEFT"}
    BY DEF Letter, NumPad, AllKeys, SentKeys
  <2> QED
    BY <2>1, <2>2 DEF Meaning, Meant
<1>5. ASSUME Means(k)
      PROVE  typed' = m /\ meant' = Append(meant, Meaning(k, typed'))
  <2>1. typed' = m
    BY <1>5 DEF Means
  <2>2. m \in Modifiers
    <3> HIDE DEF m
    <3> QED  BY <1>1, <1>3
  <2>3. meant' = Append(meant, [symbol |-> (CASE k = "a" -> IF typed'.shift_l = typed'.caps_lock THEN "a" ELSE "A"
                  [] k = "PAD_4" -> NumPad(typed')
                  [] OTHER -> k), flags |-> KeyFlags(typed')])
    BY <1>5, <2>1 DEF Means
  <2>4. (CASE k = "a" -> IF typed'.shift_l = typed'.caps_lock THEN "a" ELSE "A"
                  [] k = "PAD_4" -> NumPad(typed')
                  [] OTHER -> k) = IF k = "a" THEN Letter(typed') ELSE IF k = "PAD_4" THEN NumPad(typed') ELSE k
    BY DEF Letter
  <2> QED
    BY <2>1, <2>3, <2>4 DEF Meaning
<1> QED
  BY <1>1, <1>2, <1>3, <1>4, <1>5

\* a key is pressed or released
Grown(s2, len, m, t, done, said, n, ev, mk, k, made) ==
  \E n2, ev2, mk2, at2, md2, no2 :
    /\ Queued(s2, len, m, t, done, said, n2, ev2, mk2, at2, md2, no2)
    /\ n2 > 0
    /\ n > 0 => ev2[0] = ev[0] /\ mk2[0] = mk[0]
    /\ n = 0 => ev2[0] = k /\ mk2[0] = made

LEMMA QueueGrows ==
  ASSUME NEW s, NEW s2, NEW len \in Nat, NEW m, NEW t \in Modifiers, NEW done, NEW said \in Seq(Meant),
         NEW n, NEW ev, NEW mk, NEW at, NEW md, NEW no,
         Queued(s, len, m, t, done, said, n, ev, mk, at, md, no),
         NEW k \in SentKeys, NEW made \in BOOLEAN, k = "PAUSEBREAK" => made, k = "KB_ACK" => ~ made,
         NEW code, CodeFor(k, made, code), LongerBy(s, s2, len, code)
  PROVE  Grown(s2, len + Len(code), m, Modified(t, k, made), done, Recorded(said, k, t, made), n, ev, mk, k, made)
<1> DEFINE t2 == Modified(t, k, made)
           said2 == IF made THEN Append(said, Meaning(k, t2)) ELSE said
<1>i. /\ \A j \in 1 .. len : s2[j] = s[j]
      /\ \A j \in 1 .. Len(ScanCode(k, ~ made)) : s2[len + j] = ScanCode(k, ~ made)[j]
      /\ code = ScanCode(k, ~ made)
  BY DEF LongerBy, CodeFor
<1> DEFINE L == Len(ScanCode(k, ~ made))
           x == IF made THEN 1 ELSE 0
           ev2 == [ev EXCEPT ![n] = k]
           mk2 == [mk EXCEPT ![n] = made]
           at2 == [at EXCEPT ![n + 1] = len + L]
           md2 == [md EXCEPT ![n + 1] = t2]
           no2 == [no EXCEPT ![n + 1] = no[n] + x]
<1>1. n \in Nat
  BY DEF Queued
<1>a. /\ ev \in [Nat -> SentKeys] /\ mk \in [Nat -> BOOLEAN]
      /\ at \in [Nat -> Int] /\ md \in [Nat -> Modifiers] /\ no \in [Nat -> Int]
  BY DEF Queued
<1>b. at[0] = 0 /\ at[n] = len /\ md[0] = m /\ md[n] = t /\ no[0] = done /\ no[n] = Len(said)
  BY DEF Queued
<1>c. \A i \in 0 .. n - 1 : OnItsWay(i, s, said, ev, mk, at, md, no)
  BY DEF Queued
<1>d. \A i, j \in 0 .. n : i <= j => j - i <= at[j] - at[i] /\ no[i] <= no[j]
  BY DEF Queued
<1>e. n + 1 \in Nat /\ n \in 0 .. n /\ Len(said) \in Nat /\ x \in {0, 1} /\ \A i \in 0 .. n - 1 : i \in 0 .. n /\ i + 1 \in 0 .. n /\ i # n /\ i \in Nat /\ i + 1 # n + 1
  BY <1>1
<1>f. \A i \in 0 .. n : i \in Nat /\ i # n + 1 /\ i <= n
  BY <1>1
<1>2. L \in Nat \ {0} /\ t2 \in Modifiers /\ Meaning(k, t2) \in Meant
  <2>1. Modified(t, k, made) \in Modifiers
    BY DEF Modified, Modifiers, AllKeys, SentKeys, Toggle
  <2>2. \A d \in Modifiers : Meaning(k, d) \in Meant
    <3> SUFFICES ASSUME NEW d \in Modifiers
                 PROVE  Meaning(k, d) \in Meant
      OBVIOUS
    <3>1. KeyFlags(d) \in [shift : BOOLEAN, alt : BOOLEAN]
      BY DEF Modifiers, KeyFlags
    <3>2. (IF k = "a" THEN Letter(d) ELSE IF k = "PAD_4" THEN NumPad(d) ELSE k) \in SentKeys \cup {"A", "4", "LEFT"}
      BY DEF Letter, NumPad, AllKeys, SentKeys
    <3> QED
      BY <3>1, <3>2 DEF Meaning, Meant
  <2> QED
    BY <2>1, <2>2, CodesOfKeys
<1>3. /\ ev2 \in [Nat -> SentKeys] /\ mk2 \in [Nat -> BOOLEAN]
      /\ at2 \in [Nat -> Int] /\ md2 \in [Nat -> Modifiers] /\ no2 \in [Nat -> Int]
      /\ ev2[n] = k /\ mk2[n] = made /\ at2[n + 1] = len + L /\ md2[n + 1] = t2 /\ no2[n + 1] = Len(said) + x
      /\ \A i \in 0 .. n - 1 : ev2[i] = ev[i] /\ mk2[i] = mk[i]
      /\ \A i \in 0 .. n : at2[i] = at[i] /\ md2[i] = md[i] /\ no2[i] = no[i]
  <2> HIDE DEF L, x
  <2>1. no[n] \in Int /\ no[n] + x \in Int /\ len + L \in Int
    BY <1>1, <1>a, <1>2, <1>e
  <2>2. /\ ev2 \in [Nat -> SentKeys] /\ mk2 \in [Nat -> BOOLEAN]
        /\ at2 \in [Nat -> Int] /\ md2 \in [Nat -> Modifiers] /\ no2 \in [Nat -> Int]
        /\ ev2[n] = k /\ mk2[n] = made /\ at2[n + 1] = len + L /\ md2[n + 1] = t2 /\ no2[n + 1] = Len(said) + x
    BY <2>1, <1>1, <1>a, <1>b, <1>2, <1>e
  <2>3. ASSUME NEW i \in Nat
        PROVE  /\ i # n => ev2[i] = ev[i] /\ mk2[i] = mk[i]
               /\ i # n + 1 => at2[i] = at[i] /\ md2[i] = md[i] /\ no2[i] = no[i]
    BY <1>a
  <2> HIDE DEF ev2, mk2, at2, md2, no2
  <2> QED  BY <2>2, <2>3, <1>e, <1>f
<1>j. t2 = Modified(t, k, made) /\ said2 = IF made THEN Append(said, Meaning(k, t2)) ELSE said
  OBVIOUS
<1>4. /\ Len(said2) = Len(said) + x
      /\ \A i \in 1 .. Len(said) : said2[i] = said[i]
      /\ made => said2[Len(said) + 1] = Meaning(k, t2)
  BY <1>2, <1>e, <1>j
<1>g. made => x = 1
  OBVIOUS
<1>h. x = IF made THEN 1 ELSE 0
  OBVIOUS
<1> HIDE DEF ev2, mk2, at2, md2, no2, x, L, t2, said2
<1>5. ASSUME NEW i \in 0 .. n - 1
      PROVE  OnItsWay(i, s2, said2, ev2, mk2, at2, md2, no2)
  <2> DEFINE c == ScanCode(ev[i], ~ mk[i])
  <2>1. /\ (ev[i] = "PAUSEBREAK" => mk[i]) /\ (ev[i] = "KB_ACK" => ~ mk[i])
        /\ at[i + 1] = at[i] + Len(c)
        /\ \A j \in 1 .. Len(c) : s[at[i] + j] = c[j]
        /\ md[i + 1] = Modified(md[i], ev[i], mk[i])
        /\ no[i + 1] = no[i] + IF mk[i] THEN 1 ELSE 0
        /\ mk[i] => no[i + 1] \in 1 .. Len(said) /\ said[no[i + 1]] = Meaning(ev[i], md[i + 1])
    BY <1>c DEF OnItsWay
  <2>2. i \in 0 .. n /\ i + 1 \in 0 .. n /\ i \in Nat /\ i + 1 \in Nat
    BY <1>e, <1>f
  <2>3. at[i] \in Nat /\ at[i + 1] <= len
    <3>1. 0 \in 0 .. n /\ 0 <= i /\ i + 1 <= n /\ i + 1 \in Int /\ n \in Int
      BY <2>2, <1>1
    <3>2. i - 0 <= at[i] - at[0] /\ n - (i + 1) <= at[n] - at[i + 1]
      BY <3>1, <2>2, <1>e, <1>d
    <3>3. at[i] \in Int /\ at[i + 1] \in Int
      BY <2>2, <1>a
    <3> QED
      BY <3>1, <3>2, <3>3, <2>2, <1>b
  <2>4. Len(c) \in Nat
    BY <1>a, <2>1, <2>2, CodesOfKeys
  <2> HIDE DEF c
  <2>5. \A j \in 1 .. Len(c) : s2[at[i] + j] = c[j]
    <3>1. \A j \in 1 .. Len(c) : at[i] + j \in 1 .. len
      BY <2>1, <2>3, <2>4, SMTT(40)
    <3> QED
      BY <3>1, <2>1, <1>i
  <2>6. Len(said) <= Len(said2)
    BY <1>e, <1>4
  <2>7. mk[i] => no[i + 1] \in 1 .. Len(said2) /\ said2[no[i + 1]] = Meaning(ev[i], md[i + 1])
    <3>1. \A u \in 1 .. Len(said) : u \in 1 .. Len(said2)
      BY <2>6, <1>e, <1>4
    <3> QED
      BY <3>1, <2>1, <1>4
  <2>8. /\ ev2[i] = ev[i] /\ mk2[i] = mk[i] /\ at2[i] = at[i] /\ at2[i + 1] = at[i + 1]
        /\ md2[i] = md[i] /\ md2[i + 1] = md[i + 1] /\ no2[i] = no[i] /\ no2[i + 1] = no[i + 1]
    BY <1>3, <2>2
  <2> QED
    BY <2>1, <2>5, <2>7, <2>8 DEF OnItsWay, c
<1>6. OnItsWay(n, s2, said2, ev2, mk2, at2, md2, no2)
  <2>2. /\ ev2[n] = k /\ mk2[n] = made /\ at2[n] = len /\ at2[n + 1] = len + L
        /\ md2[n] = t /\ md2[n + 1] = t2 /\ no2[n] = Len(said) /\ no2[n + 1] = Len(said) + x
    BY <1>3, <1>b, <1>e
  <2>3. made => Len(said) + x \in 1 .. Len(said2) /\ said2[Len(said) + x] = Meaning(k, t2)
    <3>1. SUFFICES ASSUME made
                   PROVE  Len(said) + x \in 1 .. Len(said2) /\ said2[Len(said) + x] = Meaning(k, t2)
      OBVIOUS
    <3>2. Len(said) + x = Len(said) + 1 /\ Len(said2) = Len(said) + 1
      BY <3>1, <1>4, <1>g
    <3>3. Len(said) + 1 \in 1 .. Len(said) + 1
      BY <1>e
    <3> QED
      BY <3>1, <3>2, <3>3, <1>4
  <2> QED
    BY <2>2, <2>3, <1>h, <1>i, <1>j DEF OnItsWay, L
<1>7. ASSUME NEW i \in 0 .. n + 1, NEW j \in 0 .. n + 1, i <= j
      PROVE  j - i <= at2[j] - at2[i] /\ no2[i] <= no2[j]
  <2>1. CASE j \in 0 .. n
    <3>1. i \in 0 .. n
      BY <2>1, <1>1, <1>7
    <3> QED
      BY <3>1, <2>1, <1>d, <1>3, <1>7
  <2>2. CASE j = n + 1 /\ i \in 0 .. n
    <3>1. n - i <= at[n] - at[i] /\ no[i] <= no[n] /\ at[i] \in Int /\ no[i] \in Int
      BY <1>d, <1>e, <1>f, <1>a, <2>2
    <3>2. at2[j] = len + L /\ at2[i] = at[i] /\ no2[j] = Len(said) + x /\ no2[i] = no[i]
      BY <1>3, <2>2
    <3> QED
      <4>1. i \in Int /\ n \in Int /\ L >= 1 /\ L \in Int /\ x >= 0 /\ x \in Int /\ j = n + 1 /\ at[n] = len /\ no[n] = Len(said)
        BY <1>1, <1>2, <1>e, <1>b, <2>2
      <4> QED  BY <3>1, <3>2, <4>1, <1>e, SMTT(40)
  <2>3. CASE j = n + 1 /\ i = n + 1
    <3>1. j - i = 0 /\ at2[j] - at2[i] = 0 /\ no2[j] \in Int /\ no2[j] = no2[i]
      <4>1. n + 1 \in Int /\ at2[n + 1] \in Int /\ no2[n + 1] \in Int
        BY <1>3, <1>e
      <4> QED  BY <4>1, <2>3
    <3> QED  BY <3>1
  <2> QED
    BY <2>1, <2>2, <2>3, <1>1
<1>8. Queued(s2, len + L, m, t2, done, said2, n + 1, ev2, mk2, at2, md2, no2)
  <2>1. at2[0] = 0 /\ md2[0] = m /\ no2[0] = done
    <3>1. 0 \in 0 .. n
      BY <1>1
    <3> QED  BY <3>1, <1>b, <1>3
  <2>2. \A i \in 0 .. (n + 1) - 1 : OnItsWay(i, s2, said2, ev2, mk2, at2, md2, no2)
    <3>1. \A i \in 0 .. (n + 1) - 1 : i \in 0 .. n - 1 \/ i = n
      BY <1>1
    <3> QED
      BY <3>1, <1>5, <1>6
  <2>3. no2[n + 1] = Len(said2)
    BY <1>3, <1>4
  <2> QED
    BY <2>1, <2>2, <2>3, <1>e, <1>2, <1>3, <1>7 DEF Queued
<1>9. n > 0 => ev2[0] = ev[0] /\ mk2[0] = mk[0]
  <2>1. n > 0 => 0 \in 0 .. n - 1
    BY <1>1
  <2> QED  BY <2>1, <1>3
<1>10. n = 0 => ev2[0] = k /\ mk2[0] = made
  BY <1>3
<1>11. n + 1 > 0
  BY <1>1
<1> QED
  BY <1>i, <1>8, <1>9, <1>10, <1>11 DEF L, t2, said2, Recorded, Grown

\* the first of the codes has been read
LEMMA QueueShrinks ==
  ASSUME NEW s, NEW s2, NEW len \in Nat, NEW m, NEW t, NEW done, NEW said \in Seq(Meant),
         NEW n, NEW ev, NEW mk, NEW at, NEW md, NEW no,
         Queued(s, len, m, t, done, said, n, ev, mk, at, md, no), n > 0,
         NEW L, L = Len(ScanCode(ev[0], ~ mk[0])), WithoutFirst(s, s2, len, L)
  PROVE  \E ev2, mk2, at2, md2, no2 :
           Queued(s2, len - L, md[1], t, no[1], said, n - 1, ev2, mk2, at2, md2, no2)
<1>9. \A j \in 1 .. len - L : s2[j] = s[L + j]
  BY DEF WithoutFirst
<1> DEFINE ev2 == [i \in Nat |-> ev[i + 1]]
           mk2 == [i \in Nat |-> mk[i + 1]]
           at2 == [i \in Nat |-> at[i + 1] - L]
           md2 == [i \in Nat |-> md[i + 1]]
           no2 == [i \in Nat |-> no[i + 1]]
<1>1. n \in Nat
  BY DEF Queued
<1>a. /\ ev \in [Nat -> SentKeys] /\ mk \in [Nat -> BOOLEAN]
      /\ at \in [Nat -> Int] /\ md \in [Nat -> Modifiers] /\ no \in [Nat -> Int]
  BY DEF Queued
<1>b. at[0] = 0 /\ at[n] = len /\ md[0] = m /\ md[n] = t /\ no[0] = done /\ no[n] = Len(said)
  BY DEF Queued
<1>c. \A i \in 0 .. n - 1 : OnItsWay(i, s, said, ev, mk, at, md, no)
  BY DEF Queued
<1>d. \A i, j \in 0 .. n : i <= j => j - i <= at[j] - at[i] /\ no[i] <= no[j]
  BY DEF Queued
<1>2. L \in Nat /\ at[1] = L
  <2>1. OnItsWay(0, s, said, ev, mk, at, md, no) /\ 0 \in Nat
    BY <1>1, <1>c
  <2>2. ev[0] = "PAUSEBREAK" => ~ ~ mk[0]
    BY <2>1 DEF OnItsWay
  <2>3. L \in Nat
    BY <2>2, <1>a, CodesOfKeys
  <2>4. at[0 + 1] = at[0] + L
    BY <2>1 DEF OnItsWay
  <2> QED
    BY <2>3, <2>4, <1>b
<1>3. \A i \in Nat : i + 1 \in Nat
  OBVIOUS
<1>4. /\ ev2 \in [Nat -> SentKeys] /\ mk2 \in [Nat -> BOOLEAN]
      /\ at2 \in [Nat -> Int] /\ md2 \in [Nat -> Modifiers] /\ no2 \in [Nat -> Int]
      /\ \A i \in Nat : /\ ev2[i] = ev[i + 1] /\ mk2[i] = mk[i + 1] /\ at2[i] = at[i + 1] - L
                        /\ md2[i] = md[i + 1] /\ no2[i] = no[i + 1]
  <2>1. \A i \in Nat : at[i + 1] \in Int /\ at[i + 1] - L \in Int
    BY <1>a, <1>2, <1>3, SMTT(40)
  <2> QED  BY <1>a, <1>3, <2>1
<1> HIDE DEF ev2, mk2, at2, md2, no2
<1>5. ASSUME NEW i \in 0 .. (n - 1) - 1
      PROVE  OnItsWay(i, s2, said, ev2, mk2, at2, md2, no2)
  <2> DEFINE c == ScanCode(ev[i + 1], ~ mk[i + 1])
             i1 == i + 1
  <2>1. i1 \in 0 .. n - 1 /\ i1 \in Nat /\ i \in Nat /\ i1 = i + 1
    BY <1>1
  <2>2. c = ScanCode(ev[i1], ~ mk[i1])
    OBVIOUS
  <2> HIDE DEF c, i1
  <2>3. /\ (ev[i1] = "PAUSEBREAK" => mk[i1]) /\ (ev[i1] = "KB_ACK" => ~ mk[i1])
        /\ at[i1 + 1] = at[i1] + Len(c)
        /\ \A j \in 1 .. Len(c) : s[at[i1] + j] = c[j]
        /\ md[i1 + 1] = Modified(md[i1], ev[i1], mk[i1])
        /\ no[i1 + 1] = no[i1] + IF mk[i1] THEN 1 ELSE 0
        /\ mk[i1] => no[i1 + 1] \in 1 .. Len(said) /\ said[no[i1 + 1]] = Meaning(ev[i1], md[i1 + 1])
    BY <1>c, <2>1, <2>2 DEF OnItsWay
  <2>4. Len(c) \in Nat
    BY <1>a, <2>1, <2>2, <2>3, CodesOfKeys
  <2>5. at[1] <= at[i1] /\ at[i1 + 1] <= len
    <3>1. 1 \in 0 .. n /\ i1 \in 0 .. n /\ i1 + 1 \in 0 .. n /\ n \in 0 .. n /\ 1 <= i1 /\ i1 + 1 <= n
      BY <1>1, <2>1
    <3>2. i1 - 1 <= at[i1] - at[1] /\ n - (i1 + 1) <= at[n] - at[i1 + 1]
      BY <3>1, <1>d
    <3>3. at[1] \in Int /\ at[i1] \in Int /\ at[i1 + 1] \in Int
      <4>1. 1 \in Nat /\ i1 \in Nat /\ i1 + 1 \in Nat
        BY <2>1
      <4> QED  BY <4>1, <1>a
    <3>4. i1 \in Int /\ n \in Int /\ 1 <= i1 /\ i1 + 1 <= n /\ at[n] = len
      BY <3>1, <2>1, <1>1, <1>b
    <3> QED
      BY <3>2, <3>3, <3>4, SMTT(40)
  <2>6. at[i1] \in Int /\ at[i1 + 1] \in Int
    <3>1. i1 \in Nat /\ i1 + 1 \in Nat
      BY <2>1
    <3> QED  BY <3>1, <1>a
  <2>7. \A j \in 1 .. Len(c) : s2[(at[i1] - L) + j] = c[j]
    <3> SUFFICES ASSUME NEW j \in 1 .. Len(c)
                 PROVE  s2[(at[i1] - L) + j] = c[j]
      OBVIOUS
    <3>1. (at[i1] - L) + j \in 1 .. len - L /\ L + ((at[i1] - L) + j) = at[i1] + j
      <4>1. L \in Nat /\ L <= at[i1] /\ at[i1] \in Int /\ at[i1] + Len(c) <= len
        BY <1>2, <2>3, <2>5, <2>6
      <4> DEFINE p == at[i1]
      <4>2. p = at[i1]
        OBVIOUS
      <4> HIDE DEF p
      <4>3. (p - L) + j \in 1 .. len - L /\ L + ((p - L) + j) = p + j
        BY <2>4, <4>1, <4>2
      <4> QED  BY <4>2, <4>3
    <3>2. s2[(at[i1] - L) + j] = s[L + ((at[i1] - L) + j)]
      BY <3>1, <1>9
    <3> QED
      BY <3>1, <3>2, <2>3
  <2>8. /\ ev2[i] = ev[i1] /\ mk2[i] = mk[i1] /\ at2[i] = at[i1] - L /\ at2[i + 1] = at[i1 + 1] - L
        /\ md2[i] = md[i1] /\ md2[i + 1] = md[i1 + 1] /\ no2[i] = no[i1] /\ no2[i + 1] = no[i1 + 1]
    BY <1>4, <2>1
  <2>9. at2[i + 1] = at2[i] + Len(c)
    BY <2>3, <2>4, <2>6, <2>8, <1>2
  <2> QED
    BY <2>2, <2>3, <2>7, <2>8, <2>9 DEF OnItsWay
<1>6. ASSUME NEW i \in 0 .. n - 1, NEW j \in 0 .. n - 1, i <= j
      PROVE  j - i <= at2[j] - at2[i] /\ no2[i] <= no2[j]
  <2>1. i + 1 \in 0 .. n /\ j + 1 \in 0 .. n /\ i + 1 <= j + 1 /\ i \in Nat /\ j \in Nat
    BY <1>1, <1>6
  <2>a. i \in Int /\ j \in Int /\ i + 1 \in Nat /\ j + 1 \in Nat
    BY <2>1
  <2>2. (j + 1) - (i + 1) <= at[j + 1] - at[i + 1] /\ no[i + 1] <= no[j + 1]
    BY <1>d, <2>1
  <2>3. at[j + 1] \in Int /\ at[i + 1] \in Int
    BY <1>a, <2>a
  <2>4. at2[j] = at[j + 1] - L /\ at2[i] = at[i + 1] - L /\ no2[j] = no[j + 1] /\ no2[i] = no[i + 1]
    BY <1>4, <2>1
  <2>5. (j + 1) - (i + 1) = j - i /\ (at[j + 1] - L) - (at[i + 1] - L) = at[j + 1] - at[i + 1]
    BY <2>a, <2>3, <1>2
  <2> QED
    BY <2>2, <2>4, <2>5
<1>7. /\ n - 1 \in Nat /\ at2[0] = 0 /\ at2[n - 1] = len - L /\ md2[0] = md[1] /\ md2[n - 1] = t
      /\ no2[0] = no[1] /\ no2[n - 1] = Len(said)
  <2>1. n - 1 \in Nat /\ (n - 1) + 1 = n /\ 0 \in Nat /\ 0 + 1 = 1
    BY <1>1
  <2> QED
    <3>1. at2[0] = at[0 + 1] - L /\ at[0 + 1] = L /\ L - L = 0
      <4>1. L - L = 0
        BY <1>2
      <4>2. at2[0] = at[0 + 1] - L
        BY <2>1, <1>4
      <4> QED  BY <2>1, <1>2, <4>1, <4>2
    <3>2. at2[n - 1] = len - L /\ md2[n - 1] = t /\ no2[n - 1] = Len(said)
      BY <2>1, <1>b, <1>4
    <3>3. md2[0] = md[1] /\ no2[0] = no[1]
      BY <2>1, <1>4
    <3> QED
      BY <2>1, <3>1, <3>2, <3>3
<1>8. Queued(s2, len - L, md[1], t, no[1], said, n - 1, ev2, mk2, at2, md2, no2)
  BY <1>4, <1>5, <1>6, <1>7 DEF Queued
<1> QED
  BY <1>8

\* what is on its way stays so when a byte goes on
LEMMA InFlightMoves ==
  ASSUME NEW g \in Seq(ScanByte), NEW k \in Seq(ScanByte), NEW b \in Seq(ScanByte)
  PROVE  /\ b # <<>> => /\ InFlight(g, Append(k, Head(b)), Tail(b)) = InFlight(g, k, b)
                        /\ Len(g) + Len(Append(k, Head(b))) + Len(Tail(b)) = Len(g) + Len(k) + Len(b)
         /\ k # <<>> => /\ InFlight(Append(g, Head(k)), Tail(k), b) = InFlight(g, k, b)
                        /\ Len(Append(g, Head(k))) + Len(Tail(k)) + Len(b) = Len(g) + Len(k) + Len(b)
                        /\ \A j \in 1 .. Len(g) + 1 : Append(g, Head(k))[j] = InFlight(g, k, b)[j]
                        /\ Len(<<>>) + Len(Tail(k)) + Len(b) = (Len(g) + Len(k) + Len(b)) - (Len(g) + 1)
                        /\ \A j \in 1 .. (Len(g) + Len(k) + Len(b)) - (Len(g) + 1) :
                             InFlight(<<>>, Tail(k), b)[j] = InFlight(g, k, b)[(Len(g) + 1) + j]
<1>1. ASSUME b # <<>>
      PROVE  /\ InFlight(g, Append(k, Head(b)), Tail(b)) = InFlight(g, k, b)
             /\ Len(g) + Len(Append(k, Head(b))) + Len(Tail(b)) = Len(g) + Len(k) + Len(b)
  <2> DEFINE h == Head(b)  t == Tail(b)  a == Append(k, h)  lg == Len(g)  lk == Len(k)  lb == Len(b)
  <2>1. /\ h \in ScanByte /\ Len(t) = lb - 1 /\ Len(a) = lk + 1 /\ lg \in Nat /\ lk \in Nat /\ lb \in Nat \ {0}
        /\ b[1] = h /\ \A j \in 1 .. lb - 1 : t[j] = b[j + 1]
        /\ a[lk + 1] = h /\ \A j \in 1 .. lk : a[j] = k[j]
    BY <1>1, HeadTailProperties
  <2>2. Len(g) = lg /\ Len(k) = lk /\ Len(b) = lb
    OBVIOUS
  <2> HIDE DEF h, t, a, lg, lk, lb
  <2>3. lg + Len(a) + Len(t) = lg + lk + lb
    BY <2>1
  <2>4. ASSUME NEW j \in 1 .. lg + lk + lb
        PROVE  (IF j <= lg THEN g[j] ELSE IF j <= lg + (lk + 1) THEN a[j - lg] ELSE t[j - lg - (lk + 1)])
                 = (IF j <= lg THEN g[j] ELSE IF j <= lg + lk THEN k[j - lg] ELSE b[j - lg - lk])
    <3>0. /\ j \in Int /\ 1 <= j /\ j <= lg + lk + lb /\ lg \in Int /\ lk \in Int /\ lb \in Int
          /\ lg >= 0 /\ lk >= 0 /\ lb >= 1
      BY <2>1
    <3>1. CASE j <= lg
      BY <3>1
    <3>2. CASE ~ (j <= lg) /\ j <= lg + lk
      <4>1. j - lg \in 1 .. lk /\ j <= lg + (lk + 1)
        BY <3>2, <3>0
      <4> QED  BY <3>2, <4>1, <2>1
    <3>3. CASE j = lg + lk + 1
      <4>1. j - lg = lk + 1 /\ j - lg - lk = 1 /\ ~ (j <= lg) /\ ~ (j <= lg + lk) /\ j <= lg + (lk + 1)
        BY <3>3, <3>0
      <4> QED  BY <4>1, <2>1
    <3>4. CASE j > lg + lk + 1
      <4>1. /\ j - lg - (lk + 1) \in 1 .. lb - 1 /\ (j - lg - (lk + 1)) + 1 = j - lg - lk
            /\ ~ (j <= lg) /\ ~ (j <= lg + lk) /\ ~ (j <= lg + (lk + 1))
        BY <3>4, <3>0
      <4> QED  BY <4>1, <2>1
    <3> QED  BY <3>0, <3>1, <3>2, <3>3, <3>4
  <2>5. InFlight(g, a, t) = [j \in 1 .. lg + lk + lb |->
          IF j <= lg THEN g[j] ELSE IF j <= lg + (lk + 1) THEN a[j - lg] ELSE t[j - lg - (lk + 1)]]
    BY <2>1, <2>2, <2>3 DEF InFlight
  <2>6. InFlight(g, k, b) = [j \in 1 .. lg + lk + lb |->
          IF j <= lg THEN g[j] ELSE IF j <= lg + lk THEN k[j - lg] ELSE b[j - lg - lk]]
    BY <2>2 DEF InFlight
  <2> QED
    BY <2>2, <2>3, <2>4, <2>5, <2>6, ZenonT(60) DEF a, t, h
<1>2. ASSUME k # <<>>
      PROVE  /\ InFlight(Append(g, Head(k)), Tail(k), b) = InFlight(g, k, b)
             /\ Len(Append(g, Head(k))) + Len(Tail(k)) + Len(b) = Len(g) + Len(k) + Len(b)
             /\ \A j \in 1 .. Len(g) + 1 : Append(g, Head(k))[j] = InFlight(g, k, b)[j]
             /\ Len(<<>>) + Len(Tail(k)) + Len(b) = (Len(g) + Len(k) + Len(b)) - (Len(g) + 1)
             /\ \A j \in 1 .. (Len(g) + Len(k) + Len(b)) - (Len(g) + 1) :
                  InFlight(<<>>, Tail(k), b)[j] = InFlight(g, k, b)[(Len(g) + 1) + j]
  <2> DEFINE h == Head(k)  t == Tail(k)  a == Append(g, h)  lg == Len(g)  lk == Len(k)  lb == Len(b)
  <2>1. /\ h \in ScanByte /\ Len(t) = lk - 1 /\ Len(a) = lg + 1 /\ lg \in Nat /\ lb \in Nat /\ lk \in Nat \ {0}
        /\ k[1] = h /\ \A j \in 1 .. lk - 1 : t[j] = k[j + 1]
        /\ a[lg + 1] = h /\ \A j \in 1 .. lg : a[j] = g[j]
    BY <1>2, HeadTailProperties
  <2>2. Len(g) = lg /\ Len(k) = lk /\ Len(b) = lb /\ Len(<<>>) = 0
    OBVIOUS
  <2> HIDE DEF h, t, a, lg, lk, lb
  <2>3. Len(a) + Len(t) + lb = lg + lk + lb /\ 0 + Len(t) + lb = (lg + lk + lb) - (lg + 1)
    BY <2>1
  <2>4. ASSUME NEW j \in 1 .. lg + lk + lb
        PROVE  (IF j <= lg + 1 THEN a[j] ELSE IF j <= (lg + 1) + (lk - 1) THEN t[j - (lg + 1)]
                   ELSE b[j - (lg + 1) - (lk - 1)])
                 = (IF j <= lg THEN g[j] ELSE IF j <= lg + lk THEN k[j - lg] ELSE b[j - lg - lk])
    <3>0. /\ j \in Int /\ 1 <= j /\ j <= lg + lk + lb /\ lg \in Int /\ lk \in Int /\ lb \in Int
          /\ lg >= 0 /\ lk >= 1 /\ lb >= 0
      BY <2>1
    <3>1. CASE j <= lg
      BY <3>1, <2>1
    <3>2. CASE j = lg + 1
      <4>1. j - lg = 1 /\ ~ (j <= lg) /\ j <= lg + lk /\ j <= lg + 1
        BY <3>2, <3>0
      <4> QED  BY <3>2, <4>1, <2>1
    <3>3. CASE j > lg + 1 /\ j <= lg + lk
      <4>1. /\ j - (lg + 1) \in 1 .. lk - 1 /\ (j - (lg + 1)) + 1 = j - lg /\ ~ (j <= lg) /\ ~ (j <= lg + 1)
            /\ j <= (lg + 1) + (lk - 1)
        BY <3>3, <3>0
      <4> QED  BY <3>3, <4>1, <2>1
    <3>4. CASE j > lg + lk
      <4>1. /\ j - (lg + 1) - (lk - 1) = j - lg - lk /\ ~ (j <= lg) /\ ~ (j <= lg + 1)
            /\ ~ (j <= (lg + 1) + (lk - 1)) /\ ~ (j <= lg + lk)
        BY <3>4, <3>0
      <4> QED  BY <4>1
    <3> QED  BY <3>0, <3>1, <3>2, <3>3, <3>4
  <2>5. InFlight(a, t, b) = [j \in 1 .. lg + lk + lb |->
          IF j <= lg + 1 THEN a[j] ELSE IF j <= (lg + 1) + (lk - 1) THEN t[j - (lg + 1)]
            ELSE b[j - (lg + 1) - (lk - 1)]]
    BY <2>1, <2>2, <2>3 DEF InFlight
  <2>6. InFlight(g, k, b) = [j \in 1 .. lg + lk + lb |->
          IF j <= lg THEN g[j] ELSE IF j <= lg + lk THEN k[j - lg] ELSE b[j - lg - lk]]
    BY <2>2 DEF InFlight
  <2>7. InFlight(a, t, b) = InFlight(g, k, b)
    BY <2>4, <2>5, <2>6
  <2>8. \A j \in 1 .. lg + 1 : a[j] = InFlight(g, k, b)[j]
    <3>1. \A j \in 1 .. lg + 1 : j \in 1 .. lg + lk + lb /\ j <= lg + 1
      BY <2>1
    <3>2. \A j \in 1 .. lg + 1 : InFlight(a, t, b)[j] = a[j]
      BY <3>1, <2>5
    <3> QED  BY <2>7, <3>2
  <2>9. ASSUME NEW j \in 1 .. (lg + lk + lb) - (lg + 1)
        PROVE  InFlight(<<>>, t, b)[j] = InFlight(g, k, b)[(lg + 1) + j]
    <3>1. /\ 0 + Len(t) + lb = (lg + lk + lb) - (lg + 1) /\ (lg + 1) + j \in 1 .. lg + lk + lb /\ ~ (j <= 0)
          /\ ~ ((lg + 1) + j <= lg + 1) /\ ((lg + 1) + j) - (lg + 1) = j - 0 /\ 0 + Len(t) = lk - 1
          /\ j <= lk - 1 <=> (lg + 1) + j <= (lg + 1) + (lk - 1)
          /\ ((lg + 1) + j) - (lg + 1) - (lk - 1) = j - 0 - (lk - 1)
      BY <2>1, <2>3
    <3>2. InFlight(<<>>, t, b)[j] = IF j <= lk - 1 THEN t[j - 0] ELSE b[j - 0 - (lk - 1)]
      BY <3>1, <2>1, <2>2 DEF InFlight
    <3>3. InFlight(a, t, b)[(lg + 1) + j] = IF j <= lk - 1 THEN t[j - 0] ELSE b[j - 0 - (lk - 1)]
      BY <3>1, <2>5
    <3> QED  BY <3>2, <3>3, <2>7
  <2> QED
    BY <2>2, <2>3, <2>7, <2>8, <2>9 DEF a, t, h
<1> QED
  BY <1>1, <1>2

LEMMA KeyInitOK ==
  ASSUME KeyInit
  PROVE  KeyInv
<1> DEFINE ev == [i \in Nat |-> "a"]  mk == [i \in Nat |-> TRUE]  at == [i \in Nat |-> 0]
           md == [i \in Nat |-> init_keyboard]  no == [i \in Nat |-> 0]
<1>1. init_keyboard \in Modifiers
  BY DEF init_keyboard, Modifiers
<1>2. <<>> \in Seq(ScanByte) /\ <<>> \in Seq(Meant) /\ Len(<<>>) = 0
  OBVIOUS
<1>3. KeyTypes
  <2>1. KeyTypeOK
    BY <1>2, KeyAssumption DEF KeyInit, KeyTypeOK
  <2> QED  BY <1>2, <2>1 DEF KeyInit, KeyTypes
<1>4. Queued(InFlight(got, kb_in, bytes), Len(got) + Len(kb_in) + Len(bytes), mods, typed, Len(out), meant,
             0, ev, mk, at, md, no)
  <2>1. /\ mods = init_keyboard /\ typed = init_keyboard /\ Len(out) = 0 /\ Len(meant) = 0
        /\ Len(got) + Len(kb_in) + Len(bytes) = 0
    BY <1>2 DEF KeyInit
  <2>2. /\ ev \in [Nat -> SentKeys] /\ mk \in [Nat -> BOOLEAN] /\ at \in [Nat -> Int]
        /\ md \in [Nat -> Modifiers] /\ no \in [Nat -> Int]
    BY <1>1 DEF AllKeys, SentKeys
  <2>3. at[0] = 0 /\ md[0] = init_keyboard /\ no[0] = 0
    OBVIOUS
  <2>4. \A i, j \in 0 .. 0 : i <= j => j - i <= at[j] - at[i] /\ no[i] <= no[j]
    OBVIOUS
  <2>5. \A i \in 0 .. 0 - 1 : FALSE
    OBVIOUS
  <2> HIDE DEF ev, mk, at, md, no
  <2> QED  BY <2>1, <2>2, <2>3, <2>4, <2>5 DEF Queued
<1> HIDE DEF ev, mk, at, md, no
<1>5. KeyOrder
  <2>1. typed \in Modifiers /\ mods \in Modifiers /\ out \in Seq(Meant) /\ meant \in Seq(Meant)
    BY <1>1, <1>2 DEF KeyInit
  <2>2. \A i \in 1 .. Len(out) : i <= Len(meant) /\ out[i] = meant[i]
    BY <1>2 DEF KeyInit
  <2>3. \E n, e, m, a, d, o :
          /\ Queued(InFlight(got, kb_in, bytes), Len(got) + Len(kb_in) + Len(bytes), mods, typed, Len(out), meant,
                    n, e, m, a, d, o)
          /\ n > 0 => Len(got) < Len(ScanCode(e[0], ~ m[0]))
    <3>1. ~ (0 > 0)
      OBVIOUS
    <3> QED  BY <1>4, <3>1
  <2> QED  BY <2>1, <2>2, <2>3 DEF KeyOrder
<1> QED  BY <1>3, <1>5 DEF KeyInv

\* a key, or an answer of the keyboard, behind the others
LEMMA QueueLonger ==
  ASSUME KeyTypes, KeyOrder, bytes = <<>>,
         NEW k \in SentKeys, NEW made \in BOOLEAN, k = "PAUSEBREAK" => made, k = "KB_ACK" => ~ made
  PROVE  \E n2, ev2, mk2, at2, md2, no2 :
           /\ Queued(InFlight(got, kb_in, ScanCode(k, ~ made)),
                     Len(got) + Len(kb_in) + Len(ScanCode(k, ~ made)), mods,
                     Modified(typed, k, made), Len(out), Recorded(meant, k, typed, made),
                     n2, ev2, mk2, at2, md2, no2)
           /\ Len(got) < Len(ScanCode(ev2[0], ~ mk2[0]))
<1> DEFINE c == ScanCode(k, ~ made)
<1>2. c \in Seq(ScanByte) /\ Len(c) \in Nat \ {0}
  BY CodesOfKeys
<1>4. typed \in Modifiers /\ meant \in Seq(Meant)
  BY DEF KeyOrder
<1>6. PICK n, ev, mk, at, md, no :
        /\ Queued(InFlight(got, kb_in, bytes), Len(got) + Len(kb_in) + Len(bytes), mods, typed, Len(out), meant,
                  n, ev, mk, at, md, no)
        /\ n > 0 => Len(got) < Len(ScanCode(ev[0], ~ mk[0]))
  BY DEF KeyOrder
<1> DEFINE s == InFlight(got, kb_in, bytes)  s2 == InFlight(got, kb_in, c)
           len == Len(got) + Len(kb_in)
<1>7. got \in Seq(ScanByte) /\ kb_in \in Seq(ScanByte) /\ Len(bytes) = 0 /\ bytes \in Seq(ScanByte)
  BY DEF KeyTypes
<1>8. /\ len \in Nat /\ len = Len(got) + Len(kb_in) + Len(bytes)
      /\ \A j \in 1 .. len : s2[j] = s[j]
      /\ \A j \in 1 .. Len(c) : s2[len + j] = c[j]
  <2> DEFINE lg == Len(got)  lk == Len(kb_in)  lc == Len(c)
  <2>1. lg \in Nat /\ lk \in Nat /\ lc \in Nat /\ len = lg + lk
    BY <1>2, <1>7
  <2>2. s2 = [j \in 1 .. lg + lk + lc |->
                IF j <= lg THEN got[j] ELSE IF j <= lg + lk THEN kb_in[j - lg] ELSE c[j - lg - lk]]
    BY DEF InFlight
  <2>3. s = [j \in 1 .. lg + lk + 0 |->
                IF j <= lg THEN got[j] ELSE IF j <= lg + lk THEN kb_in[j - lg] ELSE bytes[j - lg - lk]]
    BY <1>7 DEF InFlight
  <2>4. lg + lk + Len(bytes) = lg + lk
    BY <1>7, <2>1
  <2>5. Len(c) = lc
    OBVIOUS
  <2>6. len = Len(got) + Len(kb_in) + Len(bytes)
    BY <2>4
  <2> HIDE DEF lg, lk, lc, c, s, s2, len
  <2>7. ASSUME NEW j \in 1 .. len
        PROVE  s2[j] = s[j]
    <3>1. j \in 1 .. lg + lk + lc /\ j \in 1 .. lg + lk + 0 /\ j <= lg + lk
      BY <2>1
    <3> QED  BY <2>2, <2>3, <3>1
  <2>8. ASSUME NEW j \in 1 .. lc
        PROVE  s2[len + j] = c[j]
    <3>1. /\ len + j \in 1 .. lg + lk + lc /\ ~ (len + j <= lg) /\ ~ (len + j <= lg + lk)
          /\ (len + j) - lg - lk = j
      BY <2>1
    <3> QED  BY <2>2, <3>1
  <2>9. len \in Nat
    BY <2>1
  <2>10. \A j \in 1 .. Len(c) : s2[len + j] = c[j]
    BY <2>5, <2>8
  <2> QED  BY <2>6, <2>7, <2>9, <2>10
<1>9. PICK n2, ev2, mk2, at2, md2, no2 :
        /\ Queued(s2, len + Len(c), mods, Modified(typed, k, made), Len(out), Recorded(meant, k, typed, made),
                  n2, ev2, mk2, at2, md2, no2)
        /\ n > 0 => ev2[0] = ev[0] /\ mk2[0] = mk[0]
        /\ n = 0 => ev2[0] = k /\ mk2[0] = made
  <2>1. Queued(s, len, mods, typed, Len(out), meant, n, ev, mk, at, md, no)
    BY <1>6, <1>8
  <2>2. LongerBy(s, s2, len, c) /\ CodeFor(k, made, c) /\ len \in Nat
    BY <1>8 DEF LongerBy, CodeFor
  <2> HIDE DEF s, s2, len, c
  <2>3. Grown(s2, len + Len(c), mods, Modified(typed, k, made), Len(out), Recorded(meant, k, typed, made),
              n, ev, mk, k, made)
    BY <1>4, <2>1, <2>2, QueueGrows
  <2> QED  BY <2>3 DEF Grown
<1>10. Len(got) < Len(ScanCode(ev2[0], ~ mk2[0]))
  <2>1. n \in Nat /\ at[0] = 0 /\ at[n] = len
    BY <1>6, <1>8 DEF Queued
  <2>2. CASE n > 0
    BY <2>2, <1>6, <1>9
  <2>3. CASE n = 0
    <3>1. Len(got) = 0
      <4>1. Len(got) + Len(kb_in) = 0 /\ Len(got) \in Nat /\ Len(kb_in) \in Nat
        BY <2>1, <2>3, <1>7
      <4> QED  BY <4>1
    <3>2. Len(ScanCode(ev2[0], ~ mk2[0])) \in Nat \ {0}
      BY <2>3, <1>2, <1>9
    <3> QED  BY <3>1, <3>2
  <2> QED  BY <2>1, <2>2, <2>3
<1> HIDE DEF s, s2
<1> QED  BY <1>9, <1>10 DEF s2, len

\* a press or a release puts a code behind the others
LEMMA TypedKeeps ==
  ASSUME KeyInv, Sound, bytes = <<>>, UNCHANGED <<kb_in, reading, got, mods, out, leds, full, stale, eaten>>,
         NEW k \in AllKeys, NEW made \in BOOLEAN, k = "PAUSEBREAK" => made,
         down' \subseteq KbKeys, "PAUSEBREAK" \notin down', bytes' = ScanCode(k, ~ made), typed' = Modified(typed, k, made),
         meant' = IF made THEN Append(meant, Meaning(k, typed')) ELSE meant
  PROVE  KeyInv'
<1>1. KeyTypes /\ KeyOrder
  BY DEF KeyInv
<1> DEFINE c == ScanCode(k, ~ made)
<1>0. k \in SentKeys /\ (k = "KB_ACK" => ~ made)
  BY DEF SentKeys, AllKeys
<1>2. c \in Seq(ScanByte) /\ Len(c) \in Nat \ {0}
  BY <1>0, CodesOfKeys
<1>3. KeyTypes'
  BY <1>1, <1>2 DEF KeyTypes, KeyTypeOK
<1>4. typed' \in Modifiers /\ Meaning(k, typed') \in Meant /\ typed \in Modifiers
  <2>1. typed \in Modifiers
    BY <1>1 DEF KeyOrder
  <2> QED  BY <1>0, <2>1, MeansAsModified
<1>5. out' \in Seq(Meant) /\ meant' \in Seq(Meant) /\ mods' \in Modifiers /\ meant \in Seq(Meant)
      /\ \A i \in 1 .. Len(out') : i <= Len(meant') /\ out'[i] = meant'[i]
  <2>1. /\ out \in Seq(Meant) /\ meant \in Seq(Meant) /\ mods \in Modifiers /\ out' = out
        /\ \A i \in 1 .. Len(out) : i <= Len(meant) /\ out[i] = meant[i]
    BY <1>1 DEF KeyOrder
  <2>2. CASE made
    <3>a. \A x \in Meant : /\ Append(meant, x) \in Seq(Meant) /\ Len(Append(meant, x)) = Len(meant) + 1
                           /\ \A i \in 1 .. Len(meant) : Append(meant, x)[i] = meant[i]
      BY <2>1
    <3>1. /\ meant' \in Seq(Meant) /\ Len(meant') = Len(meant) + 1
          /\ \A i \in 1 .. Len(meant) : meant'[i] = meant[i]
      BY <1>4, <2>2, <3>a
    <3> QED  BY <2>1, <3>1
  <2>3. CASE ~ made
    BY <2>1, <2>3
  <2> QED  BY <2>2, <2>3
<1>6. PICK n2, ev2, mk2, at2, md2, no2 :
        /\ Queued(InFlight(got, kb_in, c), Len(got) + Len(kb_in) + Len(c), mods,
                  Modified(typed, k, made), Len(out), Recorded(meant, k, typed, made),
                  n2, ev2, mk2, at2, md2, no2)
        /\ Len(got) < Len(ScanCode(ev2[0], ~ mk2[0]))
  BY <1>0, <1>1, QueueLonger
<1>7. Queued(InFlight(got', kb_in', bytes'), Len(got') + Len(kb_in') + Len(bytes'), mods', typed', Len(out'), meant',
             n2, ev2, mk2, at2, md2, no2)
  <2>1. meant' = Recorded(meant, k, typed, made)
    BY DEF Recorded
  <2>2. got' = got /\ kb_in' = kb_in /\ bytes' = c /\ mods' = mods /\ out' = out
    OBVIOUS
  <2> HIDE DEF c
  <2> QED  BY <1>6, <2>1, <2>2
<1>8. KeyOrder'
  BY <1>4, <1>5, <1>6, <1>7 DEF KeyOrder
<1> QED  BY <1>3, <1>8 DEF KeyInv

\* set_leds() and what comes back
LEMMA AckKeeps ==
  ASSUME KeyInv, NEW overheard \in BOOLEAN, kb_ack(overheard)
  PROVE  KeyInv'
<1> DEFINE ack == <<CodeOf["KB_ACK"], TRUE>>
<1>1. KeyTypes
  BY DEF KeyInv
<1>2. /\ leds' \in 0 .. 2 /\ leds > 0 /\ reading /\ got = <<>>
      /\ UNCHANGED <<down, typed, bytes, reading, got, mods, out, meant, full, stale>>
  BY <1>1 DEF kb_ack, KeyTypes, KeyTypeOK
<1>3. CASE overheard /\ Len(kb_in) < KB_IN_BYTES
  <2>1. kb_in' = Append(kb_in, ack) /\ eaten' = (eaten \/ bytes # <<>>)
    BY <1>3 DEF kb_ack
  <2>2. ScanCode("KB_ACK", TRUE) = <<ack>> /\ ack \in ScanByte /\ kb_in \in Seq(ScanByte)
    <3>1. CodeOf["KB_ACK"] = "7A"
      BY DEF CodeOf
    <3> QED  BY <1>1, <3>1 DEF ScanCode, ScanByte, KeyTypes
  <2> HIDE DEF ack
  <2>3. kb_in' \in Seq(ScanByte) /\ Len(kb_in') <= KB_IN_BYTES
    BY <1>3, <2>1, <2>2, KeyAssumption
  <2>4. KeyTypes'
    BY <1>1, <1>2, <2>1, <2>3 DEF KeyTypes, KeyTypeOK
  <2>5. ASSUME Sound' PROVE KeyOrder'
    <3>1. Sound /\ bytes = <<>> /\ KeyOrder
      BY <1>2, <2>1, <2>5 DEF Sound, KeyInv
    <3>2. "KB_ACK" \in SentKeys /\ "KB_ACK" # "PAUSEBREAK"
      BY DEF SentKeys
    <3> DEFINE c == <<ack>>
    <3>3. PICK n2, ev2, mk2, at2, md2, no2 :
            /\ Queued(InFlight(got, kb_in, c), Len(got) + Len(kb_in) + Len(c), mods,
                      Modified(typed, "KB_ACK", FALSE), Len(out), Recorded(meant, "KB_ACK", typed, FALSE),
                      n2, ev2, mk2, at2, md2, no2)
            /\ Len(got) < Len(ScanCode(ev2[0], ~ mk2[0]))
      <4>1. ~ FALSE = TRUE
        OBVIOUS
      <4> QED  BY <1>1, <2>2, <3>1, <3>2, <4>1, QueueLonger
    <3>4. Modified(typed, "KB_ACK", FALSE) = typed /\ Recorded(meant, "KB_ACK", typed, FALSE) = meant
      BY DEF Modified, Recorded
    <3>5. /\ c \in Seq(ScanByte) /\ Len(c) = 1 /\ Head(c) = ack /\ Tail(c) = <<>> /\ c # <<>>
          /\ got \in Seq(ScanByte)
      BY <1>1, <2>2 DEF KeyTypes
    <3> HIDE DEF c
    <3>6. /\ InFlight(got, Append(kb_in, Head(c)), Tail(c)) = InFlight(got, kb_in, c)
          /\ Len(got) + Len(Append(kb_in, Head(c))) + Len(Tail(c)) = Len(got) + Len(kb_in) + Len(c)
      BY <2>2, <3>5, InFlightMoves, ZenonT(60)
    <3>7. Queued(InFlight(got', kb_in', bytes'), Len(got') + Len(kb_in') + Len(bytes'), mods', typed', Len(out'), meant',
                 n2, ev2, mk2, at2, md2, no2)
      BY <1>2, <2>1, <3>1, <3>3, <3>4, <3>5, <3>6
    <3> QED  BY <1>2, <3>1, <3>3, <3>7 DEF KeyOrder
  <2> QED  BY <2>4, <2>5 DEF KeyInv
<1>4. CASE ~ (overheard /\ Len(kb_in) < KB_IN_BYTES)
  <2>1. UNCHANGED <<kb_in, eaten>>
    BY <1>4 DEF kb_ack
  <2>2. KeyTypes'
    BY <1>1, <1>2, <2>1 DEF KeyTypes, KeyTypeOK
  <2>3. Sound' => KeyOrder'
    BY <1>2, <2>1 DEF KeyInv, Sound, KeyOrder
  <2> QED  BY <2>2, <2>3 DEF KeyInv
<1> QED  BY <1>3, <1>4

LEMMA AckEatsKeeps ==
  ASSUME KeyInv, kb_ack_eats
  PROVE  KeyInv'
<1>1. KeyTypes /\ bytes # <<>> /\ bytes' = Tail(bytes) /\ eaten'
      /\ UNCHANGED <<down, kb_in, reading, got, leds, full, stale>>
  BY DEF KeyInv, kb_ack_eats
<1>2. Tail(bytes) \in Seq(ScanByte)
  BY <1>1 DEF KeyTypes
<1>3. KeyTypes'
  BY <1>1, <1>2 DEF KeyTypes, KeyTypeOK
<1> QED  BY <1>1, <1>3 DEF KeyInv, Sound

LEMMA HandlerKeeps ==
  ASSUME KeyInv, keyboard_handler
  PROVE  KeyInv'
<1>1. KeyTypes
  BY DEF KeyInv
<1>2. /\ got \in Seq(ScanByte) /\ kb_in \in Seq(ScanByte) /\ bytes \in Seq(ScanByte) /\ bytes # <<>>
      /\ Head(bytes) \in ScanByte /\ bytes' = Tail(bytes) /\ Tail(bytes) \in Seq(ScanByte)
  BY <1>1 DEF KeyTypes, keyboard_handler
<1>3. CASE Len(kb_in) < KB_IN_BYTES
  <2>1. /\ kb_in' = Append(kb_in, Head(bytes)) /\ full' = full
        /\ UNCHANGED <<down, typed, reading, got, key, make, mods, out, meant, leds, stale, eaten>>
    BY <1>3 DEF keyboard_handler
  <2>2. kb_in' \in Seq(ScanByte) /\ Len(kb_in') <= KB_IN_BYTES
    BY <1>2, <1>3, <2>1, KeyAssumption
  <2>3. KeyTypes'
    BY <1>1, <1>2, <2>1, <2>2 DEF KeyTypes, KeyTypeOK
  <2>4. /\ InFlight(got', kb_in', bytes') = InFlight(got, kb_in, bytes)
        /\ Len(got') + Len(kb_in') + Len(bytes') = Len(got) + Len(kb_in) + Len(bytes)
    BY <1>2, <2>1, InFlightMoves
  <2>5. ASSUME Sound'
        PROVE  KeyOrder'
    <3>1. KeyOrder
      BY <2>1, <2>5 DEF KeyInv, Sound
    <3> QED  BY <2>1, <2>4, <3>1 DEF KeyOrder
  <2> QED  BY <2>3, <2>5 DEF KeyInv
<1>4. CASE ~ (Len(kb_in) < KB_IN_BYTES)
  <2>1. full' = TRUE /\ kb_in' = kb_in /\ UNCHANGED <<down, reading, got, leds, stale, eaten>>
    BY <1>4 DEF keyboard_handler
  <2>2. KeyTypes'
    BY <1>1, <1>2, <2>1 DEF KeyTypes, KeyTypeOK
  <2>3. ~ Sound'
    BY <2>1 DEF Sound
  <2> QED  BY <2>2, <2>3 DEF KeyInv
<1> QED  BY <1>3, <1>4

LEMMA GetByteKeeps ==
  ASSUME KeyInv, GetByte
  PROVE  KeyInv'
<1> DEFINE g == Append(got, Head(kb_in))
           s == InFlight(got, kb_in, bytes)
           len == Len(got) + Len(kb_in) + Len(bytes)
<1>1. KeyTypes
  BY DEF KeyInv
<1>2. /\ got \in Seq(ScanByte) /\ kb_in \in Seq(ScanByte) /\ bytes \in Seq(ScanByte) /\ kb_in # <<>>
      /\ Head(kb_in) \in ScanByte /\ kb_in' = Tail(kb_in) /\ Tail(kb_in) \in Seq(ScanByte)
      /\ Len(Tail(kb_in)) <= Len(kb_in) /\ reading /\ UNCHANGED <<down, typed, bytes, reading, meant, full, eaten>>
  <2>1. got \in Seq(ScanByte) /\ kb_in \in Seq(ScanByte) /\ bytes \in Seq(ScanByte)
    BY <1>1 DEF KeyTypes
  <2>2. /\ kb_in # <<>> /\ kb_in' = Tail(kb_in) /\ reading /\ UNCHANGED <<down, typed, bytes, reading, meant, full, eaten>>
    BY DEF GetByte
  <2>3. Head(kb_in) \in ScanByte /\ Tail(kb_in) \in Seq(ScanByte) /\ Len(Tail(kb_in)) = Len(kb_in) - 1
    BY <2>1, <2>2, HeadTailProperties
  <2>4. Len(kb_in) \in Nat
    BY <2>1
  <2> QED  BY <2>1, <2>2, <2>3, <2>4
<1>3. g \in Seq(ScanByte) /\ Len(g) = Len(got) + 1 /\ Len(got) \in Nat
  BY <1>2
<1>4. Len(kb_in') <= KB_IN_BYTES
  <2>1. Len(kb_in) <= KB_IN_BYTES /\ Len(kb_in) \in Nat /\ Len(Tail(kb_in)) \in Nat
    BY <1>1, <1>2 DEF KeyTypes, KeyTypeOK
  <2> QED  BY <2>1, <1>2, KeyAssumption
<1>5. stale' \in BOOLEAN /\ (stale => stale') /\ leds' \in 0 .. 2 /\ (More(g) => leds' = 0)
  <2>1. stale \in BOOLEAN /\ leds = 0
    BY <1>1 DEF KeyTypes, GetByte
  <2>2. CASE More(g)
    BY <2>1, <2>2 DEF GetByte
  <2>3. CASE ~ More(g)
    <3> HIDE DEF g
    <3>1. Decode(g)
      BY <2>3 DEF GetByte, g
    <3>2. stale' \in BOOLEAN /\ (stale => stale') /\ leds' \in {0, 2}
      BY <2>1, <3>1 DEF Decode
    <3> QED  BY <2>3, <3>2
  <2> QED  BY <2>2, <2>3
<1>6. CASE More(g)
  <2>1. got' = g /\ UNCHANGED <<key, make, mods, out, leds, stale>>
    BY <1>6 DEF GetByte
  <2>2. KeyTypes'
    <3>1. More(got') /\ reading'
      BY <1>2, <1>6, <2>1
    <3> QED  BY <1>1, <1>2, <1>3, <1>4, <1>5, <2>1, <3>1 DEF KeyTypes, KeyTypeOK
  <2>3. /\ InFlight(got', kb_in', bytes') = s /\ Len(got') + Len(kb_in') + Len(bytes') = len
        /\ \A j \in 1 .. Len(got) + 1 : g[j] = s[j]
    BY <1>2, <2>1, InFlightMoves, ZenonT(60)
  <2>4. ASSUME Sound'
        PROVE  KeyOrder'
    <3>1. KeyOrder
      BY <1>2, <2>1, <2>4 DEF KeyInv, Sound
    <3>2. PICK n, ev, mk, at, md, no :
            /\ Queued(s, len, mods, typed, Len(out), meant, n, ev, mk, at, md, no)
            /\ n > 0 => Len(got) < Len(ScanCode(ev[0], ~ mk[0]))
      BY <3>1 DEF KeyOrder
    <3>3. ASSUME n > 0
          PROVE  Len(got') < Len(ScanCode(ev[0], ~ mk[0]))
      <4>1. /\ n \in Nat /\ ev[0] \in SentKeys /\ mk[0] \in BOOLEAN /\ at[0] = 0
            /\ OnItsWay(0, s, meant, ev, mk, at, md, no)
        <5> HIDE DEF s, len
        <5> QED  BY <3>2, <3>3 DEF Queued
      <4> DEFINE c == ScanCode(ev[0], ~ mk[0])
      <4>2. (ev[0] = "PAUSEBREAK" => ~ ~ mk[0]) /\ \A j \in 1 .. Len(c) : s[0 + j] = c[j]
        <5> HIDE DEF s
        <5> QED  BY <4>1 DEF OnItsWay
      <4>3. c \in Seq(ScanByte) /\ Len(c) \in Nat \ {0}
        BY <4>1, <4>2, CodesOfKeys
      <4>4. Len(g) \in 1 .. Len(c)
        <5>1. Len(got) < Len(c)
          BY <3>2, <3>3
        <5> HIDE DEF c, g
        <5> QED  BY <5>1, <1>3, <4>3
      <4>5. \A j \in 1 .. Len(g) : g[j] = c[j]
        <5> HIDE DEF c, g, s
        <5> QED  BY <1>3, <2>3, <4>2, <4>3, <4>4
      <4>6. More(g) <=> Len(g) < Len(c)
        <5> HIDE DEF g
        <5> QED  BY <1>3, <4>1, <4>2, <4>4, <4>5, ReadToItsEnd
      <4> QED  BY <1>6, <2>1, <4>6
    <3>4. Queued(InFlight(got', kb_in', bytes'), Len(got') + Len(kb_in') + Len(bytes'), mods', typed', Len(out'), meant',
                 n, ev, mk, at, md, no)
      BY <1>2, <2>1, <2>3, <3>2
    <3> HIDE DEF s, len, g
    <3> QED  BY <1>2, <2>1, <3>1, <3>3, <3>4 DEF KeyOrder
  <2> QED  BY <2>2, <2>4 DEF KeyInv
<1>7. CASE ~ More(g)
  <2>1. got' = <<>> /\ Decode(g)
    BY <1>7 DEF GetByte
  <2>2. KeyTypes'
    BY <1>1, <1>2, <1>4, <1>5, <2>1 DEF KeyTypes, KeyTypeOK
  <2>3. ASSUME Sound'
        PROVE  KeyOrder'
    <3>1. KeyOrder /\ ~ stale'
      BY <1>1, <1>2, <1>5, <2>3 DEF KeyInv, Sound, KeyTypes
    <3>2. PICK n, ev, mk, at, md, no :
            /\ Queued(s, len, mods, typed, Len(out), meant, n, ev, mk, at, md, no)
            /\ n > 0 => Len(got) < Len(ScanCode(ev[0], ~ mk[0]))
      BY <3>1 DEF KeyOrder
    <3>a. Len(bytes) \in Nat /\ Len(kb_in) \in Nat \ {0} /\ len \in Nat /\ len # 0
      <4>1. Len(bytes) \in Nat /\ Len(kb_in) \in Nat \ {0}
        BY <1>2
      <4> QED  BY <4>1, <1>3
    <3>3. /\ n \in Nat \ {0} /\ ev[0] \in SentKeys /\ mk[0] \in BOOLEAN /\ at[0] = 0
          /\ no[0] = Len(out) /\ md[0] = mods /\ no[n] = Len(meant)
          /\ OnItsWay(0, s, meant, ev, mk, at, md, no) /\ md[1] \in Modifiers /\ no[1] \in Int
      <4> HIDE DEF s, len
      <4>1. n \in Nat /\ at[0] = 0 /\ at[n] = len
        BY <3>2 DEF Queued
      <4>2. n # 0 /\ 0 \in 0 .. n - 1
        BY <3>a, <4>1
      <4> QED  BY <3>2, <4>1, <4>2 DEF Queued
    <3> DEFINE c == ScanCode(ev[0], ~ mk[0])
    <3>4. /\ (ev[0] = "PAUSEBREAK" => ~ ~ mk[0]) /\ (ev[0] = "KB_ACK" => ~ mk[0])
          /\ \A j \in 1 .. Len(c) : s[0 + j] = c[j]
          /\ md[0 + 1] = Modified(mods, ev[0], mk[0])
          /\ no[0 + 1] = no[0] + IF mk[0] THEN 1 ELSE 0
          /\ mk[0] => no[0 + 1] \in 1 .. Len(meant) /\ meant[no[0 + 1]] = Meaning(ev[0], md[0 + 1])
      <4> HIDE DEF s
      <4> QED  BY <3>3 DEF OnItsWay
    <3>5. c \in Seq(ScanByte) /\ Len(c) \in Nat \ {0}
      BY <3>3, <3>4, CodesOfKeys
    <3>6. Len(g) \in 1 .. Len(c)
      <4>1. Len(got) < Len(c)
        BY <3>2, <3>3
      <4> HIDE DEF c, g
      <4> QED  BY <4>1, <1>3, <3>5
    <3>b. \A j \in 1 .. Len(got) + 1 : g[j] = s[j]
      BY <1>2, InFlightMoves, ZenonT(40)
    <3>7. \A j \in 1 .. Len(g) : g[j] = c[j]
      <4> HIDE DEF c, g, s
      <4> QED  BY <1>3, <3>b, <3>4, <3>5, <3>6
    <3>8. g = c
      <4>1. More(g) <=> Len(g) < Len(c)
        <5> HIDE DEF g
        <5> QED  BY <1>3, <3>3, <3>4, <3>6, <3>7, ReadToItsEnd
      <4>2. Len(g) = Len(c)
        <5> HIDE DEF g, c
        <5> QED  BY <4>1, <1>3, <1>7, <3>5, <3>6
      <4> HIDE DEF g, c
      <4> QED  BY <4>2, <1>3, <3>5, <3>7, SeqEqual
    <3>9. /\ ~ stale /\ mods' = Modified(mods, ev[0], mk[0])
          /\ out' = IF mk[0] THEN Append(out, Meaning(ev[0], mods')) ELSE out
      <4>1. Decode(c)
        <5> HIDE DEF g, c
        <5> QED  BY <2>1, <3>8
      <4>2. mods \in Modifiers
        BY <3>1 DEF KeyOrder
      <4> QED  BY <3>1, <3>3, <3>4, <4>1, <4>2, DecodedAsMeant
    <3>10. mods' = md[1] /\ mods' \in Modifiers
      BY <3>3, <3>4, <3>9
    <3>11. /\ out \in Seq(Meant) /\ meant \in Seq(Meant) /\ typed \in Modifiers
           /\ \A i \in 1 .. Len(out) : i <= Len(meant) /\ out[i] = meant[i]
      BY <3>1 DEF KeyOrder
    <3>12. /\ out' \in Seq(Meant) /\ Len(out') = no[1]
           /\ \A i \in 1 .. Len(out') : i <= Len(meant) /\ out'[i] = meant[i]
      <4>1. Meaning(ev[0], mods') \in Meant
        BY <3>3, <3>10, <3>11, MeansAsModified
      <4>2. CASE mk[0]
        <5>1. no[1] = Len(out) + 1 /\ no[1] \in 1 .. Len(meant) /\ meant[no[1]] = Meaning(ev[0], mods')
          <6>1. no[0 + 1] = no[0] + 1 /\ no[0 + 1] \in 1 .. Len(meant) /\ meant[no[0 + 1]] = Meaning(ev[0], md[0 + 1])
            BY <3>4, <4>2
          <6>2. md[0 + 1] = mods' /\ no[0] = Len(out) /\ 0 + 1 = 1
            BY <3>3, <3>10
          <6> QED  BY <6>1, <6>2
        <5>2. /\ out' \in Seq(Meant) /\ Len(out') = Len(out) + 1 /\ out'[Len(out) + 1] = Meaning(ev[0], mods')
              /\ \A i \in 1 .. Len(out) : out'[i] = out[i]
          <6>1. out' = Append(out, Meaning(ev[0], mods'))
            BY <3>9, <4>2
          <6>2. \A x \in Meant : /\ Append(out, x) \in Seq(Meant) /\ Len(Append(out, x)) = Len(out) + 1
                                 /\ Append(out, x)[Len(out) + 1] = x
                                 /\ \A i \in 1 .. Len(out) : Append(out, x)[i] = out[i]
            BY <3>11
          <6> QED  BY <6>1, <6>2, <4>1
        <5>3. Len(out) \in Nat /\ Len(meant) \in Nat
          BY <3>11
        <5> QED  BY <5>1, <5>2, <5>3, <3>11
      <4>3. CASE ~ mk[0]
        <5>1. no[1] = Len(out)
          BY <3>3, <3>4, <3>11, <4>3
        <5> QED  BY <5>1, <3>9, <3>11, <4>3
      <4> QED  BY <3>3, <4>2, <4>3
    <3> DEFINE s2 == InFlight(<<>>, Tail(kb_in), bytes)
    <3>13. /\ Len(<<>>) + Len(Tail(kb_in)) + Len(bytes) = len - Len(c)
           /\ \A j \in 1 .. len - Len(c) : s2[j] = s[Len(c) + j]
      <4>1. Len(c) = Len(got) + 1
        BY <1>3, <3>8
      <4>2. /\ Len(<<>>) + Len(Tail(kb_in)) + Len(bytes) = len - (Len(got) + 1)
            /\ \A j \in 1 .. len - (Len(got) + 1) : s2[j] = s[(Len(got) + 1) + j]
        BY <1>2, InFlightMoves, ZenonT(40)
      <4> HIDE DEF c, s, s2, len
      <4> QED  BY <4>1, <4>2
    <3>14. PICK ev2, mk2, at2, md2, no2 :
             Queued(s2, len - Len(c), md[1], typed, no[1], meant, n - 1, ev2, mk2, at2, md2, no2)
      <4>0. Len(c) = Len(ScanCode(ev[0], ~ mk[0]))
        OBVIOUS
      <4> HIDE DEF s, s2, len, c
      <4>1. n > 0
        BY <3>3
      <4>2. WithoutFirst(s, s2, len, Len(c))
        BY <3>13 DEF WithoutFirst
      <4> QED  BY <3>2, <3>a, <3>11, <4>0, <4>1, <4>2, QueueShrinks
    <3>15. Queued(InFlight(got', kb_in', bytes'), Len(got') + Len(kb_in') + Len(bytes'), mods', typed', Len(out'),
                  meant', n - 1, ev2, mk2, at2, md2, no2)
      BY <1>2, <2>1, <3>10, <3>12, <3>13, <3>14
    <3>16. ASSUME n - 1 > 0
           PROVE  Len(got') < Len(ScanCode(ev2[0], ~ mk2[0]))
      <4> HIDE DEF s, s2, len, c
      <4>1. /\ ev2 \in [Nat -> SentKeys] /\ mk2 \in [Nat -> BOOLEAN]
            /\ OnItsWay(0, s2, meant, ev2, mk2, at2, md2, no2)
        <5>1. 0 \in 0 .. (n - 1) - 1
          BY <3>3, <3>16
        <5> QED  BY <3>14, <5>1 DEF Queued
      <4>2. ev2[0] \in SentKeys /\ mk2[0] \in BOOLEAN /\ (ev2[0] = "PAUSEBREAK" => ~ ~ mk2[0])
        <5>1. 0 \in Nat
          OBVIOUS
        <5> QED  BY <4>1, <5>1 DEF OnItsWay
      <4>3. Len(ScanCode(ev2[0], ~ mk2[0])) \in Nat \ {0}
        BY <4>2, CodesOfKeys
      <4>4. Len(got') = 0
        BY <2>1
      <4> QED  BY <4>3, <4>4
    <3> HIDE DEF s, s2, len, c, g
    <3> QED  BY <1>2, <3>10, <3>11, <3>12, <3>15, <3>16 DEF KeyOrder
  <2> QED  BY <2>2, <2>3 DEF KeyInv
<1> QED  BY <1>6, <1>7

LEMMA KeyStep ==
  ASSUME KeyInv, [KeyNext]_keyVars
  PROVE  KeyInv'
<1>1. ASSUME NEW k \in KbKeys, KeyPress(k)
      PROVE  KeyInv'
  <2>1. /\ Sound /\ bytes = <<>> /\ bytes' = ScanCode(k, FALSE) /\ Means(k)
        /\ down' = (IF k = "PAUSEBREAK" THEN down ELSE down \cup {k})
        /\ UNCHANGED <<kb_in, reading, got, mods, out, leds, full, stale, eaten>>
    BY <1>1 DEF KeyPress
  <2>2. k \in AllKeys /\ k \in SentKeys /\ typed \in Modifiers /\ down' \subseteq KbKeys /\ "PAUSEBREAK" \notin down'
    BY <2>1, KeyAssumption DEF KeyInv, KeyOrder, KeyTypes, KeyTypeOK, SentKeys
  <2>3. typed' = Modified(typed, k, TRUE) /\ meant' = Append(meant, Meaning(k, typed'))
    BY <2>1, <2>2, MeansAsModified
  <2>4. bytes' = ScanCode(k, ~ TRUE) /\ meant' = IF TRUE THEN Append(meant, Meaning(k, typed')) ELSE meant
    BY <2>1, <2>3
  <2> QED  BY <2>1, <2>2, <2>3, <2>4, TypedKeeps
<1>2. ASSUME NEW k \in KbKeys, KeyRelease(k)
      PROVE  KeyInv'
  <2>1. /\ Sound /\ bytes = <<>> /\ k \in down /\ bytes' = ScanCode(k, TRUE) /\ down' = down \ {k}
        /\ typed' = [typed EXCEPT !.shift_l = @ /\ k # "SHIFT_L", !.alt_l = @ /\ k # "ALT_R"]
        /\ UNCHANGED <<kb_in, reading, got, mods, out, meant, leds, full, stale, eaten>>
    BY <1>2 DEF KeyRelease
  <2>2. k \in AllKeys /\ k \in SentKeys /\ typed \in Modifiers /\ down' \subseteq KbKeys /\ "PAUSEBREAK" \notin down'
    BY <2>1, KeyAssumption DEF KeyInv, KeyOrder, KeyTypes, KeyTypeOK, SentKeys
  <2>3. typed' = Modified(typed, k, FALSE)
    BY <2>1, <2>2, MeansAsModified
  <2>4. bytes' = ScanCode(k, ~ FALSE) /\ meant' = IF FALSE THEN Append(meant, Meaning(k, typed')) ELSE meant
    BY <2>1
  <2>5. k # "PAUSEBREAK"
    BY <2>1 DEF KeyInv, KeyTypes
  <2> QED  BY <2>1, <2>2, <2>3, <2>4, <2>5, TypedKeeps
<1>3. CASE keyboard_read \/ Return \/ UNCHANGED keyVars
  <2>1. /\ UNCHANGED <<down, typed, bytes, kb_in, got, mods, out, meant, leds, full, stale, eaten>>
        /\ (got # <<>> => reading') /\ (leds > 0 => reading')
    BY <1>3 DEF keyboard_read, Return, keyVars, KeyInv, KeyTypes, KeyTypeOK
  <2>2. KeyTypes'
    BY <2>1 DEF KeyInv, KeyTypes, KeyTypeOK
  <2>3. Sound' => KeyOrder'
    BY <2>1 DEF KeyInv, Sound, KeyOrder
  <2> QED  BY <2>2, <2>3 DEF KeyInv
<1>4. CASE keyboard_handler
  BY <1>4, HandlerKeeps
<1>5. CASE GetByte
  BY <1>5, GetByteKeeps
<1>6. CASE kb_ack_eats
  BY <1>6, AckEatsKeeps
<1>7. ASSUME NEW overheard \in BOOLEAN, kb_ack(overheard) PROVE KeyInv'
  BY <1>7, AckKeeps
<1> QED  BY <1>1, <1>2, <1>3, <1>4, <1>5, <1>6, <1>7 DEF KeyNext

LEMMA KeyInvImplies ==
  ASSUME KeyInv
  PROVE  KeysFaithful
<1>1. KeyTypeOK
  BY DEF KeyInv, KeyTypes
<1>2. KeysAsMeant
  <2>1. ASSUME Sound
        PROVE  Len(out) <= Len(meant) /\ \A i \in DOMAIN out : out[i] = meant[i]
    <3>1. /\ out \in Seq(Meant) /\ meant \in Seq(Meant)
          /\ \A i \in 1 .. Len(out) : i <= Len(meant) /\ out[i] = meant[i]
      BY <2>1 DEF KeyInv, KeyOrder
    <3>2. Len(out) \in Nat /\ Len(meant) \in Nat /\ DOMAIN out = 1 .. Len(out)
      BY <3>1, LenProperties
    <3> QED  BY <3>1, <3>2
  <2> QED  BY <2>1 DEF KeysAsMeant
<1>3. NoStuckModifier
  <2>1. ASSUME Sound, bytes = <<>>, kb_in = <<>>, got = <<>>
        PROVE  mods = typed
    <3>1. PICK n, ev, mk, at, md, no :
            Queued(InFlight(got, kb_in, bytes), Len(got) + Len(kb_in) + Len(bytes), mods, typed, Len(out), meant,
                   n, ev, mk, at, md, no)
      BY <2>1 DEF KeyInv, KeyOrder
    <3>2. Len(got) + Len(kb_in) + Len(bytes) = 0
      BY <2>1
    <3>3. /\ n \in Nat /\ at[0] = 0 /\ at[n] = 0 /\ md[0] = mods /\ md[n] = typed
          /\ \A i, j \in 0 .. n : i <= j => j - i <= at[j] - at[i] /\ no[i] <= no[j]
      BY <3>1, <3>2 DEF Queued
    <3>4. 0 \in 0 .. n /\ n \in 0 .. n /\ 0 <= n
      BY <3>3
    <3>5. n - 0 <= at[n] - at[0]
      BY <3>3, <3>4
    <3>6. n = 0
      BY <3>3, <3>5
    <3> QED  BY <3>3, <3>6
  <2> QED  BY <2>1 DEF NoStuckModifier
<1> QED  BY <1>1, <1>2, <1>3 DEF KeysFaithful

(* KeysFaithful for all keys and a buffer of any size: however the         *)
(* interrupt and keyboard_read() interleave, keys reach in_process() as    *)
(* they were meant, in order, and no modifier is stuck, unless a byte      *)
(* found kb_in full, a local outlived its key, or set_leds() met bytes of  *)
(* a key on their way (keyboard.c:66, 158-380, 419-447).                   *)
THEOREM KeysAlwaysFaithful == KeySpec => []KeysFaithful
<1>1. KeyInit => KeyInv
  BY KeyInitOK
<1>2. KeyInv /\ [KeyNext]_keyVars => KeyInv'
  BY KeyStep
<1>3. KeyInv => KeysFaithful
  BY KeyInvImplies
<1> QED
  BY <1>1, <1>2, <1>3, PTL DEF KeySpec

(***************************************************************************)
(* The terminal's window: the grid read backwards from the cursor is the   *)
(* line, one character for each cell.                                      *)
(***************************************************************************)
TermSpec == term_start /\ [][termNext]_termVars

Cell == TermChars \cup {"$", "space", "x"}
TermTypes ==
  /\ grid \in [Row -> [Col -> Cell]] /\ cur_row \in Row /\ cur_col \in Col
  /\ term_input \in Seq(TermChars) /\ Len(term_input) <= TERM_INPUT_MAX
  /\ printing \in Seq(Cell \cup {"newline"}) /\ shell \in {"idle", "running"}

\* the cell k places before the cursor, at most one row up
HasBack(k) == k <= cur_col \/ cur_row > 0
Back(k) == IF k <= cur_col THEN grid[cur_row][cur_col - k]
                           ELSE grid[cur_row - 1][cur_col + WM_TERM_COLS - k]
Before(line) == \A k \in 1 .. Len(line) : HasBack(k) /\ Back(k) = line[Len(line) + 1 - k]

\* the prompt is printed in two steps before a key is taken
LineBefore ==
  shell = "idle" =>
    \/ printing = <<>> /\ Before(TERM_PROMPT \o term_input)
    \/ printing = <<"space">> /\ Before(<<"$">>) /\ term_input = <<>>
    \/ printing = TERM_PROMPT /\ term_input = <<>>
TermInv == TermTypes /\ LineBefore

LEMMA TermSizes ==
  /\ WM_TERM_COLS \in Nat /\ WM_TERM_COLS >= 3 /\ WM_TERM_ROWS \in Nat /\ WM_TERM_ROWS >= 2
  /\ TERM_INPUT_MAX = WM_TERM_COLS - 3 /\ "newline" \notin Cell /\ "newline" \notin TermChars
BY TerminalAssumption DEF TerminalAssumption, TERM_INPUT_MAX, TERM_PROMPT, Cell

(***************************************************************************)
(* What a character and a backspace do to the grid and to what is before   *)
(* the cursor.                                                             *)
(***************************************************************************)
GridTypes == grid \in [Row -> [Col -> Cell]] /\ cur_row \in Row /\ cur_col \in Col

LEMMA Scrolled ==
  ASSUME NEW g \in [Row -> [Col -> Cell]]
  PROVE  wm_term_scroll(g) \in [Row -> [Col -> Cell]]
<1>1. [c \in Col |-> BLANK] \in [Col -> Cell]
  BY DEF BLANK, Cell
<1> QED
  BY <1>1 DEF wm_term_scroll

LEMMA Settled ==
  ASSUME NEW g \in [Row -> [Col -> Cell]], NEW r \in 0 .. WM_TERM_ROWS, NEW c \in Col, Settle(g, r, c)
  PROVE  GridTypes'
<1>1. CASE r >= WM_TERM_ROWS
  <2>1. WM_TERM_ROWS - 1 \in Row
    BY TermSizes DEF Row
  <2> QED
    BY <1>1, <2>1, Scrolled DEF Settle, GridTypes
<1>2. CASE ~ (r >= WM_TERM_ROWS)
  <2>1. r \in Row
    BY <1>2, TermSizes DEF Row
  <2> QED
    BY <1>2, <2>1 DEF Settle, GridTypes
<1> QED
  BY <1>1, <1>2

LEMMA PutcKeepsGrid ==
  ASSUME GridTypes, NEW ch \in Cell \cup {"newline"}, wm_term_putc(ch)
  PROVE  GridTypes'
<1>1. cur_row + 1 \in 0 .. WM_TERM_ROWS /\ cur_row \in 0 .. WM_TERM_ROWS /\ 0 \in Col
  BY TermSizes DEF GridTypes, Row, Col
<1>2. CASE ch = "newline"
  <2>1. Settle(grid, cur_row + 1, 0)
    BY <1>2 DEF wm_term_putc
  <2> QED
    BY <1>1, <2>1, Settled DEF GridTypes
<1>3. CASE ch # "newline"
  <2> DEFINE g == [grid EXCEPT ![cur_row][cur_col] = ch]
  <2>1. g \in [Row -> [Col -> Cell]]
    BY <1>3 DEF GridTypes
  <2>2. cur_col + 1 < WM_TERM_COLS => cur_col + 1 \in Col
    BY TermSizes DEF GridTypes, Col
  <2>3. \/ cur_col + 1 >= WM_TERM_COLS /\ Settle(g, cur_row + 1, 0)
        \/ cur_col + 1 < WM_TERM_COLS /\ Settle(g, cur_row, cur_col + 1)
    BY <1>3, TermSizes DEF wm_term_putc, GridTypes, Col
  <2> HIDE DEF g
  <2> QED
    BY <1>1, <2>1, <2>2, <2>3, Settled
<1> QED
  BY <1>2, <1>3

\* A character in a cell is the first one before the cursor, and the others
\* are one place further, over the end of the row and a scroll.
LEMMA PutcShifts ==
  ASSUME GridTypes, NEW ch \in Cell, wm_term_putc(ch)
  PROVE  /\ HasBack(1)' /\ Back(1)' = ch
         /\ \A k \in 1 .. WM_TERM_COLS - 1 : HasBack(k) => HasBack(k + 1)' /\ Back(k + 1)' = Back(k)
<1> DEFINE g == [grid EXCEPT ![cur_row][cur_col] = ch]
<1>1. ch # "newline"
  BY TermSizes
<1>2. cur_row \in 0 .. WM_TERM_ROWS - 1 /\ cur_col \in 0 .. WM_TERM_COLS - 1
  BY DEF GridTypes, Row, Col
<1>3. /\ g[cur_row][cur_col] = ch
      /\ \A c \in Col : c # cur_col => g[cur_row][c] = grid[cur_row][c]
      /\ \A r \in Row : r # cur_row => g[r] = grid[r]
  BY DEF GridTypes
<1>4. \/ cur_col + 1 >= WM_TERM_COLS /\ Settle(g, cur_row + 1, 0)
      \/ cur_col + 1 < WM_TERM_COLS /\ Settle(g, cur_row, cur_col + 1)
  BY <1>1, <1>2, TermSizes DEF wm_term_putc
<1> HIDE DEF g
\* the rows of the grid before, from the cursor's place after
<1>5. /\ HasBack(1)' /\ Back(1)' = g[cur_row][cur_col]
      /\ \A k \in 1 .. WM_TERM_COLS - 1 :
           HasBack(k) => /\ HasBack(k + 1)'
                         /\ Back(k + 1)' = IF k <= cur_col THEN g[cur_row][cur_col - k]
                                           ELSE g[cur_row - 1][cur_col + WM_TERM_COLS - k]
  <2>1. CASE cur_col + 1 < WM_TERM_COLS
    <3>1. grid' = g /\ cur_row' = cur_row /\ cur_col' = cur_col + 1
      BY <1>2, <1>4, <2>1, TermSizes DEF Settle
    <3>2. HasBack(1)' /\ Back(1)' = g[cur_row][cur_col]
      BY <1>2, <3>1 DEF HasBack, Back
    <3>3. ASSUME NEW k \in 1 .. WM_TERM_COLS - 1, HasBack(k)
          PROVE  /\ HasBack(k + 1)'
                 /\ Back(k + 1)' = IF k <= cur_col THEN g[cur_row][cur_col - k]
                                   ELSE g[cur_row - 1][cur_col + WM_TERM_COLS - k]
      <4>1. k + 1 <= cur_col + 1 <=> k <= cur_col
        BY <1>2
      <4>2. /\ cur_col + 1 - (k + 1) = cur_col - k
            /\ cur_col + 1 + WM_TERM_COLS - (k + 1) = cur_col + WM_TERM_COLS - k
        BY <1>2, TermSizes
      <4>3. HasBack(k + 1)' <=> k + 1 <= cur_col + 1 \/ cur_row > 0
        BY <3>1, Zenon DEF HasBack
      <4>5. /\ k + 1 <= cur_col + 1 => Back(k + 1)' = g[cur_row][cur_col + 1 - (k + 1)]
            /\ ~ (k + 1 <= cur_col + 1) => Back(k + 1)' = g[cur_row - 1][cur_col + 1 + WM_TERM_COLS - (k + 1)]
        <5>1. Back(k + 1)' = IF k + 1 <= cur_col' THEN grid'[cur_row'][cur_col' - (k + 1)]
                             ELSE grid'[cur_row' - 1][cur_col' + WM_TERM_COLS - (k + 1)]
          BY Zenon DEF Back
        <5>2. grid' = g /\ cur_row' = cur_row /\ cur_col' = cur_col + 1
          BY <3>1
        <5>3. CASE k + 1 <= cur_col + 1
          BY <1>2, <5>1, <5>2, <5>3
        <5>4. CASE ~ (k + 1 <= cur_col + 1)
          BY <1>2, <5>1, <5>2, <5>4
        <5> QED
          BY <5>3, <5>4
      <4>4. k <= cur_col \/ cur_row > 0
        BY <3>3 DEF HasBack
      <4> QED
        BY <4>1, <4>2, <4>3, <4>4, <4>5
    <3> QED
      BY <3>2, <3>3
  <2>2. CASE cur_col + 1 >= WM_TERM_COLS
    <3>1. cur_col = WM_TERM_COLS - 1
      BY <1>2, <2>2, TermSizes
    <3>2. cur_col' = 0 /\ cur_row' > 0 /\ grid'[cur_row' - 1] = g[cur_row]
      <4>1. CASE cur_row + 1 >= WM_TERM_ROWS
        <5>1. cur_row = WM_TERM_ROWS - 1
          BY <1>2, <4>1, TermSizes
        <5>2. cur_row' = WM_TERM_ROWS - 1 /\ cur_col' = 0 /\ grid' = wm_term_scroll(g)
          BY <1>4, <2>2, <4>1, <1>2, TermSizes DEF Settle
        <5>3. WM_TERM_ROWS - 2 \in Row /\ WM_TERM_ROWS - 2 + 1 \in Row /\ WM_TERM_ROWS - 2 + 1 = cur_row
          BY <5>1, TermSizes DEF Row
        <5>4. wm_term_scroll(g)[WM_TERM_ROWS - 2] = g[cur_row]
          BY <5>3 DEF wm_term_scroll
        <5>5. WM_TERM_ROWS - 1 - 1 = WM_TERM_ROWS - 2 /\ WM_TERM_ROWS - 1 > 0
          BY TermSizes
        <5> QED
          BY <5>2, <5>4, <5>5
      <4>2. CASE ~ (cur_row + 1 >= WM_TERM_ROWS)
        <5>1. cur_row' = cur_row + 1 /\ cur_col' = 0 /\ grid' = g
          BY <1>4, <2>2, <4>2, <1>2, TermSizes DEF Settle
        <5>2. cur_row' - 1 = cur_row /\ cur_row' > 0
          BY <1>2, <5>1, TermSizes
        <5>3. grid'[cur_row' - 1] = g[cur_row]
          BY <5>1, <5>2
        <5> QED
          BY <5>1, <5>2, <5>3
      <4> QED
        BY <4>1, <4>2
    <3>3. ASSUME NEW j \in 1 .. WM_TERM_COLS
          PROVE  HasBack(j)' /\ Back(j)' = g[cur_row][WM_TERM_COLS - j]
      <4>1. ~ (j <= 0) /\ 0 + WM_TERM_COLS - j = WM_TERM_COLS - j
        BY TermSizes
      <4> QED
        BY <3>2, <4>1 DEF HasBack, Back
    <3>4. HasBack(1)' /\ Back(1)' = g[cur_row][cur_col]
      <4>1. 1 \in 1 .. WM_TERM_COLS
        BY TermSizes
      <4> QED
        BY <3>1, <3>3, <4>1
    <3>5. ASSUME NEW k \in 1 .. WM_TERM_COLS - 1
          PROVE  k <= cur_col /\ HasBack(k + 1)' /\ Back(k + 1)' = g[cur_row][cur_col - k]
      <4>1. k + 1 \in 1 .. WM_TERM_COLS /\ k <= cur_col /\ WM_TERM_COLS - (k + 1) = cur_col - k
        BY <3>1, TermSizes
      <4>2. HasBack(k + 1)' /\ Back(k + 1)' = g[cur_row][WM_TERM_COLS - (k + 1)]
        BY <3>3, <4>1
      <4> QED
        BY <4>1, <4>2
    <3> QED
      BY <3>4, <3>5
  <2> QED
    BY <2>1, <2>2, <1>2, TermSizes
<1>6. ASSUME NEW k \in 1 .. WM_TERM_COLS - 1, HasBack(k)
      PROVE  Back(k) = IF k <= cur_col THEN g[cur_row][cur_col - k]
                       ELSE g[cur_row - 1][cur_col + WM_TERM_COLS - k]
  <2>1. CASE k <= cur_col
    <3>1. cur_col - k \in Col /\ cur_col - k # cur_col
      BY <1>2, <2>1, TermSizes DEF Col
    <3> QED
      BY <1>3, <2>1, <3>1 DEF Back
  <2>2. CASE ~ (k <= cur_col)
    <3>1. cur_row - 1 \in Row /\ cur_row - 1 # cur_row
      BY <1>2, <1>6, <2>2, TermSizes DEF HasBack, Row
    <3> QED
      BY <1>3, <2>2, <3>1 DEF Back
  <2> QED
    BY <2>1, <2>2
<1> QED
  BY <1>3, <1>5, <1>6

\* A backspace takes the first character before the cursor.
LEMMA BackspaceShifts ==
  ASSUME GridTypes, HasBack(1), wm_term_backspace
  PROVE  /\ GridTypes'
         /\ \A k \in 1 .. WM_TERM_COLS - 2 : HasBack(k + 1) => HasBack(k)' /\ Back(k)' = Back(k + 1)
<1>1. cur_row \in 0 .. WM_TERM_ROWS - 1 /\ cur_col \in 0 .. WM_TERM_COLS - 1
  BY DEF GridTypes, Row, Col
<1>2. CASE cur_col > 0
  <2>1. /\ cur_row' = cur_row /\ cur_col' = cur_col - 1
        /\ grid' = [grid EXCEPT ![cur_row][cur_col - 1] = BLANK]
    BY <1>1, <1>2 DEF wm_term_backspace
  <2>2. cur_col - 1 \in Col
    BY <1>1, <1>2, TermSizes DEF Col
  <2>3. GridTypes'
    BY <2>1, <2>2 DEF GridTypes, BLANK, Cell
  <2>4. /\ \A c \in Col : c # cur_col - 1 => grid'[cur_row][c] = grid[cur_row][c]
        /\ \A r \in Row : r # cur_row => grid'[r] = grid[r]
    BY <2>1, <2>2 DEF GridTypes
  <2>5. ASSUME NEW k \in 1 .. WM_TERM_COLS - 2, HasBack(k + 1)
        PROVE  HasBack(k)' /\ Back(k)' = Back(k + 1)
    <3>1. k <= cur_col - 1 <=> k + 1 <= cur_col
      BY <1>1, TermSizes
    <3>2. /\ cur_col - 1 - k = cur_col - (k + 1)
          /\ cur_col - 1 + WM_TERM_COLS - k = cur_col + WM_TERM_COLS - (k + 1)
      BY <1>1, TermSizes
    <3>3. CASE k + 1 <= cur_col
      <4>1. cur_col - (k + 1) \in Col /\ cur_col - (k + 1) # cur_col - 1
        BY <1>1, <3>3, TermSizes DEF Col
      <4> QED
        BY <2>1, <2>4, <3>1, <3>2, <3>3, <4>1 DEF HasBack, Back
    <3>4. CASE ~ (k + 1 <= cur_col)
      <4>1. cur_row - 1 \in Row /\ cur_row - 1 # cur_row /\ cur_row > 0
        BY <1>1, <2>5, <3>4, TermSizes DEF HasBack, Row
      <4> QED
        BY <2>1, <2>4, <3>1, <3>2, <3>4, <4>1 DEF HasBack, Back
    <3> QED
      BY <3>3, <3>4
  <2> QED
    BY <2>3, <2>5
<1>3. CASE ~ (cur_col > 0)
  <2>1. cur_col = 0 /\ cur_row > 0
    BY <1>1, <1>3 DEF HasBack
  <2>2. /\ cur_row' = cur_row - 1 /\ cur_col' = WM_TERM_COLS - 1
        /\ grid' = [grid EXCEPT ![cur_row - 1][WM_TERM_COLS - 1] = BLANK]
    BY <1>1, <1>3, <2>1 DEF wm_term_backspace
  <2>3. WM_TERM_COLS - 1 \in Col /\ cur_row - 1 \in Row
    BY <1>1, <2>1, TermSizes DEF Col, Row
  <2>4. GridTypes'
    BY <2>2, <2>3 DEF GridTypes, BLANK, Cell
  <2>5. \A c \in Col : c # WM_TERM_COLS - 1 => grid'[cur_row - 1][c] = grid[cur_row - 1][c]
    BY <2>2, <2>3 DEF GridTypes
  <2>6. ASSUME NEW k \in 1 .. WM_TERM_COLS - 2, HasBack(k + 1)
        PROVE  HasBack(k)' /\ Back(k)' = Back(k + 1)
    <3>1. k <= WM_TERM_COLS - 1 /\ ~ (k + 1 <= 0)
      BY TermSizes
    <3>2. WM_TERM_COLS - 1 - k = 0 + WM_TERM_COLS - (k + 1)
      BY TermSizes
    <3>3. WM_TERM_COLS - 1 - k \in Col /\ WM_TERM_COLS - 1 - k # WM_TERM_COLS - 1
      BY TermSizes DEF Col
    <3>4. HasBack(k)' /\ Back(k)' = grid'[cur_row - 1][WM_TERM_COLS - 1 - k]
      BY <2>2, <3>1 DEF HasBack, Back
    <3>5. Back(k + 1) = grid[cur_row - 1][WM_TERM_COLS - 1 - k]
      BY <2>1, <3>1, <3>2 DEF Back
    <3> QED
      BY <2>5, <3>3, <3>4, <3>5
  <2> QED
    BY <2>4, <2>6
<1> QED
  BY <1>2, <1>3

(***************************************************************************)
(* One character of output, one typed, one erased.                         *)
(***************************************************************************)
LEMMA BeforeEmpty == Before(<<>>)
BY DEF Before

\* the line as it is in one state
LEMMA LineIs ==
  ASSUME NEW line, Before(line)', line = TERM_PROMPT \o term_input'
  PROVE  Before(TERM_PROMPT \o term_input)'
BY DEF Before, HasBack, Back

LEMMA PutcAppends ==
  ASSUME GridTypes, NEW ch \in Cell, wm_term_putc(ch),
         NEW line \in Seq(Cell), Len(line) <= WM_TERM_COLS - 1, Before(line)
  PROVE  Before(Append(line, ch))'
<1> DEFINE after == Append(line, ch)
           n == Len(line)
<1>1. /\ n \in Nat /\ Len(after) = n + 1 /\ after[n + 1] = ch
      /\ \A i \in 1 .. n : after[i] = line[i]
  BY TermSizes
<1>2. \A k \in 1 .. n : HasBack(k) /\ Back(k) = line[n + 1 - k]
  BY DEF Before
<1>3. n <= WM_TERM_COLS - 1
  OBVIOUS
<1> HIDE DEF after, n
<1>4. ASSUME NEW k \in 1 .. n + 1
      PROVE  HasBack(k)' /\ Back(k)' = after[n + 1 + 1 - k]
  <2>1. CASE k = 1
    <3>1. n + 1 + 1 - k = n + 1
      BY <1>1, <2>1
    <3> QED
      BY <1>1, <2>1, <3>1, PutcShifts
  <2>2. CASE k # 1
    <3> DEFINE j == k - 1
    <3>1. j \in 1 .. n /\ j \in 1 .. WM_TERM_COLS - 1 /\ k = j + 1
      BY <1>1, <1>3, <2>2, TermSizes
    <3>2. n + 1 - j \in 1 .. n /\ n + 1 + 1 - k = n + 1 - j
      BY <1>1, <3>1
    <3> HIDE DEF j
    <3>3. HasBack(j) /\ Back(j) = line[n + 1 - j]
      BY <1>2, <3>1
    <3>4. HasBack(j + 1)' /\ Back(j + 1)' = Back(j)
      BY <3>1, <3>3, PutcShifts
    <3> QED
      BY <1>1, <3>1, <3>2, <3>3, <3>4
  <2> QED
    BY <2>1, <2>2
<1>5. \A k \in 1 .. Len(after) : HasBack(k)' /\ Back(k)' = after[Len(after) + 1 - k]
  BY <1>1, <1>4
<1> QED
  BY <1>5 DEF Before, after

LEMMA BackspaceRemoves ==
  ASSUME GridTypes, wm_term_backspace,
         NEW line \in Seq(Cell), NEW ch \in Cell, Len(line) <= WM_TERM_COLS - 2, Before(Append(line, ch))
  PROVE  GridTypes' /\ Before(line)'
<1> DEFINE before == Append(line, ch)
           n == Len(line)
<1>1. /\ n \in Nat /\ Len(before) = n + 1
      /\ \A i \in 1 .. n : before[i] = line[i]
  BY TermSizes
<1>2. \A k \in 1 .. n + 1 : HasBack(k) /\ Back(k) = before[n + 1 + 1 - k]
  BY <1>1 DEF Before
<1>3. n <= WM_TERM_COLS - 2
  OBVIOUS
<1> HIDE DEF before, n
<1>4. HasBack(1)
  BY <1>1, <1>2
<1>5. ASSUME NEW k \in 1 .. n
      PROVE  HasBack(k)' /\ Back(k)' = line[n + 1 - k]
  <2>1. k \in 1 .. WM_TERM_COLS - 2 /\ k + 1 \in 1 .. n + 1 /\ n + 1 - k \in 1 .. n
    BY <1>1, <1>3, TermSizes
  <2>2. n + 1 + 1 - (k + 1) = n + 1 - k
    BY <1>1
  <2>3. HasBack(k + 1) /\ Back(k + 1) = line[n + 1 - k]
    BY <1>1, <1>2, <2>1, <2>2
  <2> QED
    BY <1>4, <2>1, <2>3, BackspaceShifts
<1>6. Before(line)'
  BY <1>5 DEF Before, n
<1> QED
  BY <1>4, <1>6, BackspaceShifts

LEMMA TermInitial == term_start => TermInv
<1> SUFFICES ASSUME term_start PROVE TermInv
  OBVIOUS
<1>1. 0 \in Row /\ 0 \in Col /\ 0 <= TERM_INPUT_MAX
  BY TermSizes DEF Row, Col
<1>2. GridTypes
  BY <1>1 DEF term_start, GridTypes, BLANK, Cell
<1>3. printing \in Seq(Cell \cup {"newline"})
  BY DEF term_start, Cell
<1>4. term_input \in Seq(TermChars) /\ Len(term_input) <= TERM_INPUT_MAX /\ shell = "running"
  BY <1>1 DEF term_start
<1> QED
  BY <1>2, <1>3, <1>4 DEF TermInv, TermTypes, GridTypes, LineBefore

\* The line with its prompt, and one character more or less.
LEMMA PromptLine ==
  ASSUME NEW line \in Seq(TermChars), Len(line) <= TERM_INPUT_MAX
  PROVE  /\ TERM_PROMPT \o line \in Seq(Cell) /\ Len(TERM_PROMPT \o line) = Len(line) + 2
         /\ Len(line) + 2 <= WM_TERM_COLS - 1
         /\ \A ch \in TermChars : TERM_PROMPT \o Append(line, ch) = Append(TERM_PROMPT \o line, ch)
<1>1. TERM_PROMPT \in Seq(Cell) /\ Len(TERM_PROMPT) = 2
  BY DEF TERM_PROMPT, Cell
<1>2. line \in Seq(Cell) /\ TermChars \subseteq Cell
  BY DEF Cell
<1>3. Len(line) + 2 <= WM_TERM_COLS - 1
  BY TermSizes
<1>4. TERM_PROMPT \o line \in Seq(Cell) /\ Len(TERM_PROMPT \o line) = Len(line) + 2
  <2> DEFINE p == TERM_PROMPT
  <2> HIDE DEF p
  <2>1. p \in Seq(Cell) /\ Len(p) = 2 /\ line \in Seq(Cell)
    BY <1>1, <1>2 DEF p
  <2>2. p \o line \in Seq(Cell) /\ Len(p \o line) = Len(line) + 2
    <3>1. p \o line \in Seq(Cell)
      BY <2>1
    <3>2. Len(p \o line) = Len(p) + Len(line)
      BY <2>1, ConcatProperties, Zenon
    <3>3. Len(line) \in Nat
      BY <2>1
    <3> QED
      BY <2>1, <3>1, <3>2, <3>3
  <2> QED
    BY <2>2 DEF p
<1>5. \A ch \in Cell : TERM_PROMPT \o Append(line, ch) = Append(TERM_PROMPT \o line, ch)
  BY <1>1, <1>2
<1> QED
  BY <1>2, <1>3, <1>4, <1>5

LEMMA PrintedTypes ==
  ASSUME NEW n \in Nat
  PROVE  Lines(n) \in Seq(Cell \cup {"newline"}) /\ Printed(n) \in Seq(Cell \cup {"newline"})
<1>1. Printed(n) \in Seq(Cell \cup {"newline"})
  BY DEF Printed, Cell
<1>2. <<"newline">> \in Seq(Cell \cup {"newline"})
  OBVIOUS
<1>3. [i \in 1 .. n |-> "x"] = Printed(n)
  BY DEF Printed
<1>4. Printed(n) \o <<"newline">> \in Seq(Cell \cup {"newline"})
  BY <1>1, <1>2, ConcatProperties, Zenon
<1>5. Lines(n) \in {<<>>, Printed(n) \o <<"newline">>}
  BY <1>3 DEF Lines
<1>6. <<>> \in Seq(Cell \cup {"newline"})
  OBVIOUS
<1>7. Lines(n) \in Seq(Cell \cup {"newline"})
  BY <1>4, <1>5, <1>6, Zenon
<1> QED
  BY <1>1, <1>7

LEMMA TermStep == TermInv /\ [termNext]_termVars => TermInv'
<1> SUFFICES ASSUME TermInv, [termNext]_termVars PROVE TermInv'
  OBVIOUS
<1>1. TermTypes /\ GridTypes /\ LineBefore
  BY DEF TermInv, TermTypes, GridTypes
<1>2. ASSUME GridTypes', term_input' \in Seq(TermChars), Len(term_input') <= TERM_INPUT_MAX,
             printing' \in Seq(Cell \cup {"newline"}), shell' \in {"idle", "running"}, LineBefore'
      PROVE  TermInv'
  BY <1>2 DEF TermInv, TermTypes, GridTypes
<1>3. ASSUME Idle
      PROVE  /\ shell = "idle" /\ printing = <<>> /\ Before(TERM_PROMPT \o term_input)
             /\ term_input \in Seq(TermChars) /\ Len(term_input) <= TERM_INPUT_MAX
  BY <1>1, <1>3 DEF Idle, LineBefore, TERM_PROMPT, TermTypes
<1>4. CASE \E ch \in TermChars : Type(ch)
  <2>1. PICK ch \in TermChars : Type(ch)
    BY <1>4
  <2>2. ch \in Cell /\ wm_term_putc(ch) /\ term_input' = Append(term_input, ch)
        /\ Len(term_input) < TERM_INPUT_MAX /\ printing' = printing /\ shell' = shell
    BY <2>1 DEF Type, Cell
  <2>3. Idle
    BY <2>1 DEF Type
  <2>4. PICK line \in Seq(Cell) : /\ line = TERM_PROMPT \o term_input
                                 /\ Len(line) <= WM_TERM_COLS - 1 /\ Before(line)
    BY <1>3, <2>3, PromptLine
  <2>5. Append(line, ch) = TERM_PROMPT \o term_input'
    BY <1>3, <2>2, <2>3, <2>4, PromptLine
  <2>6. GridTypes'
    BY <1>1, <2>2, PutcKeepsGrid
  <2>7. Before(Append(line, ch))'
    BY <1>1, <2>2, <2>4, PutcAppends
  <2>8. Before(TERM_PROMPT \o term_input)'
    BY <2>5, <2>7, LineIs
  <2>9. term_input' \in Seq(TermChars) /\ Len(term_input') <= TERM_INPUT_MAX
    BY <1>3, <2>2, <2>3, TermSizes
  <2>10. printing' = <<>> /\ shell' = "idle" /\ printing' \in Seq(Cell \cup {"newline"})
    BY <1>1, <1>3, <2>2, <2>3 DEF TermTypes
  <2>11. LineBefore'
    BY <2>8, <2>10 DEF LineBefore
  <2> QED
    BY <1>2, <2>6, <2>9, <2>10, <2>11
<1>5. CASE Erase
  <2> DEFINE n == Len(term_input)
             rest == SubSeq(term_input, 1, n - 1)
  <2>1. Idle /\ term_input # <<>> /\ term_input' = rest /\ wm_term_backspace
        /\ printing' = printing /\ shell' = shell
    BY <1>5 DEF Erase
  <2>2. term_input \in Seq(TermChars) /\ n \in Nat /\ n > 0 /\ n <= TERM_INPUT_MAX
    BY <1>3, <2>1
  <2>3. /\ rest \in Seq(TermChars) /\ Len(rest) = n - 1 /\ term_input[n] \in TermChars
        /\ term_input = Append(rest, term_input[n])
    <3>1. n \in 1 .. Len(term_input)
      BY <2>2
    <3>2. term_input[n] \in TermChars
      BY <2>2, <3>1
    <3>3. rest \in Seq(TermChars) /\ Len(rest) = n - 1 /\ \A i \in 1 .. n - 1 : rest[i] = term_input[i]
      <4>1. \A i \in 1 .. n - 1 : term_input[i] \in TermChars
        BY <2>2
      <4>3. \A i \in 1 .. n - 1 : rest[i] = term_input[i]
        BY <2>2
      <4> HIDE DEF n
      <4>4. rest \in Seq(TermChars) /\ Len(rest) = IF 1 <= n - 1 THEN n - 1 - 1 + 1 ELSE 0
        <5>1. 1 \in Int /\ n - 1 \in Int
          BY <2>2
        <5> QED
          BY <4>1, <5>1, SubSeqProperties
      <4> HIDE DEF rest
      <4> QED
        BY <2>2, <4>3, <4>4
    <3>4. Append(rest, term_input[n]) \in Seq(TermChars) /\ Len(Append(rest, term_input[n])) = n
      BY <2>2, <3>2, <3>3
    <3>5. \A i \in 1 .. n : Append(rest, term_input[n])[i] = term_input[i]
      BY <2>2, <3>2, <3>3
    <3> QED
      BY <2>2, <3>2, <3>3, <3>4, <3>5, SeqEqual
  <2> HIDE DEF rest, n
  <2>4. Len(rest) <= TERM_INPUT_MAX /\ Len(rest) + 2 <= WM_TERM_COLS - 2
    BY <2>2, <2>3, TermSizes
  <2>5. PICK line \in Seq(Cell) : line = TERM_PROMPT \o rest /\ Len(line) <= WM_TERM_COLS - 2
    BY <2>3, <2>4, PromptLine
  <2>6. PICK ch \in Cell : ch = term_input[n]
    BY <2>3 DEF Cell
  <2>7. Before(Append(line, ch))
    <3>1. TERM_PROMPT \o term_input = Append(line, ch)
      BY <2>3, <2>4, <2>5, <2>6, PromptLine
    <3> QED
      BY <1>3, <2>1, <3>1
  <2>8. GridTypes' /\ Before(line)'
    BY <1>1, <2>1, <2>5, <2>7, BackspaceRemoves
  <2>9. Before(TERM_PROMPT \o term_input)'
    BY <2>1, <2>5, <2>8, LineIs
  <2>10. printing' = <<>> /\ shell' = "idle" /\ printing' \in Seq(Cell \cup {"newline"})
    BY <1>1, <1>3, <2>1 DEF TermTypes
  <2>11. LineBefore'
    BY <2>9, <2>10 DEF LineBefore
  <2>12. term_input' \in Seq(TermChars) /\ Len(term_input') <= TERM_INPUT_MAX
    BY <2>1, <2>3, <2>4
  <2> QED
    BY <1>2, <2>8, <2>10, <2>11, <2>12
<1>6. CASE Enter
  <2>1. GridTypes' /\ shell' = "running" /\ term_input' = term_input
    BY <1>1, <1>6, PutcKeepsGrid DEF Enter
  <2>2. PICK n \in 0 .. MaxOutput : printing' \in {Lines(n), Printed(n)}
    BY <1>6 DEF Enter
  <2>3. printing' \in Seq(Cell \cup {"newline"})
    <3>1. n \in Nat
      BY TerminalAssumption DEF TerminalAssumption
    <3> QED
      BY <2>2, <3>1, PrintedTypes
  <2> QED
    BY <1>1, <1>2, <2>1, <2>3 DEF TermTypes, LineBefore
<1>7. CASE Clear
  <2>1. 0 \in Row /\ 0 \in Col
    BY TermSizes DEF Row, Col
  <2>2. GridTypes' /\ shell' = "running" /\ term_input' = term_input /\ printing' = printing
    BY <1>7, <2>1 DEF Clear, GridTypes, BLANK, Cell
  <2> QED
    BY <1>1, <1>2, <2>2 DEF TermTypes, LineBefore
<1>8. CASE wm_term_puts
  <2>1. /\ printing # <<>> /\ wm_term_putc(Head(printing)) /\ printing' = Tail(printing)
        /\ term_input' = term_input /\ shell' = shell
    BY <1>8 DEF wm_term_puts
  <2>2. /\ Head(printing) \in Cell \cup {"newline"}
        /\ printing' \in Seq(Cell \cup {"newline"})
    BY <1>1, <2>1 DEF TermTypes
  <2>3. GridTypes'
    BY <1>1, <2>1, <2>2, PutcKeepsGrid
  <2>4. LineBefore'
    <3>1. CASE shell = "idle"
      <4>1. CASE printing = TERM_PROMPT /\ term_input = <<>>
        <5>1. Head(printing) = "$" /\ printing' = <<"space">> /\ "$" \in Cell
          BY <2>1, <4>1 DEF TERM_PROMPT, Cell
        <5>2. <<>> \in Seq(Cell) /\ Len(<<>>) <= WM_TERM_COLS - 1 /\ Append(<<>>, "$") = <<"$">>
          BY TermSizes
        <5>3. Before(Append(<<>>, "$"))'
          BY <1>1, <2>1, <5>1, <5>2, BeforeEmpty, PutcAppends
        <5>4. Before(<<"$">>)'
          BY <5>2, <5>3
        <5> QED
          BY <2>1, <4>1, <5>1, <5>4 DEF LineBefore
      <4>2. CASE printing = <<"space">> /\ Before(<<"$">>) /\ term_input = <<>>
        <5>1. Head(printing) = "space" /\ printing' = <<>> /\ "space" \in Cell
          BY <2>1, <4>2 DEF Cell
        <5>2. <<"$">> \in Seq(Cell) /\ Len(<<"$">>) <= WM_TERM_COLS - 1
          BY TermSizes DEF Cell
        <5>3. Before(Append(<<"$">>, "space"))'
          BY <1>1, <2>1, <4>2, <5>1, <5>2, PutcAppends
        <5>4. Append(<<"$">>, "space") = TERM_PROMPT \o <<>>
          <6>1. TERM_PROMPT \in Seq(Cell) /\ Append(<<"$">>, "space") = TERM_PROMPT
            <7>1. TERM_PROMPT \in Seq(Cell)
              BY DEF TERM_PROMPT, Cell
            <7>2. Append(<<"$">>, "space") = TERM_PROMPT
              <8> DEFINE p == Append(<<"$">>, "space")
              <8>1. p \in Seq(Cell) /\ Len(p) = 2 /\ p[1] = "$" /\ p[2] = "space"
                BY <5>1, <5>2
              <8>2. /\ Len(TERM_PROMPT) = 2 /\ TERM_PROMPT[1] = "$" /\ TERM_PROMPT[2] = "space"
                BY DEF TERM_PROMPT
              <8> HIDE DEF p
              <8>3. \A i \in 1 .. Len(p) : p[i] = TERM_PROMPT[i]
                BY <8>1, <8>2
              <8>4. p = TERM_PROMPT
                BY <7>1, <8>1, <8>2, <8>3, SeqEqual
              <8> QED
                BY <8>4 DEF p
            <7> QED
              BY <7>1, <7>2
          <6> QED
            BY <6>1, ConcatEmptySeq, Zenon
        <5>5. Before(TERM_PROMPT \o term_input)'
          BY <2>1, <4>2, <5>3, <5>4
        <5> QED
          BY <5>1, <5>5 DEF LineBefore
      <4> QED
        BY <1>1, <2>1, <3>1, <4>1, <4>2 DEF LineBefore
    <3>2. CASE shell # "idle"
      BY <2>1, <3>2 DEF LineBefore
    <3> QED
      BY <3>1, <3>2
  <2> QED
    BY <1>1, <1>2, <2>1, <2>2, <2>3, <2>4 DEF TermTypes
<1>9. CASE term_prompt
  <2>1. /\ printing' = TERM_PROMPT /\ term_input' = <<>> /\ shell' = "idle"
        /\ grid' = grid /\ cur_row' = cur_row /\ cur_col' = cur_col
    BY <1>9 DEF term_prompt
  <2>2. GridTypes'
    BY <1>1, <2>1 DEF GridTypes
  <2>3. TERM_PROMPT \in Seq(Cell \cup {"newline"}) /\ <<>> \in Seq(TermChars) /\ Len(<<>>) <= TERM_INPUT_MAX
    BY TermSizes DEF TERM_PROMPT, Cell
  <2> QED
    BY <1>2, <2>1, <2>2, <2>3 DEF LineBefore
<1>10. CASE UNCHANGED termVars
  <2>1. GridTypes' /\ LineBefore'
    BY <1>1, <1>10 DEF termVars, GridTypes, LineBefore, Before, HasBack, Back
  <2> QED
    BY <1>1, <1>2, <1>10, <2>1 DEF termVars, TermTypes
<1> QED
  BY <1>4, <1>5, <1>6, <1>7, <1>8, <1>9, <1>10 DEF termNext

\* The cell the property counts to from the start of the grid.
LEMMA CellIsBack ==
  ASSUME GridTypes, NEW k \in 1 .. WM_TERM_COLS, HasBack(k)
  PROVE  CellBefore(k) = Back(k)
<1>1. cur_row \in 0 .. WM_TERM_ROWS - 1 /\ cur_col \in 0 .. WM_TERM_COLS - 1
  BY DEF GridTypes, Row, Col
<1>2. ASSUME NEW r \in Nat, NEW c \in 0 .. WM_TERM_COLS - 1, cur_row * WM_TERM_COLS + cur_col - k = r * WM_TERM_COLS + c
      PROVE  CellBefore(k) = grid[r][c]
  <2>1. r * WM_TERM_COLS + c \in Nat
    BY TermSizes
  <2>2. (r * WM_TERM_COLS + c) \div WM_TERM_COLS = r /\ (r * WM_TERM_COLS + c) % WM_TERM_COLS = c
    BY TermSizes
  <2> QED
    BY <1>2, <2>1, <2>2 DEF CellBefore
<1>3. CASE k <= cur_col
  <2>1. cur_row \in Nat /\ cur_col - k \in 0 .. WM_TERM_COLS - 1
    BY <1>1, <1>3, TermSizes
  <2>2. cur_row * WM_TERM_COLS + cur_col - k = cur_row * WM_TERM_COLS + (cur_col - k)
    BY <1>1, TermSizes
  <2> QED
    BY <1>2, <1>3, <2>1, <2>2 DEF Back
<1>4. CASE ~ (k <= cur_col)
  <2>1. cur_row - 1 \in Nat /\ cur_col + WM_TERM_COLS - k \in 0 .. WM_TERM_COLS - 1
    BY <1>1, <1>4, TermSizes DEF HasBack
  <2>2. cur_row * WM_TERM_COLS + cur_col - k = (cur_row - 1) * WM_TERM_COLS + (cur_col + WM_TERM_COLS - k)
    <3>1. (cur_row - 1) * WM_TERM_COLS = cur_row * WM_TERM_COLS - WM_TERM_COLS
      BY <1>1, TermSizes
    <3> QED
      BY <1>1, <3>1, TermSizes
  <2> QED
    BY <1>2, <1>4, <2>1, <2>2 DEF Back
<1> QED
  BY <1>3, <1>4

(* The terminal of the desktop, for a window of any size and any           *)
(* characters: what is typed and printed goes into the grid, and the line  *)
(* term_exec() will be given is the line shown before the cursor, however  *)
(* keys, wraps, scrolls and the output of commands follow one another      *)
(* (wm.c:205-261, desktop.c:258-289).                                      *)
THEOREM LineAlwaysShown == TermSpec => []LineShown
<1>1. TermInv => LineShown
  <2> SUFFICES ASSUME TermInv PROVE LineShown
    OBVIOUS
  <2>1. GridTypes /\ CursorInGrid
    BY DEF TermInv, TermTypes, GridTypes, CursorInGrid
  <2>2. ASSUME Idle PROVE ShownIsRun
    <3> DEFINE line == TERM_PROMPT \o term_input
    <3>1. Before(line) /\ term_input \in Seq(TermChars) /\ Len(term_input) <= TERM_INPUT_MAX
      BY <2>2 DEF TermInv, TermTypes, LineBefore, Idle, TERM_PROMPT
    <3>2. Len(line) = Len(term_input) + 2 /\ Len(line) <= WM_TERM_COLS - 1
      BY <3>1, PromptLine
    <3> HIDE DEF line
    <3>3. ASSUME NEW k \in 1 .. Len(line) PROVE CellBefore(k) = line[Len(line) + 1 - k]
      <4>1. k \in 1 .. WM_TERM_COLS
        BY <3>1, <3>2, TermSizes
      <4>2. HasBack(k) /\ Back(k) = line[Len(line) + 1 - k]
        BY <3>1 DEF Before
      <4> QED
        BY <2>1, <4>1, <4>2, CellIsBack
    <3> QED
      BY <3>3 DEF ShownIsRun, line
  <2> QED
    BY <2>1, <2>2 DEF LineShown, ShownIsRun
<1> QED
  BY <1>1, TermInitial, TermStep, PTL DEF TermSpec

(***************************************************************************)
(* A console: its memory in lines.  Place(l, c) is the word in column c of *)
(* line l.                                                                 *)
(***************************************************************************)
ConSpec == init_screen /\ [][ConNext]_conVars

Place(l, c) == l * SCR_WIDTH + c
ConCol == 0 .. SCR_WIDTH - 1

LEMMA ConSizes ==
  /\ SCR_WIDTH \in Nat /\ SCR_WIDTH >= 1 /\ SCR_LINES \in Nat /\ SCR_LINES >= 1
  /\ CON_LINES \in Nat /\ CON_LINES > SCR_LINES
BY ConsoleAssumption DEF ConsoleAssumption

LEMMA PlaceType ==
  ASSUME NEW l \in Int, NEW c \in Int
  PROVE  Place(l, c) \in Int /\ (l \in Nat /\ c \in Nat => Place(l, c) \in Nat)
BY ConSizes DEF Place

\* A word has one line and one column.
LEMMA PlaceIs ==
  ASSUME NEW l \in Nat, NEW c \in ConCol
  PROVE  Place(l, c) \div SCR_WIDTH = l /\ Place(l, c) % SCR_WIDTH = c
BY ConSizes DEF Place, ConCol

LEMMA PlaceOf ==
  ASSUME NEW p \in Nat
  PROVE  /\ p \div SCR_WIDTH \in Nat /\ p % SCR_WIDTH \in ConCol
         /\ p = Place(p \div SCR_WIDTH, p % SCR_WIDTH)
<1>1. p % SCR_WIDTH \in ConCol /\ p \div SCR_WIDTH \in Int
  BY ConSizes DEF ConCol
<1>2. p = SCR_WIDTH * (p \div SCR_WIDTH) + (p % SCR_WIDTH)
  BY ConSizes
<1> DEFINE q == p \div SCR_WIDTH
           r == p % SCR_WIDTH
<1>3. q \in Int /\ r \in ConCol /\ p = SCR_WIDTH * q + r
  BY <1>1, <1>2
<1> HIDE DEF q, r
<1>4. q \in Nat
  <2> SUFFICES ASSUME q < 0 PROVE FALSE
    BY <1>3
  <2>1. PICK e \in Nat : q = -1 - e
    <3> DEFINE g == -1 - q
    <3>1. g \in Nat /\ q = -1 - g
      BY <1>3
    <3> QED
      BY <3>1
  <2>2. SCR_WIDTH * (-1 - e) = -SCR_WIDTH - SCR_WIDTH * e /\ SCR_WIDTH * e >= 0
    BY <2>1, ConSizes
  <2> QED
    BY <2>1, <2>2, <1>3, ConSizes DEF ConCol
<1>5. p = Place(q, r)
  BY <1>3, ConSizes DEF Place
<1> QED
  BY <1>3, <1>4, <1>5 DEF q, r

\* The words of a line come before those of the next.
LEMMA PlaceOrder ==
  ASSUME NEW l \in Int, NEW c \in ConCol, NEW m \in Int
  PROVE  /\ Place(l, c) < Place(m, 0) <=> l < m
         /\ Place(m, 0) <= Place(l, c) <=> m <= l
<1>0. c \in Int /\ c >= 0 /\ c <= SCR_WIDTH - 1 /\ SCR_WIDTH \in Nat
  BY ConSizes DEF ConCol
<1>1. ASSUME l < m PROVE Place(l, c) < Place(m, 0)
  <2>1. PICK e \in Nat : m = l + 1 + e
    <3> DEFINE g == m - l - 1
    <3>1. g \in Nat /\ m = l + 1 + g
      BY <1>1
    <3> QED
      BY <3>1
  <2>2. (l + 1 + e) * SCR_WIDTH = l * SCR_WIDTH + SCR_WIDTH + e * SCR_WIDTH /\ e * SCR_WIDTH >= 0
    BY <2>1, <1>0
  <2>3. l * SCR_WIDTH \in Int /\ e * SCR_WIDTH \in Int
    BY <1>0
  <2> QED
    BY <2>1, <2>2, <2>3, <1>0 DEF Place
<1>2. ASSUME m <= l PROVE Place(m, 0) <= Place(l, c)
  <2>1. PICK e \in Nat : l = m + e
    <3> DEFINE g == l - m
    <3>1. g \in Nat /\ l = m + g
      BY <1>2
    <3> QED
      BY <3>1
  <2>2. (m + e) * SCR_WIDTH = m * SCR_WIDTH + e * SCR_WIDTH /\ e * SCR_WIDTH >= 0
    BY <2>1, <1>0
  <2>3. m * SCR_WIDTH \in Int /\ e * SCR_WIDTH \in Int
    BY <1>0
  <2> QED
    BY <2>1, <2>2, <2>3, <1>0 DEF Place
<1>3. Place(l, c) \in Int /\ Place(m, 0) \in Int
  <2>1. 0 \in Int
    OBVIOUS
  <2> QED
    BY <1>0, <2>1, PlaceType
<1> QED
  BY <1>1, <1>2, <1>3

\* Moving by lines and by columns.
LEMMA PlaceMoves ==
  ASSUME NEW l \in Int, NEW c \in Int
  PROVE  /\ Place(l, c) + SCR_WIDTH = Place(l + 1, c)
         /\ Place(l, c) - SCR_WIDTH = Place(l - 1, c)
         /\ Place(l, c) + 1 = Place(l, c + 1) /\ Place(l, c) - 1 = Place(l, c - 1)
         /\ Place(l, SCR_WIDTH) = Place(l + 1, 0) /\ Place(l, -1) = Place(l - 1, SCR_WIDTH - 1)
         /\ \A m \in Int : Place(l, c) + m * SCR_WIDTH = Place(l + m, c)
                           /\ Place(l, c) + Place(m, 0) = Place(l + m, c)
         /\ Place(l, 0) + c = Place(l, c) /\ Place(0, c) = c
         /\ SCR_WIDTH * l = Place(l, 0) /\ l * SCR_WIDTH = Place(l, 0)
<1>1. (l + 1) * SCR_WIDTH = l * SCR_WIDTH + SCR_WIDTH /\ (l - 1) * SCR_WIDTH = l * SCR_WIDTH - SCR_WIDTH
  BY ConSizes
<1>2. l * SCR_WIDTH \in Int
  BY ConSizes
<1>3. \A m \in Int : (l + m) * SCR_WIDTH = l * SCR_WIDTH + m * SCR_WIDTH /\ m * SCR_WIDTH \in Int
  BY ConSizes
<1>4. SCR_WIDTH * l = l * SCR_WIDTH
  BY ConSizes
<1>5. 0 * SCR_WIDTH = 0
  BY ConSizes
<1>6. /\ Place(l, c) + SCR_WIDTH = Place(l + 1, c)
      /\ Place(l, c) - SCR_WIDTH = Place(l - 1, c)
      /\ Place(l, c) + 1 = Place(l, c + 1) /\ Place(l, c) - 1 = Place(l, c - 1)
  BY <1>1, <1>2, ConSizes DEF Place
<1>7. Place(l, SCR_WIDTH) = Place(l + 1, 0) /\ Place(l, -1) = Place(l - 1, SCR_WIDTH - 1)
  BY <1>1, <1>2, ConSizes DEF Place
<1>8. \A m \in Int : Place(l, c) + m * SCR_WIDTH = Place(l + m, c)
                     /\ Place(l, c) + Place(m, 0) = Place(l + m, c)
  BY <1>2, <1>3, ConSizes DEF Place
<1>9. Place(l, 0) + c = Place(l, c) /\ Place(0, c) = c
  BY <1>2, <1>5, ConSizes DEF Place
<1>10. SCR_WIDTH * l = Place(l, 0) /\ l * SCR_WIDTH = Place(l, 0)
  BY <1>2, <1>4, ConSizes DEF Place
<1> QED
  BY <1>6, <1>7, <1>8, <1>9, <1>10

LEMMA SizesInPlaces ==
  con_size = Place(CON_LINES, 0) /\ SCR_SIZE = Place(SCR_LINES, 0)
  /\ con_size \in Nat /\ SCR_SIZE \in Nat
BY ConSizes, PlaceMoves, PlaceType DEF con_size, SCR_SIZE

(***************************************************************************)
(* The invariant, with the cursor in line y and column x, and the screen   *)
(* from line s on.  The lines from the first of the memory on hold the     *)
(* rows of the text from row - y on; only a line that output has just      *)
(* reached below the screen of a full console holds words of the round     *)
(* before, until the loop clears it.                                       *)
(***************************************************************************)
Line == [ConCol -> Nat]
WithWord(v, p, m) == [v EXCEPT ![p] = m]
WithMark(t, r, x, m) == [t EXCEPT ![r][x] = m]
\* w and u are v and t but for one character
WordChanged(v, w, y, x, m) ==
  \A l \in 0 .. CON_LINES - 1, c \in ConCol : w[Place(l, c)] = IF l = y /\ c = x THEN m ELSE v[Place(l, c)]
MarkChanged(t, u, r, x, m) ==
  /\ u \in Seq(Line) /\ Len(u) = Len(t)
  /\ \A j \in 1 .. Len(t), c \in ConCol : u[j][c] = IF j = r /\ c = x THEN m ELSE t[j][c]
ScreenHas(s, y) == s <= y /\ y < s + SCR_LINES
\* v holds the rows of t from row f on, but for line skip
Holds(v, t, f, skip) ==
  \A l \in 0 .. CON_LINES - 1, c \in ConCol : l <= Len(t) - f /\ l # skip => v[Place(l, c)] = t[f + l][c]
\* nothing is after column x of row r
BlankAfter(t, r, x) ==
  \A j \in 1 .. Len(t), c \in ConCol : j > r \/ (j = r /\ c >= x) => t[j][c] = 0
BlankBelow(v, last) ==
  \A l \in 0 .. CON_LINES - 1, c \in ConCol : l > last => v[Place(l, c)] = 0

ConTypes(x) ==
  /\ video \in [Words -> Nat] /\ text \in Seq(Line) /\ row \in 1 .. Len(text) /\ col = x
  /\ is_full \in BOOLEAN /\ conPc \in {"idle", "scroll"}
  /\ back \in {"no", "view", "full"} /\ spill \in {"no", "scrolled"} /\ (back = "full" => is_full)
RowsInMemory(y) ==
  /\ row - y >= 1 /\ Len(text) - (row - y) <= CON_LINES - 1
  /\ is_full => Len(text) - (row - y) >= SCR_LINES - 1
Fresh(y, x, s) == is_full /\ conPc = "scroll" /\ ~ ScreenHas(s, y) /\ x = 0 /\ row = Len(text)
TextHeld(y, x, s) ==
  /\ BlankAfter(text, row, x)
  /\ back # "full" => Holds(video, text, row - y, IF Fresh(y, x, s) THEN y ELSE -1)
  /\ ~ is_full => BlankBelow(video, Len(text) - (row - y))
ScreenFollows(y, x, s) ==
  /\ is_full /\ back # "full" /\ ScreenHas(s, y) => s + SCR_LINES - 1 <= Len(text) - (row - y)
  /\ conPc = "idle" /\ back = "no" => ScreenHas(s, y)
  /\ conPc = "idle" /\ back = "view" => ~ is_full
  /\ conPc = "scroll" /\ back = "no" => ScreenHas(s, y) \/ x = 0 \/ y <= CON_LINES - 2
ConAt(y, x, s) ==
  /\ cursor = Place(y, x) /\ crtc_start = Place(s, 0)
  /\ ConTypes(x) /\ RowsInMemory(y) /\ TextHeld(y, x, s) /\ ScreenFollows(y, x, s)
ConInv == \E y \in 0 .. CON_LINES - 1, x \in ConCol, s \in 0 .. CON_LINES - SCR_LINES : ConAt(y, x, s)

(***************************************************************************)
(* The words of the memory.                                                *)
(***************************************************************************)
LEMMA PlaceLex ==
  ASSUME NEW l \in Int, NEW c \in ConCol, NEW m \in Int, NEW d \in ConCol
  PROVE  Place(l, c) < Place(m, d) <=> l < m \/ (l = m /\ c < d)
<1>1. c \in Int /\ d \in Int /\ 0 \in Int /\ 0 \in ConCol
  BY ConSizes DEF ConCol
<1>2. Place(l, c) \in Int /\ Place(m, d) \in Int /\ Place(m, 0) \in Int /\ Place(l, 0) \in Int
  BY <1>1, PlaceType
<1>3. Place(m, 0) <= Place(m, d) /\ Place(l, 0) <= Place(l, c)
  BY <1>1, PlaceOrder
<1>4. CASE l < m
  <2>1. Place(l, c) < Place(m, 0)
    BY <1>4, PlaceOrder
  <2> QED
    BY <1>2, <1>3, <1>4, <2>1
<1>5. CASE l > m
  <2>1. Place(m, d) < Place(l, 0)
    BY <1>5, PlaceOrder
  <2> QED
    BY <1>2, <1>3, <1>5, <2>1
<1>6. CASE l = m
  <2>1. m * SCR_WIDTH \in Int
    BY ConSizes
  <2> QED
    BY <1>1, <1>6, <2>1 DEF Place
<1> QED
  BY <1>4, <1>5, <1>6

LEMMA PlaceInMemory ==
  ASSUME NEW l \in 0 .. CON_LINES - 1, NEW c \in ConCol
  PROVE  /\ Place(l, c) \in 0 .. con_size - 1 /\ Place(l, c) \in Words
         /\ Place(l, c) \in Nat /\ c \in Nat
<1>1. l \in Nat /\ c \in Nat /\ l < CON_LINES /\ CON_LINES \in Int
  BY ConSizes DEF ConCol
<1>2. Place(l, c) \in Nat
  <2>1. l \in Int /\ c \in Int
    BY <1>1
  <2> QED
    BY <1>1, <2>1, PlaceType
<1>3. Place(l, c) < Place(CON_LINES, 0)
  <2>1. l \in Int
    BY <1>1
  <2> QED
    BY <1>1, <2>1, PlaceOrder
<1> QED
  BY <1>1, <1>2, <1>3, SizesInPlaces, ConSizes DEF Words

LEMMA OnScreenIs ==
  ASSUME NEW y \in 0 .. CON_LINES - 1, NEW x \in ConCol, NEW s \in 0 .. CON_LINES - SCR_LINES,
         cursor = Place(y, x), crtc_start = Place(s, 0)
  PROVE  OnScreen(cursor) <=> ScreenHas(s, y)
<1>1. y \in Int /\ s \in Int /\ s + SCR_LINES \in Int /\ 0 \in Int
  BY ConSizes
<1>2. Place(s, 0) + SCR_SIZE = Place(s + SCR_LINES, 0)
  BY <1>1, SizesInPlaces, PlaceMoves, ConSizes
<1>3. Place(s, 0) <= Place(y, x) <=> s <= y
  BY <1>1, PlaceOrder
<1>4. Place(y, x) < Place(s + SCR_LINES, 0) <=> y < s + SCR_LINES
  BY <1>1, PlaceOrder
<1> QED
  BY <1>2, <1>3, <1>4 DEF OnScreen, ScreenHas

LEMMA WordWritten ==
  ASSUME NEW v \in [Words -> Nat], NEW y \in 0 .. CON_LINES - 1, NEW x \in ConCol, NEW m \in Nat
  PROVE  /\ WithWord(v, Place(y, x), m) \in [Words -> Nat]
         /\ WordChanged(v, WithWord(v, Place(y, x), m), y, x, m)
<1>1. WithWord(v, Place(y, x), m) \in [Words -> Nat]
  BY DEF WithWord
<1>2. ASSUME NEW l \in 0 .. CON_LINES - 1, NEW c \in ConCol
      PROVE  WithWord(v, Place(y, x), m)[Place(l, c)] = IF l = y /\ c = x THEN m ELSE v[Place(l, c)]
  <2>1. Place(l, c) \in Words
    BY PlaceInMemory
  <2>2. Place(l, c) = Place(y, x) <=> l = y /\ c = x
    <3>1. l \in Nat /\ y \in Nat
      OBVIOUS
    <3> QED
      BY <3>1, PlaceIs
  <2> QED
    BY <2>1, <2>2 DEF WithWord
<1> QED
  BY <1>1, <1>2 DEF WordChanged

LEMMA WordsCleared ==
  ASSUME NEW v \in [Words -> Nat], NEW y \in 0 .. CON_LINES - 1, NEW x \in ConCol
  PROVE  /\ clear_screen(v, Place(y, x)) \in [Words -> Nat]
         /\ \A l \in 0 .. CON_LINES - 1, c \in ConCol :
              clear_screen(v, Place(y, x))[Place(l, c)] =
                IF (l = y /\ c >= x) \/ (l = y + 1 /\ c < x) THEN 0 ELSE v[Place(l, c)]
<1>1. clear_screen(v, Place(y, x)) \in [Words -> Nat]
  BY DEF clear_screen
<1>2. ASSUME NEW l \in 0 .. CON_LINES - 1, NEW c \in ConCol
      PROVE  clear_screen(v, Place(y, x))[Place(l, c)] =
                IF (l = y /\ c >= x) \/ (l = y + 1 /\ c < x) THEN 0 ELSE v[Place(l, c)]
  <2>1. Place(l, c) \in Words /\ Place(l, c) \in Nat /\ Place(y, x) \in Nat
    BY PlaceInMemory
  <2>2. y \in Int /\ l \in Int /\ y + 1 \in Int /\ x \in Int /\ c \in Int
    BY ConSizes DEF ConCol
  <2>3. Place(y, x) + SCR_WIDTH = Place(y + 1, x)
    BY <2>2, PlaceMoves
  <2>4. Place(l, c) < Place(y, x) <=> l < y \/ (l = y /\ c < x)
    BY <2>2, PlaceLex
  <2>5. Place(l, c) < Place(y + 1, x) <=> l < y + 1 \/ (l = y + 1 /\ c < x)
    BY <2>2, PlaceLex
  <2>6. clear_screen(v, Place(y, x))[Place(l, c)] =
          IF Place(y, x) <= Place(l, c) /\ Place(l, c) < Place(y + 1, x) THEN 0 ELSE v[Place(l, c)]
    BY <2>1, <2>3 DEF clear_screen
  <2>7. Place(y, x) <= Place(l, c) /\ Place(l, c) < Place(y + 1, x)
          <=> (l = y /\ c >= x) \/ (l = y + 1 /\ c < x)
    BY <2>1, <2>2, <2>4, <2>5
  <2> QED
    BY <2>6, <2>7
<1> QED
  BY <1>1, <1>2

\* the last lines of a full memory at its top, and a blank line below them
LEMMA MemoryWrapped ==
  ASSUME NEW v \in [Words -> Nat]
  PROVE  LET w == clear_screen(Wrapped(v, con_size), Place(SCR_LINES - 1, 0)) IN
         /\ w \in [Words -> Nat]
         /\ \A l \in 0 .. SCR_LINES - 1, c \in ConCol :
              w[Place(l, c)] = IF l = SCR_LINES - 1 THEN 0 ELSE v[Place(l + CON_LINES + 1 - SCR_LINES, c)]
<1> DEFINE u == Wrapped(v, con_size)
           d == CON_LINES + 1 - SCR_LINES
           last == SCR_LINES - 1
<1>0. SCR_LINES - 1 \in 0 .. CON_LINES - 1 /\ 0 \in ConCol /\ d \in Int /\ d >= 2 /\ last \in Nat
  BY ConSizes DEF ConCol
<1>1. KeptFrom(con_size) = Place(d, 0)
  <2>1. con_size \div SCR_WIDTH = CON_LINES
    BY <1>0, SizesInPlaces, PlaceIs, ConSizes
  <2>2. (CON_LINES + 1) * SCR_WIDTH = Place(CON_LINES + 1, 0)
    BY ConSizes, PlaceMoves
  <2>3. Place(d, 0) + Place(SCR_LINES, 0) = Place(d + SCR_LINES, 0) /\ d + SCR_LINES = CON_LINES + 1
    BY <1>0, ConSizes, PlaceMoves
  <2>4. Place(d, 0) \in Int /\ Place(SCR_LINES, 0) \in Int
    <3>1. SCR_LINES \in Int /\ 0 \in Int
      BY ConSizes
    <3> HIDE DEF d
    <3> QED
      BY <1>0, <3>1, PlaceType
  <2> HIDE DEF d
  <2> QED
    BY <2>1, <2>2, <2>3, <2>4, SizesInPlaces DEF KeptFrom
<1>2. SCR_SIZE - SCR_WIDTH = Place(last, 0)
  BY SizesInPlaces, PlaceMoves, ConSizes
<1>3. ASSUME NEW w \in Words PROVE u[w] \in Nat /\ u[w] = IF w < Place(last, 0) THEN v[w + Place(d, 0)] ELSE v[w]
  <2>1. u[w] = IF w < Place(last, 0) THEN v[w + Place(d, 0)] ELSE v[w]
    BY <1>1, <1>2 DEF Wrapped
  <2>2. ASSUME w < Place(last, 0) PROVE w + Place(d, 0) \in Words
    <3>1. w \in Nat /\ Place(last, 0) \in Nat /\ Place(d, 0) \in Nat
      <4>1. last \in Int /\ last \in Nat /\ d \in Int /\ d \in Nat /\ 0 \in Int /\ 0 \in Nat
        BY <1>0
      <4>2. w \in Nat
        BY SizesInPlaces, ConSizes DEF Words
      <4> HIDE DEF last, d
      <4> QED
        BY <4>1, <4>2, PlaceType
    <3>2. Place(last, 0) + Place(d, 0) = Place(last + d, 0) /\ last + d = CON_LINES
      BY <1>0, ConSizes, PlaceMoves
    <3> HIDE DEF d, last
    <3> QED
      BY <2>2, <3>1, <3>2, SizesInPlaces, ConSizes DEF Words
  <2> HIDE DEF u
  <2> QED
    BY <2>1, <2>2
<1>4. u \in [Words -> Nat]
  <2>1. u = [w \in Words |-> u[w]]
    BY DEF Wrapped
  <2> HIDE DEF u
  <2> QED
    BY <1>3, <2>1
<1>5. ASSUME NEW l \in 0 .. SCR_LINES - 1, NEW c \in ConCol
      PROVE  clear_screen(u, Place(last, 0))[Place(l, c)] = IF l = last THEN 0 ELSE v[Place(l + d, c)]
  <2>1. l \in 0 .. CON_LINES - 1 /\ l \in Int /\ c \in Int /\ c >= 0 /\ last + 1 # l
    BY ConSizes DEF ConCol
  <2>2. clear_screen(u, Place(last, 0))[Place(l, c)] = IF l = last THEN 0 ELSE u[Place(l, c)]
    <3> HIDE DEF u
    <3>1. last \in 0 .. CON_LINES - 1
      BY <1>0
    <3> HIDE DEF last
    <3> QED
      BY <1>0, <1>4, <2>1, <3>1, WordsCleared
  <2>3. ASSUME l # last PROVE u[Place(l, c)] = v[Place(l + d, c)]
    <3>1. Place(l, c) < Place(last, 0)
      BY <2>1, <2>3, <1>0, PlaceOrder
    <3>2. Place(l, c) + Place(d, 0) = Place(l + d, c)
      BY <2>1, <1>0, PlaceMoves
    <3>3. Place(l, c) \in Words
      BY <2>1, PlaceInMemory
    <3> HIDE DEF u
    <3> QED
      BY <1>3, <3>1, <3>2, <3>3
  <2> HIDE DEF u
  <2> QED
    BY <2>2, <2>3
<1>6. clear_screen(u, Place(last, 0)) \in [Words -> Nat]
  <2> HIDE DEF u, last
  <2> QED
    BY <1>4 DEF clear_screen
<1>7. \A l \in 0 .. SCR_LINES - 1 : l + d = l + CON_LINES + 1 - SCR_LINES
  BY ConSizes
<1> QED
  BY <1>5, <1>6, <1>7

(***************************************************************************)
(* The text, and what a character written or erased in both leaves.        *)
(***************************************************************************)
LEMMA TextWritten ==
  ASSUME NEW t \in Seq(Line), NEW r \in 1 .. Len(t), NEW x \in ConCol, NEW m \in Nat
  PROVE  MarkChanged(t, WithMark(t, r, x, m), r, x, m)
<1> DEFINE u == WithMark(t, r, x, m)
           ln == [t[r] EXCEPT ![x] = m]
<1>1. t[r] \in Line /\ \A j \in 1 .. Len(t) : t[j] \in Line
  OBVIOUS
<1>2. ln \in Line /\ ln[x] = m /\ \A c \in ConCol : c # x => ln[c] = t[r][c]
  BY <1>1 DEF Line
<1>3. u = [t EXCEPT ![r] = ln]
  BY DEF WithMark
<1> HIDE DEF ln, u
<1>4. u \in Seq(Line) /\ Len(u) = Len(t)
  BY <1>2, <1>3
<1>5. u[r] = ln /\ \A j \in 1 .. Len(t) : j # r => u[j] = t[j]
  BY <1>3
<1>6. \A j \in 1 .. Len(t), c \in ConCol : u[j][c] = IF j = r /\ c = x THEN m ELSE t[j][c]
  BY <1>2, <1>5
<1> QED
  BY <1>4, <1>6 DEF u, MarkChanged

LEMMA RowAdded ==
  ASSUME NEW t \in Seq(Line)
  PROVE  /\ Append(t, Blank) \in Seq(Line) /\ Len(Append(t, Blank)) = Len(t) + 1
         /\ \A j \in 1 .. Len(t) : Append(t, Blank)[j] = t[j]
         /\ \A c \in ConCol : Append(t, Blank)[Len(t) + 1][c] = 0
<1>1. Blank \in Line /\ \A c \in ConCol : Blank[c] = 0
  BY DEF Blank, Line, ConCol
<1>2. \A b \in Line : /\ Append(t, b) \in Seq(Line) /\ Len(Append(t, b)) = Len(t) + 1
                      /\ Append(t, b)[Len(t) + 1] = b
                      /\ \A j \in 1 .. Len(t) : Append(t, b)[j] = t[j]
  OBVIOUS
<1> QED
  BY <1>1, <1>2

LEMMA HoldsWritten ==
  ASSUME NEW v \in [Words -> Nat], NEW t \in Seq(Line), NEW r \in 1 .. Len(t), NEW m \in Nat,
         NEW y \in 0 .. CON_LINES - 1, NEW x \in ConCol, r - y >= 1, Holds(v, t, r - y, -1)
  PROVE  Holds(WithWord(v, Place(y, x), m), WithMark(t, r, x, m), r - y, -1)
<1> DEFINE w == WithWord(v, Place(y, x), m)
           u == WithMark(t, r, x, m)
<1>1. WordChanged(v, w, y, x, m)
  BY WordWritten
<1>2. MarkChanged(t, u, r, x, m)
  BY TextWritten
<1> HIDE DEF w, u
<1>3. ASSUME NEW l \in 0 .. CON_LINES - 1, NEW c \in ConCol, l <= Len(u) - (r - y)
      PROVE  w[Place(l, c)] = u[r - y + l][c]
  <2>1. r - y + l \in 1 .. Len(t) /\ l # -1 /\ (r - y + l = r <=> l = y) /\ l <= Len(t) - (r - y)
    BY <1>2, <1>3, ConSizes DEF WordChanged, MarkChanged
  <2>2. v[Place(l, c)] = t[r - y + l][c]
    BY <2>1 DEF Holds
  <2> QED
    BY <1>1, <1>2, <2>1, <2>2 DEF WordChanged, MarkChanged
<1>4. Holds(w, u, r - y, -1)
  BY <1>3 DEF Holds
<1> QED
  BY <1>4 DEF w, u

LEMMA BelowWritten ==
  ASSUME NEW v \in [Words -> Nat], NEW m \in Nat, NEW last \in Int,
         NEW y \in 0 .. CON_LINES - 1, NEW x \in ConCol, y <= last, BlankBelow(v, last)
  PROVE  BlankBelow(WithWord(v, Place(y, x), m), last)
<1> DEFINE w == WithWord(v, Place(y, x), m)
<1>1. WordChanged(v, w, y, x, m)
  BY WordWritten
<1> HIDE DEF w
<1>2. ASSUME NEW l \in 0 .. CON_LINES - 1, NEW c \in ConCol, l > last PROVE w[Place(l, c)] = 0
  <2>1. l # y
    BY <1>2 DEF WordChanged, MarkChanged
  <2>2. v[Place(l, c)] = 0
    BY <1>2 DEF BlankBelow, WordChanged, MarkChanged
  <2> QED
    BY <1>1, <2>1, <2>2 DEF WordChanged, MarkChanged
<1>3. BlankBelow(w, last)
  BY <1>2 DEF BlankBelow, WordChanged, MarkChanged
<1> QED
  BY <1>3 DEF w

\* One column further, or the one before.
LEMMA AfterWritten ==
  ASSUME NEW t \in Seq(Line), NEW r \in 1 .. Len(t), NEW x \in ConCol, NEW m \in Nat, BlankAfter(t, r, x)
  PROVE  BlankAfter(WithMark(t, r, x, m), r, x + 1)
<1> DEFINE u == WithMark(t, r, x, m)
<1>1. MarkChanged(t, u, r, x, m)
  BY TextWritten
<1> HIDE DEF u
<1>2. ASSUME NEW j \in 1 .. Len(u), NEW c \in ConCol, j > r \/ (j = r /\ c >= x + 1) PROVE u[j][c] = 0
  <2>1. ~ (j = r /\ c = x) /\ (j > r \/ (j = r /\ c >= x)) /\ j \in 1 .. Len(t)
    BY <1>1, <1>2 DEF ConCol, WordChanged, MarkChanged
  <2>2. t[j][c] = 0
    BY <2>1 DEF BlankAfter
  <2> QED
    BY <1>1, <2>1, <2>2 DEF WordChanged, MarkChanged
<1>3. BlankAfter(u, r, x + 1)
  BY <1>2 DEF BlankAfter, WordChanged, MarkChanged
<1> QED
  BY <1>3 DEF u

LEMMA AfterErased ==
  ASSUME NEW t \in Seq(Line), NEW r \in 1 .. Len(t), NEW x \in ConCol, NEW q \in 1 .. Len(t), NEW z \in Int,
         BlankAfter(t, q, z),
         (r = q /\ z = x + 1) \/ (r = q - 1 /\ z = 0 /\ x = SCR_WIDTH - 1)
  PROVE  BlankAfter(WithMark(t, r, x, 0), r, x)
<1> DEFINE u == WithMark(t, r, x, 0)
<1>1. MarkChanged(t, u, r, x, 0)
  BY TextWritten
<1> HIDE DEF u
<1>2. ASSUME NEW j \in 1 .. Len(u), NEW c \in ConCol, j > r \/ (j = r /\ c >= x) PROVE u[j][c] = 0
  <2>1. j \in 1 .. Len(t)
    BY <1>1 DEF WordChanged, MarkChanged
  <2>2. CASE j = r /\ c = x
    BY <1>1, <2>1, <2>2 DEF WordChanged, MarkChanged
  <2>3. CASE ~ (j = r /\ c = x)
    <3>1. j > q \/ (j = q /\ c >= z)
      BY <1>2, <2>3, ConSizes DEF ConCol, WordChanged, MarkChanged
    <3>2. t[j][c] = 0
      BY <2>1, <3>1 DEF BlankAfter
    <3> QED
      BY <1>1, <2>1, <2>3, <3>2 DEF WordChanged, MarkChanged
  <2> QED
    BY <2>2, <2>3
<1>3. BlankAfter(u, r, x)
  BY <1>2 DEF BlankAfter, WordChanged, MarkChanged
<1> QED
  BY <1>3 DEF u

\* The rows that a new row is put below.
LEMMA RowBelow ==
  ASSUME NEW v \in [Words -> Nat], NEW t \in Seq(Line), NEW f \in Nat, f >= 1,
         NEW y \in 0 .. CON_LINES - 1, Len(t) = f + y, NEW skip \in Int,
         Holds(v, t, f, -1), skip = y + 1 \/ BlankBelow(v, y)
  PROVE  Holds(v, Append(t, Blank), f, skip)
<1> DEFINE u == Append(t, Blank)
<1>1. /\ Len(u) = Len(t) + 1 /\ \A j \in 1 .. Len(t) : u[j] = t[j]
      /\ \A c \in ConCol : u[Len(t) + 1][c] = 0
  BY RowAdded
<1> HIDE DEF u
<1>2. ASSUME NEW l \in 0 .. CON_LINES - 1, NEW c \in ConCol, l <= Len(u) - f, l # skip
      PROVE  v[Place(l, c)] = u[f + l][c]
  <2>1. CASE l <= y
    <3>1. f + l \in 1 .. Len(t) /\ l <= Len(t) - f /\ l # -1
      BY <2>1, ConSizes
    <3>2. v[Place(l, c)] = t[f + l][c]
      BY <3>1 DEF Holds
    <3> QED
      BY <1>1, <3>1, <3>2
  <2>2. CASE l > y
    <3>1. l = y + 1 /\ f + l = Len(t) + 1
      BY <1>1, <1>2, <2>2, ConSizes
    <3>2. BlankBelow(v, y)
      BY <1>2, <3>1
    <3>3. v[Place(l, c)] = 0
      BY <2>2, <3>2 DEF BlankBelow
    <3> QED
      BY <1>1, <3>1, <3>3
  <2> QED
    BY <2>1, <2>2
<1>3. Holds(v, u, f, skip)
  BY <1>2 DEF Holds
<1> QED
  BY <1>3 DEF u

LEMMA AfterAdded ==
  ASSUME NEW t \in Seq(Line), BlankAfter(t, Len(t), SCR_WIDTH)
  PROVE  BlankAfter(Append(t, Blank), Len(t) + 1, 0)
<1> DEFINE u == Append(t, Blank)
<1>1. Len(u) = Len(t) + 1 /\ \A c \in ConCol : u[Len(t) + 1][c] = 0
  BY RowAdded
<1> HIDE DEF u
<1>2. ASSUME NEW j \in 1 .. Len(u), NEW c \in ConCol, j > Len(t) + 1 \/ (j = Len(t) + 1 /\ c >= 0)
      PROVE  u[j][c] = 0
  <2>1. j = Len(t) + 1
    BY <1>1, <1>2
  <2> QED
    BY <1>1, <2>1
<1>3. BlankAfter(u, Len(t) + 1, 0)
  BY <1>2 DEF BlankAfter
<1> QED
  BY <1>3 DEF u

\* The last rows, copied to the top of the memory.
LEMMA RowsWrapped ==
  ASSUME NEW v \in [Words -> Nat], NEW t \in Seq(Line), NEW r \in Nat, r = Len(t), r - (CON_LINES - 1) >= 1,
         Holds(v, t, r - (CON_LINES - 1), -1)
  PROVE  Holds(clear_screen(Wrapped(v, con_size), Place(SCR_LINES - 1, 0)), Append(t, Blank),
               r + 1 - (SCR_LINES - 1), -1)
<1> DEFINE w == clear_screen(Wrapped(v, con_size), Place(SCR_LINES - 1, 0))
           u == Append(t, Blank)
           f == r - (CON_LINES - 1)
           g == r + 1 - (SCR_LINES - 1)
<1>1. \A l \in 0 .. SCR_LINES - 1, c \in ConCol :
        w[Place(l, c)] = IF l = SCR_LINES - 1 THEN 0 ELSE v[Place(l + CON_LINES + 1 - SCR_LINES, c)]
  BY MemoryWrapped
<1>2. /\ Len(u) = Len(t) + 1 /\ \A j \in 1 .. Len(t) : u[j] = t[j]
      /\ \A c \in ConCol : u[Len(t) + 1][c] = 0
  BY RowAdded
<1>3. f \in Int /\ g \in Int /\ f >= 1 /\ g + SCR_LINES - 1 = r + 1 /\ f + CON_LINES + 1 - SCR_LINES = g
      /\ g >= 1
  BY ConSizes
<1>4. Holds(v, t, f, -1)
  OBVIOUS
<1> HIDE DEF w, u, f, g
<1>5. ASSUME NEW l \in 0 .. CON_LINES - 1, NEW c \in ConCol, l <= Len(u) - g
      PROVE  w[Place(l, c)] = u[g + l][c]
  <2>1. l \in 0 .. SCR_LINES - 1
    BY <1>2, <1>3, <1>5, ConSizes
  <2>2. CASE l = SCR_LINES - 1
    <3>1. g + l = Len(t) + 1
      BY <1>3, <2>2, ConSizes
    <3> QED
      BY <1>1, <1>2, <2>1, <2>2, <3>1
  <2>3. CASE l # SCR_LINES - 1
    <3> DEFINE k == l + CON_LINES + 1 - SCR_LINES
    <3>1. k \in 0 .. CON_LINES - 1 /\ k <= Len(t) - f /\ f + k = g + l /\ k # -1
      BY <1>3, <2>1, <2>3, ConSizes
    <3>2. g + l \in 1 .. Len(t)
      BY <1>3, <2>1, <2>3, ConSizes
    <3>3. w[Place(l, c)] = v[Place(k, c)]
      BY <1>1, <2>1, <2>3
    <3> HIDE DEF k
    <3>4. v[Place(k, c)] = t[f + k][c]
      BY <1>4, <3>1 DEF Holds
    <3> QED
      BY <1>2, <3>1, <3>2, <3>3, <3>4
  <2> QED
    BY <2>2, <2>3
<1>6. Holds(w, u, g, -1)
  BY <1>5 DEF Holds
<1> QED
  BY <1>6 DEF w, u, g

(***************************************************************************)
(* The next line is reached: by a newline, or past the last column.  The   *)
(* character of the line before is in v and in t.                          *)
(***************************************************************************)
LEMMA HoldsBut ==
  ASSUME NEW v, NEW t, NEW f, Holds(v, t, f, -1), NEW skip
  PROVE  Holds(v, t, f, skip)
BY DEF Holds

\* what an idle console that is not scrolled back in full shows
LEMMA IdleShows ==
  ASSUME NEW y \in 0 .. CON_LINES - 1, NEW x \in ConCol, NEW s \in 0 .. CON_LINES - SCR_LINES,
         ConAt(y, x, s), conPc = "idle", back # "full"
  PROVE  /\ Holds(video, text, row - y, -1)
         /\ is_full => ScreenHas(s, y) /\ s + SCR_LINES - 1 <= Len(text) - (row - y)
         /\ back = "no" => ScreenHas(s, y)
BY DEF ConAt, ConTypes, TextHeld, Fresh, ScreenFollows

NextLine(y, v, t) ==
  /\ Out(v, Place(y + 1, 0)) /\ row' = row + 1 /\ col' = 0 /\ conPc' = "scroll"
  /\ text' = (IF row + 1 \in DOMAIN t THEN t ELSE Append(t, Blank)) /\ back' = back /\ spill' = spill

LEMMA NextLineInMemory ==
  ASSUME NEW y \in 0 .. CON_LINES - 1, NEW x \in ConCol, NEW s \in 0 .. CON_LINES - SCR_LINES,
         ConAt(y, x, s), conPc = "idle",
         NEW v \in [Words -> Nat], NEW t \in Seq(Line), Len(t) = Len(text),
         BlankAfter(t, row, SCR_WIDTH), back # "full" => Holds(v, t, row - y, -1),
         ~ is_full => BlankBelow(v, Len(t) - (row - y)),
         NextLine(y, v, t), y + 1 < CON_LINES
  PROVE  ConInv'
<1> DEFINE z == y + 1
           f == row - y
<1>1. z \in 0 .. CON_LINES - 1 /\ 0 \in ConCol /\ z \in Int /\ y \in Nat
  BY ConSizes DEF ConCol
<1>2. /\ row \in 1 .. Len(t) /\ row \in Nat /\ f \in Nat /\ f >= 1 /\ Len(t) - f <= CON_LINES - 1
      /\ is_full => Len(t) - f >= SCR_LINES - 1
      /\ Len(t) \in Nat
  BY DEF ConAt, ConTypes, RowsInMemory
<1>3. video' = v /\ cursor' = Place(z, 0) /\ crtc_start' = crtc_start /\ is_full' = is_full
  <2>1. ~ PastEnd(Place(z, 0))
    BY <1>1, PlaceInMemory, SizesInPlaces DEF PastEnd
  <2> QED
    BY <2>1 DEF NextLine, Out
<1>4. crtc_start' = Place(s, 0) /\ row' = row + 1 /\ col' = 0 /\ conPc' = "scroll" /\ back' = back
  BY <1>3 DEF NextLine, ConAt
<1>5. /\ is_full \in BOOLEAN /\ back \in {"no", "view", "full"} /\ spill \in {"no", "scrolled"} /\ spill' = spill
      /\ back = "full" => is_full
  BY DEF ConAt, ConTypes, NextLine
<1>6. ASSUME back # "full", is_full
      PROVE  ScreenHas(s, y) /\ s + SCR_LINES - 1 <= Len(t) - f
  BY <1>6, IdleShows
<1>7. row' - z = f
  BY <1>2, <1>4
<1> HIDE DEF z, f
<1>8. CASE row + 1 \in DOMAIN t
  <2>1. text' = t /\ row + 1 \in 1 .. Len(t)
    BY <1>8 DEF NextLine
  <2>2. ConTypes(0)'
    BY <1>3, <1>4, <1>5, <2>1 DEF ConTypes
  <2>3. RowsInMemory(z)'
    BY <1>2, <1>3, <1>7, <2>1 DEF RowsInMemory
  <2>4. TextHeld(z, 0, s)'
    <3>1. BlankAfter(t, row + 1, 0)
      BY <1>2 DEF BlankAfter
    <3>2. ASSUME back # "full" PROVE Holds(v, t, f, (IF Fresh(z, 0, s) THEN z ELSE -1)')
      BY <3>2, HoldsBut DEF f
    <3>3. ~ is_full => BlankBelow(v, Len(t) - f)
      BY DEF f
    <3> QED
      BY <1>3, <1>4, <1>7, <2>1, <3>1, <3>2, <3>3 DEF TextHeld
  <2>5. ScreenFollows(z, 0, s)'
    BY <1>3, <1>4, <1>6, <1>7, <2>1 DEF ScreenFollows
  <2> QED
    BY <1>1, <1>3, <1>4, <2>2, <2>3, <2>4, <2>5 DEF ConAt, ConInv
<1>9. CASE row + 1 \notin DOMAIN t
  <2>1. text' = Append(t, Blank) /\ row = Len(t)
    BY <1>2, <1>9 DEF NextLine
  <2>2. text' \in Seq(Line) /\ Len(text') = Len(t) + 1 /\ row + 1 \in 1 .. Len(text')
    <3>1. Append(t, Blank) \in Seq(Line) /\ Len(Append(t, Blank)) = Len(t) + 1
      BY RowAdded
    <3>2. text' \in Seq(Line) /\ Len(text') = Len(t) + 1
      BY <2>1, <3>1, Zenon
    <3>3. row + 1 \in 1 .. Len(t) + 1
      BY <1>2, <2>1
    <3> QED
      BY <3>2, <3>3
  <2>3. Len(t) - f = y /\ Len(text') - f = z /\ Len(t) = f + y
    BY <1>2, <2>1, <2>2 DEF z, f
  <2>4. ConTypes(0)'
    BY <1>3, <1>4, <1>5, <2>2 DEF ConTypes
  <2>5. RowsInMemory(z)'
    BY <1>1, <1>2, <1>3, <1>7, <2>3, ConSizes DEF RowsInMemory, z
  <2>6. ASSUME back # "full", is_full PROVE ~ ScreenHas(s, z)
    BY <1>6, <2>3, <2>6, ConSizes DEF ScreenHas, z
  <2>7. TextHeld(z, 0, s)'
    <3>1. BlankAfter(text', row', 0)
      BY <1>2, <1>4, <2>1, AfterAdded
    <3>2. ASSUME back # "full" PROVE Holds(v, text', f, (IF Fresh(z, 0, s) THEN z ELSE -1)')
      <4>1. is_full => Fresh(z, 0, s)'
        BY <1>2, <1>3, <1>4, <2>1, <2>2, <2>6, <3>2 DEF Fresh
      <4>2. CASE is_full
        <5>1. Holds(v, Append(t, Blank), f, y + 1)
          BY <1>1, <1>2, <2>3, <3>2, RowBelow DEF f
        <5> QED
          BY <2>1, <4>1, <4>2, <5>1 DEF z
      <4>3. CASE ~ is_full
        <5>1. BlankBelow(v, y)
          BY <2>3, <4>3 DEF f
        <5>2. Holds(v, Append(t, Blank), f, -1)
          BY <1>1, <1>2, <2>3, <3>2, <5>1, RowBelow, SMTT(40) DEF f
        <5> QED
          BY <2>1, <5>2, HoldsBut
      <4> QED
        BY <1>5, <4>2, <4>3
    <3>3. ~ is_full => BlankBelow(v, Len(text') - f)
      <4>1. ASSUME ~ is_full PROVE BlankBelow(v, z)
        <5>1. BlankBelow(v, y)
          BY <2>3, <4>1 DEF f
        <5> QED
          BY <5>1, <1>1 DEF BlankBelow, z
      <4> QED
        BY <2>3, <4>1
    <3> QED
      BY <1>3, <1>4, <1>7, <3>1, <3>2, <3>3 DEF TextHeld
  <2>8. ScreenFollows(z, 0, s)'
    BY <1>3, <1>4, <2>6 DEF ScreenFollows
  <2> QED
    BY <1>1, <1>3, <1>4, <2>4, <2>5, <2>7, <2>8 DEF ConAt, ConInv
<1> QED
  BY <1>8, <1>9

\* Past the end of the memory: the copy to its top.
LEMMA NextLineWraps ==
  ASSUME NEW y \in 0 .. CON_LINES - 1, NEW x \in ConCol, NEW s \in 0 .. CON_LINES - SCR_LINES,
         ConAt(y, x, s), conPc = "idle",
         NEW v \in [Words -> Nat], NEW t \in Seq(Line), Len(t) = Len(text),
         BlankAfter(t, row, SCR_WIDTH), back # "full" => Holds(v, t, row - y, -1),
         NextLine(y, v, t), y + 1 = CON_LINES
  PROVE  ConInv'
<1> DEFINE z == SCR_LINES - 1
           w == clear_screen(Wrapped(v, con_size), Place(SCR_LINES - 1, 0))
<1>1. z \in 0 .. CON_LINES - 1 /\ 0 \in ConCol /\ 0 \in 0 .. CON_LINES - SCR_LINES /\ 0 \in Int
  BY ConSizes DEF ConCol
<1>2. /\ row \in 1 .. Len(t) /\ row \in Nat /\ row - y >= 1 /\ Len(t) - (row - y) <= CON_LINES - 1
      /\ Len(t) \in Nat
  BY DEF ConAt, ConTypes, RowsInMemory
<1>3. row = Len(t) /\ y = CON_LINES - 1
  BY <1>2, ConSizes
<1>4. video' = w /\ cursor' = Place(z, 0) /\ crtc_start' = Place(0, 0) /\ is_full' = TRUE
  <2>1. Place(y + 1, 0) = con_size
    BY SizesInPlaces
  <2>2. PastEnd(con_size) /\ Cursor(con_size)[1] = 0
    <3>1. con_size % SCR_WIDTH = 0
      BY <1>1, SizesInPlaces, PlaceIs, ConSizes
    <3> QED
      BY <3>1, SizesInPlaces DEF PastEnd, Cursor
  <2>3. SCR_SIZE - SCR_WIDTH + 0 = Place(SCR_LINES - 1, 0)
    BY <1>1, SizesInPlaces, PlaceMoves, PlaceType, ConSizes
  <2>4. Place(0, 0) = 0
    BY <1>1, PlaceMoves
  <2>5. Out(v, con_size)
    BY <2>1 DEF NextLine
  <2>6. /\ video' = clear_screen(Wrapped(v, con_size), SCR_SIZE - SCR_WIDTH + 0)
        /\ cursor' = SCR_SIZE - SCR_WIDTH + 0 /\ crtc_start' = 0 /\ is_full' = TRUE
    BY <2>2, <2>5 DEF Out
  <2> QED
    BY <2>3, <2>4, <2>6
<1>5. /\ text' = Append(t, Blank) /\ row' = row + 1 /\ col' = 0 /\ conPc' = "scroll"
      /\ back' = back /\ spill' = spill
  BY <1>2, <1>3 DEF NextLine
<1>6. text' \in Seq(Line) /\ Len(text') = Len(t) + 1 /\ row' \in 1 .. Len(text')
  BY <1>2, <1>5, RowAdded
<1>7. /\ back \in {"no", "view", "full"} /\ spill \in {"no", "scrolled"}
  BY DEF ConAt, ConTypes
<1>8. w \in [Words -> Nat]
  BY MemoryWrapped
<1> HIDE DEF w
<1>9. row' - z >= 1 /\ Len(text') - (row' - z) = z /\ row' - z = row + 1 - (SCR_LINES - 1)
  BY <1>2, <1>3, <1>5, <1>6, ConSizes
<1>10. ConTypes(0)'
  BY <1>4, <1>5, <1>6, <1>7, <1>8 DEF ConTypes
<1>11. RowsInMemory(z)'
  BY <1>1, <1>4, <1>9, ConSizes DEF RowsInMemory
<1>12. ScreenHas(0, z)
  BY ConSizes DEF ScreenHas
<1>13. TextHeld(z, 0, 0)'
  <2>1. BlankAfter(text', row', 0)
    BY <1>3, <1>5, AfterAdded
  <2>2. ASSUME back # "full" PROVE Holds(w, text', row' - z, -1)
    <3>1. row - (CON_LINES - 1) >= 1 /\ Holds(v, t, row - (CON_LINES - 1), -1)
      BY <1>2, <1>3, <2>2
    <3>2. Holds(w, Append(t, Blank), row + 1 - (SCR_LINES - 1), -1)
      BY <1>2, <1>3, <3>1, RowsWrapped DEF w
    <3> QED
      BY <1>5, <1>9, <3>2
  <2>3. ~ Fresh(z, 0, 0)'
    BY <1>12 DEF Fresh
  <2> HIDE DEF z
  <2> QED
    BY <1>4, <1>5, <2>1, <2>2, <2>3 DEF TextHeld
<1>14. ScreenFollows(z, 0, 0)'
  <2>1. 0 + SCR_LINES - 1 <= Len(text') - (row' - z)
    BY <1>9, ConSizes
  <2> HIDE DEF z
  <2> QED
    BY <1>5, <1>12, <2>1 DEF ScreenFollows
<1> HIDE DEF z
<1> QED
  BY <1>1, <1>4, <1>10, <1>11, <1>13, <1>14 DEF ConAt, ConInv

(***************************************************************************)
(* scroll_screen() in lines.                                               *)
(***************************************************************************)
LEMMA LinesOrder ==
  ASSUME NEW l \in Int, NEW m \in Int
  PROVE  /\ Place(l, 0) < Place(m, 0) <=> l < m
         /\ Place(l, 0) <= Place(m, 0) <=> l <= m
         /\ Place(l, 0) = Place(m, 0) <=> l = m
<1>1. 0 \in ConCol /\ 0 \in Int
  BY ConSizes DEF ConCol
<1>2. Place(l, 0) \in Int /\ Place(m, 0) \in Int
  BY <1>1, PlaceType
<1>3. (Place(l, 0) < Place(m, 0) <=> l < m) /\ (Place(m, 0) < Place(l, 0) <=> m < l)
  BY <1>1, PlaceOrder
<1> QED
  BY <1>2, <1>3

LEMMA UpIs ==
  ASSUME NEW y \in 0 .. CON_LINES - 1, NEW x \in ConCol, NEW s \in 0 .. CON_LINES - SCR_LINES,
         cursor = Place(y, x), crtc_start = Place(s, 0)
  PROVE  \E z \in 0 .. CON_LINES - SCR_LINES :
           /\ Up = Place(z, 0)
           /\ is_full /\ ~ ScreenHas(s, y) => z = 0 \/ z = s + 1
<1>1. s \in Int /\ y \in Int /\ s + SCR_LINES \in Int /\ s + 1 \in Int /\ 0 \in Int /\ y \in Nat
      /\ s + SCR_LINES - 1 \in Int /\ CON_LINES \in Int /\ SCR_LINES \in Int
  BY ConSizes
<1>2. newest = Place(y, 0)
  BY <1>1, PlaceIs, PlaceMoves DEF newest
<1>3. /\ Place(s, 0) + SCR_SIZE = Place(s + SCR_LINES, 0) /\ Place(s, 0) + SCR_WIDTH = Place(s + 1, 0)
      /\ Place(s, 0) + SCR_SIZE - SCR_WIDTH = Place(s + SCR_LINES - 1, 0) /\ Place(0, 0) = 0
  <2>1. Place(s, 0) + SCR_SIZE = Place(s + SCR_LINES, 0) /\ Place(s, 0) + SCR_WIDTH = Place(s + 1, 0)
    BY <1>1, SizesInPlaces, PlaceMoves
  <2>2. Place(s + SCR_LINES, 0) - SCR_WIDTH = Place(s + SCR_LINES - 1, 0)
    BY <1>1, PlaceMoves
  <2>3. Place(0, 0) = 0
    BY <1>1, PlaceMoves
  <2>4. Place(s, 0) \in Int /\ SCR_SIZE \in Int /\ SCR_WIDTH \in Int
    BY <1>1, PlaceType, SizesInPlaces, ConSizes
  <2> QED
    BY <2>1, <2>2, <2>3, <2>4
<1>9. /\ Place(s, 0) \in Int /\ SCR_SIZE \in Int /\ SCR_WIDTH \in Int
      /\ Place(y, 0) \in Int /\ Place(s + SCR_LINES, 0) \in Int
  BY <1>1, PlaceType, SizesInPlaces, ConSizes
<1>4. /\ Place(y, 0) >= Place(s + SCR_LINES, 0) <=> y >= s + SCR_LINES
      /\ Place(s + SCR_LINES - 1, 0) = Place(y, 0) <=> s + SCR_LINES - 1 = y
      /\ Place(s + SCR_LINES, 0) = con_size <=> s + SCR_LINES = CON_LINES
  BY <1>1, LinesOrder, SizesInPlaces
<1>5. Up = IF ~ is_full /\ y >= s + SCR_LINES THEN Place(s + 1, 0)
           ELSE IF is_full /\ s + SCR_LINES - 1 # y
             THEN IF s + SCR_LINES = CON_LINES THEN Place(0, 0) ELSE Place(s + 1, 0)
           ELSE Place(s, 0)
  <2>1. Up = IF ~ is_full /\ Place(y, 0) >= Place(s + SCR_LINES, 0) THEN Place(s + 1, 0)
             ELSE IF is_full /\ Place(s + SCR_LINES - 1, 0) # Place(y, 0)
               THEN IF Place(s + SCR_LINES, 0) = con_size THEN Place(0, 0) ELSE Place(s + 1, 0)
             ELSE Place(s, 0)
    BY <1>2, <1>3, <1>9 DEF Up
  <2> QED
    BY <1>4, <2>1
<1>6. CASE ~ is_full /\ y >= s + SCR_LINES
  <2>1. s + 1 \in 0 .. CON_LINES - SCR_LINES
    BY <1>6, ConSizes
  <2> QED
    BY <1>5, <1>6, <2>1
<1>7. CASE is_full /\ s + SCR_LINES - 1 # y
  <2>1. s + SCR_LINES # CON_LINES => s + 1 \in 0 .. CON_LINES - SCR_LINES
    BY ConSizes
  <2>2. 0 \in 0 .. CON_LINES - SCR_LINES
    BY ConSizes
  <2> QED
    BY <1>5, <1>7, <2>1, <2>2
<1>8. CASE ~ (~ is_full /\ y >= s + SCR_LINES) /\ ~ (is_full /\ s + SCR_LINES - 1 # y)
  <2>1. Up = Place(s, 0)
    BY <1>5, <1>8
  <2>2. is_full => ScreenHas(s, y)
    BY <1>8, ConSizes DEF ScreenHas
  <2> QED
    BY <2>1, <2>2
<1> QED
  BY <1>6, <1>7, <1>8

LEMMA DownIs ==
  ASSUME NEW y \in 0 .. CON_LINES - 1, NEW x \in ConCol, NEW s \in 0 .. CON_LINES - SCR_LINES,
         cursor = Place(y, x), crtc_start = Place(s, 0)
  PROVE  \E z \in 0 .. CON_LINES - SCR_LINES : Down = Place(z, 0)
<1>1. s \in Int /\ 0 \in Int /\ s - 1 \in Int /\ CON_LINES - SCR_LINES \in Int
  BY ConSizes
<1>2. Place(s, 0) - SCR_WIDTH = Place(s - 1, 0) /\ Place(0, 0) = 0
  BY <1>1, PlaceMoves
<1>3. con_size - SCR_SIZE = Place(CON_LINES - SCR_LINES, 0)
  <2>1. Place(CON_LINES - SCR_LINES, 0) + Place(SCR_LINES, 0) = Place(CON_LINES - SCR_LINES + SCR_LINES, 0)
    BY <1>1, PlaceMoves, ConSizes
  <2>2. CON_LINES - SCR_LINES + SCR_LINES = CON_LINES
    BY ConSizes
  <2>3. Place(CON_LINES - SCR_LINES, 0) \in Int /\ Place(SCR_LINES, 0) \in Int
    <3>1. SCR_LINES \in Int
      BY ConSizes
    <3> QED
      BY <1>1, <3>1, PlaceType
  <2> QED
    BY <2>1, <2>2, <2>3, SizesInPlaces
<1>4. (Place(s, 0) > 0 <=> s > 0) /\ (Place(s, 0) = 0 <=> s = 0)
  <2>1. (Place(0, 0) < Place(s, 0) <=> 0 < s) /\ (Place(s, 0) = Place(0, 0) <=> s = 0)
    BY <1>1, LinesOrder
  <2> QED
    BY <1>2, <2>1
<1>5. Down \in {Place(s, 0), con_size - SCR_SIZE} \cup (IF Place(s, 0) > 0 THEN {Place(s, 0) - SCR_WIDTH} ELSE {})
  <2>1. Place(s, 0) \in Int /\ Place(s, 0) >= 0
    BY <1>1, <1>4, PlaceType
  <2> QED
    BY <2>1 DEF Down
<1>6. CASE Down = Place(s, 0)
  BY <1>6
<1>7. CASE Down = con_size - SCR_SIZE
  <2>1. CON_LINES - SCR_LINES \in 0 .. CON_LINES - SCR_LINES
    BY ConSizes
  <2> QED
    BY <1>3, <1>7, <2>1
<1>8. CASE Place(s, 0) > 0 /\ Down = Place(s, 0) - SCR_WIDTH
  <2>1. s - 1 \in 0 .. CON_LINES - SCR_LINES
    BY <1>4, <1>8, ConSizes
  <2> QED
    BY <1>2, <1>8, <2>1
<1> QED
  BY <1>5, <1>6, <1>7, <1>8

(***************************************************************************)
(* Every step of output, and of the user.                                  *)
(***************************************************************************)
LEMMA ConInitial == init_screen => ConInv
<1> SUFFICES ASSUME init_screen PROVE ConInv
  OBVIOUS
<1>1. 0 \in 0 .. CON_LINES - 1 /\ 0 \in ConCol /\ 0 \in 0 .. CON_LINES - SCR_LINES /\ 0 \in Int
  BY ConSizes DEF ConCol
<1>2. Place(0, 0) = 0
  BY <1>1, PlaceMoves
<1>3. Blank \in Line /\ \A c \in ConCol : Blank[c] = 0
  BY DEF Blank, Line, ConCol
<1>4. /\ text = <<Blank>> /\ Len(text) = 1 /\ text[1] = Blank /\ row = 1 /\ col = 0 /\ back = "no"
      /\ spill = "no" /\ ~ is_full /\ is_full \in BOOLEAN /\ conPc = "idle"
  BY DEF init_screen
<1>5. text \in Seq(Line)
  BY <1>3, <1>4
<1>6. video \in [Words -> Nat] /\ \A w \in Words : video[w] = 0
  BY DEF init_screen
<1>7. \A l \in 0 .. CON_LINES - 1, c \in ConCol : video[Place(l, c)] = 0
  BY <1>6, PlaceInMemory
<1>8. ConTypes(0) /\ RowsInMemory(0)
  BY <1>4, <1>5, <1>6, ConSizes DEF ConTypes, RowsInMemory
<1>9. TextHeld(0, 0, 0)
  <2>1. BlankAfter(text, row, 0)
    BY <1>3, <1>4 DEF BlankAfter
  <2>2. Holds(video, text, row - 0, -1)
    <3> SUFFICES ASSUME NEW l \in 0 .. CON_LINES - 1, NEW c \in ConCol, l <= Len(text) - (row - 0)
                 PROVE  video[Place(l, c)] = text[row - 0 + l][c]
      BY DEF Holds
    <3>1. l = 0 /\ row - 0 + l = 1
      BY <1>4
    <3> QED
      BY <1>3, <1>4, <1>7, <3>1
  <2>3. ~ Fresh(0, 0, 0)
    BY <1>4 DEF Fresh
  <2>4. BlankBelow(video, Len(text) - (row - 0))
    BY <1>7 DEF BlankBelow
  <2> QED
    BY <2>1, <2>2, <2>3, <2>4 DEF TextHeld
<1>10. ScreenFollows(0, 0, 0)
  BY <1>4, ConSizes DEF ScreenFollows, ScreenHas
<1> QED
  BY <1>1, <1>2, <1>8, <1>9, <1>10 DEF ConAt, ConInv, init_screen

LEMMA NewlineStep ==
  ASSUME NEW y \in 0 .. CON_LINES - 1, NEW x \in ConCol, NEW s \in 0 .. CON_LINES - SCR_LINES,
         ConAt(y, x, s), out_char_newline
  PROVE  ConInv'
<1>1. PICK v \in [Words -> Nat] : v = video
  BY DEF ConAt, ConTypes
<1>2. PICK t \in Seq(Line) : t = text
  BY DEF ConAt, ConTypes
<1>3. SCR_WIDTH * (Cursor(cursor)[2] + 1) = Place(y + 1, 0)
  <2>1. Cursor(cursor)[2] = y
    <3>1. y \in Nat
      OBVIOUS
    <3> QED
      BY <3>1, PlaceIs DEF ConAt, Cursor
  <2>2. y + 1 \in Int /\ 0 \in Int
    OBVIOUS
  <2> QED
    BY <2>1, <2>2, PlaceMoves
<1>4. NextLine(y, v, t) /\ conPc = "idle"
  BY <1>1, <1>2, <1>3 DEF out_char_newline, NextRow, NextLine
<1>5. /\ BlankAfter(t, row, SCR_WIDTH) /\ (back # "full" => Holds(v, t, row - y, -1))
      /\ (~ is_full => BlankBelow(v, Len(t) - (row - y)))
  <2>1. BlankAfter(t, row, SCR_WIDTH)
    <3>1. BlankAfter(t, row, x)
      BY <1>2 DEF ConAt, TextHeld
    <3> QED
      BY <3>1, ConSizes DEF BlankAfter, ConCol
  <2>2. back # "full" => Holds(v, t, row - y, -1)
    BY <1>1, <1>2, <1>4, IdleShows
  <2>3. ~ is_full => BlankBelow(v, Len(t) - (row - y))
    BY <1>1, <1>2 DEF ConAt, TextHeld
  <2> QED
    BY <2>1, <2>2, <2>3
<1>6. Len(t) = Len(text)
  BY <1>2
<1>7. CASE y + 1 < CON_LINES
  BY <1>4, <1>5, <1>6, <1>7, NextLineInMemory
<1>8. CASE y + 1 = CON_LINES
  BY <1>4, <1>5, <1>6, <1>8, NextLineWraps
<1> QED
  BY <1>7, <1>8, ConSizes

LEMMA OtherStep ==
  ASSUME NEW y \in 0 .. CON_LINES - 1, NEW x \in ConCol, NEW s \in 0 .. CON_LINES - SCR_LINES,
         ConAt(y, x, s), out_char_other
  PROVE  ConInv'
<1>1. PICK r \in Nat : r = row
  BY DEF ConAt, ConTypes
<1>2. PICK v \in [Words -> Nat] : v = WithWord(video, Place(y, x), r)
  BY WordWritten DEF ConAt, ConTypes
<1>3. r \in 1 .. Len(text) /\ r - y >= 1 /\ Len(text) - (r - y) <= CON_LINES - 1 /\ Len(text) \in Nat
      /\ text \in Seq(Line) /\ video \in [Words -> Nat] /\ cursor = Place(y, x) /\ col = x /\ conPc = "idle"
  BY <1>1 DEF ConAt, ConTypes, RowsInMemory, out_char_other
<1>4. PICK t \in Seq(Line) : t = WithMark(text, r, x, r)
  BY <1>3, TextWritten DEF MarkChanged
<1>5. Len(t) = Len(text)
  BY <1>3, <1>4, TextWritten DEF MarkChanged
<1>6. BlankAfter(t, row, x + 1)
  <2>1. BlankAfter(text, r, x)
    BY <1>1 DEF ConAt, TextHeld
  <2> QED
    BY <1>1, <1>3, <1>4, <2>1, AfterWritten
<1>7. ASSUME back # "full" PROVE Holds(v, t, row - y, -1)
  <2>1. Holds(video, text, r - y, -1)
    BY <1>1, <1>3, <1>7, IdleShows
  <2> QED
    BY <1>1, <1>2, <1>3, <1>4, <2>1, HoldsWritten
<1>8. ASSUME ~ is_full PROVE BlankBelow(v, Len(t) - (row - y))
  <2> DEFINE last == Len(text) - (r - y)
  <2>1. last \in Int /\ y <= last
    BY <1>3
  <2>2. BlankBelow(video, last)
    BY <1>1, <1>8 DEF ConAt, TextHeld
  <2> HIDE DEF last
  <2>3. BlankBelow(v, last)
    BY <1>2, <1>3, <2>1, <2>2, BelowWritten
  <2> QED
    BY <1>1, <1>5, <2>3 DEF last
<1>9. x \in Nat /\ x < SCR_WIDTH /\ y \in Int
  BY ConSizes DEF ConCol
<1>10. Out(v, Place(y, x) + 1) /\ conPc' = "scroll" /\ back' = back /\ spill' = spill
  BY <1>1, <1>2, <1>3 DEF out_char_other, WithWord
<1>11. CASE x + 1 < SCR_WIDTH
  <2>1. /\ row' = r /\ col' = x + 1 /\ text' = t
    BY <1>1, <1>3, <1>4, <1>11 DEF out_char_other, WithMark
  <2>2. x + 1 \in ConCol
    BY <1>9, <1>11, ConSizes DEF ConCol
  <2>3. Place(y, x) + 1 = Place(y, x + 1)
    BY <1>9, PlaceMoves
  <2>4. ~ PastEnd(Place(y, x + 1))
    BY <2>2, PlaceInMemory, SizesInPlaces DEF PastEnd
  <2>5. video' = v /\ cursor' = Place(y, x + 1) /\ crtc_start' = Place(s, 0) /\ is_full' = is_full
    BY <1>10, <2>3, <2>4 DEF Out, ConAt
  <2>6. ConTypes(x + 1)'
    BY <1>3, <1>5, <1>10, <2>1, <2>5 DEF ConTypes, ConAt
  <2>7. RowsInMemory(y)'
    BY <1>1, <1>5, <2>1, <2>5 DEF RowsInMemory, ConAt
  <2>8. TextHeld(y, x + 1, s)'
    <3>1. BlankAfter(text', row', x + 1)
      BY <1>1, <1>6, <2>1
    <3>2. ASSUME back # "full" PROVE Holds(video', text', row' - y, (IF Fresh(y, x + 1, s) THEN y ELSE -1)')
      <4>1. Holds(video', text', row' - y, -1)
        BY <1>1, <1>7, <2>1, <2>5, <3>2
      <4> QED
        BY <4>1, HoldsBut
    <3>3. ~ is_full => BlankBelow(video', Len(text') - (row' - y))
      BY <1>1, <1>8, <2>1, <2>5
    <3> QED
      BY <1>10, <2>5, <3>1, <3>2, <3>3 DEF TextHeld
  <2>9. ScreenFollows(y, x + 1, s)'
    <3>1. is_full /\ back # "full" => ScreenHas(s, y) /\ s + SCR_LINES - 1 <= Len(text) - (row - y)
      BY <1>3, IdleShows
    <3>2. back = "no" => ScreenHas(s, y)
      BY <1>3, IdleShows
    <3> QED
      BY <1>1, <1>5, <1>10, <2>1, <2>5, <3>1, <3>2 DEF ScreenFollows
  <2> QED
    BY <2>2, <2>5, <2>6, <2>7, <2>8, <2>9 DEF ConAt, ConInv
<1>12. CASE ~ (x + 1 < SCR_WIDTH)
  <2>1. x + 1 = SCR_WIDTH
    BY <1>9, <1>12, ConSizes
  <2>2. Place(y, x) + 1 = Place(y + 1, 0)
    BY <1>9, <2>1, PlaceMoves
  <2>3. DOMAIN text = DOMAIN t
    BY <1>3, <1>5
  <2>4. /\ row' = row + 1 /\ col' = 0
        /\ text' = IF row + 1 \in DOMAIN t THEN t ELSE Append(t, Blank)
    BY <1>1, <1>3, <1>4, <1>12, <2>3 DEF out_char_other, WithMark
  <2>5. NextLine(y, v, t)
    BY <1>10, <2>2, <2>4 DEF NextLine
  <2>6. CASE y + 1 < CON_LINES
    BY <1>3, <1>5, <1>6, <1>7, <1>8, <2>1, <2>5, <2>6, NextLineInMemory
  <2>7. CASE y + 1 = CON_LINES
    BY <1>3, <1>5, <1>6, <1>7, <2>1, <2>5, <2>7, NextLineWraps
  <2> QED
    BY <2>6, <2>7, ConSizes
<1> QED
  BY <1>11, <1>12

\* A backspace that has a place to go back to: to line z and column u.
LEMMA BackspaceStep ==
  ASSUME NEW y \in 0 .. CON_LINES - 1, NEW x \in ConCol, NEW s \in 0 .. CON_LINES - SCR_LINES,
         ConAt(y, x, s), out_char_backspace
  PROVE  ConInv'
<1>1. PICK r \in Nat : r = row
  BY DEF ConAt, ConTypes
<1>2. r \in 1 .. Len(text) /\ r - y >= 1 /\ Len(text) - (r - y) <= CON_LINES - 1 /\ Len(text) \in Nat
      /\ text \in Seq(Line) /\ video \in [Words -> Nat] /\ cursor = Place(y, x) /\ col = x /\ conPc = "idle"
      /\ conPc' = "scroll" /\ back' = back /\ spill' = spill
  BY <1>1 DEF ConAt, ConTypes, RowsInMemory, out_char_backspace
<1>3. x \in Nat /\ x < SCR_WIDTH /\ y \in Nat /\ 0 \in ConCol /\ 0 \in Int /\ y \in Int /\ x \in Int
  BY ConSizes DEF ConCol
<1>4. is_full /\ back # "full" => ScreenHas(s, y) /\ s + SCR_LINES - 1 <= Len(text) - (r - y)
  BY <1>1, <1>2, IdleShows
<1>5. back = "no" => ScreenHas(s, y)
  BY <1>1, <1>2, <1>4, IdleShows
<1>6. BlankAfter(text, r, x) /\ (back # "full" => Holds(video, text, r - y, -1))
      /\ (~ is_full => BlankBelow(video, Len(text) - (r - y)))
  BY <1>1, <1>2, IdleShows DEF ConAt, TextHeld
<1>7. cursor = 0 <=> y = 0 /\ x = 0
  <2>1. Place(0, 0) = 0
    BY <1>3, PlaceMoves
  <2>2. Place(0, 0) < Place(y, x) <=> 0 < y \/ (0 = y /\ 0 < x)
    BY <1>3, PlaceLex
  <2>3. Place(y, x) \in Nat
    BY PlaceInMemory
  <2> QED
    BY <1>2, <1>3, <2>1, <2>2, <2>3
<1>8. CASE cursor = 0
  <2>1. UNCHANGED <<video, cursor, crtc_start, is_full, text, row, col>>
    BY <1>3, <1>7, <1>8 DEF out_char_backspace
  <2>2. ConTypes(x)' /\ RowsInMemory(y)'
    BY <1>2, <2>1 DEF ConAt, ConTypes, RowsInMemory
  <2>3. TextHeld(y, x, s)'
    <3>1. back # "full" => Holds(video, text, r - y, (IF Fresh(y, x, s) THEN y ELSE -1)')
      BY <1>6, HoldsBut
    <3> QED
      BY <1>1, <1>2, <1>6, <2>1, <3>1 DEF TextHeld
  <2>4. ScreenFollows(y, x, s)'
    BY <1>1, <1>2, <1>4, <1>5, <2>1 DEF ScreenFollows
  <2> QED
    BY <2>1, <2>2, <2>3, <2>4 DEF ConAt, ConInv
<1>9. CASE cursor # 0
  <2>1. PICK z \in 0 .. CON_LINES - 1, u \in ConCol :
          /\ Place(z, u) = Place(y, x) - 1
          /\ (z = y /\ x = u + 1) \/ (z = y - 1 /\ x = 0 /\ u = SCR_WIDTH - 1)
    <3>1. CASE x > 0
      <4>1. x - 1 \in ConCol /\ x = x - 1 + 1
        BY <1>3, <3>1, ConSizes DEF ConCol
      <4>2. Place(y, x) - 1 = Place(y, x - 1)
        BY <1>3, PlaceMoves
      <4> QED
        BY <4>1, <4>2
    <3>2. CASE ~ (x > 0)
      <4>1. x = 0 /\ y - 1 \in 0 .. CON_LINES - 1 /\ SCR_WIDTH - 1 \in ConCol
        BY <1>3, <1>7, <1>9, <3>2, ConSizes DEF ConCol
      <4>2. Place(y, 0) - 1 = Place(y, 0 - 1) /\ Place(y, -1) = Place(y - 1, SCR_WIDTH - 1) /\ 0 - 1 = -1
        BY <1>3, PlaceMoves
      <4> QED
        BY <4>1, <4>2
    <3> QED
      BY <3>1, <3>2
  <2> DEFINE q == r - y + z
  <2>2. q \in 1 .. Len(text) /\ q - z = r - y /\ q \in Nat
        /\ ((q = r /\ x = u + 1) \/ (q = r - 1 /\ x = 0 /\ u = SCR_WIDTH - 1))
    BY <1>2, <1>3, <2>1
  <2>3. PICK v \in [Words -> Nat] : v = WithWord(video, Place(z, u), 0)
    BY <1>2, WordWritten
  <2>4. PICK t \in Seq(Line) : t = WithMark(text, q, u, 0)
    BY <1>2, <2>2, TextWritten DEF MarkChanged
  <2>5. Len(t) = Len(text)
    <3>1. q \in 1 .. Len(text) /\ 0 \in Nat
      BY <2>2
    <3> HIDE DEF q
    <3>2. MarkChanged(text, t, q, u, 0)
      BY <1>2, <2>4, <3>1, TextWritten
    <3> QED
      BY <3>2 DEF MarkChanged
  <2>6. Out(v, Place(z, u))
    <3>1. cursor > 0
      <4>1. Place(y, x) \in Nat
        BY PlaceInMemory
      <4> QED
        BY <1>2, <1>9, <4>1
    <3> QED
      BY <1>2, <2>1, <2>3, <3>1 DEF out_char_backspace, WithWord
  <2>7. text' = t /\ row' = q /\ col' = u
    <3>1. CASE z = y /\ x = u + 1
      <4>1. x > 0 /\ x - 1 = u /\ q = r
        BY <1>2, <1>3, <3>1 DEF ConCol
      <4> QED
        BY <1>1, <1>2, <1>9, <2>4, <4>1 DEF out_char_backspace, WithMark
    <3>2. CASE z = y - 1 /\ x = 0 /\ u = SCR_WIDTH - 1
      <4>1. ~ (x > 0) /\ q = r - 1
        BY <1>2, <1>3, <3>2
      <4> QED
        BY <1>1, <1>2, <1>9, <2>4, <3>2, <4>1 DEF out_char_backspace, WithMark
    <3> QED
      BY <2>1, <3>1, <3>2
  <2>8. ~ PastEnd(Place(z, u))
    BY PlaceInMemory, SizesInPlaces DEF PastEnd
  <2>9. video' = v /\ cursor' = Place(z, u) /\ crtc_start' = Place(s, 0) /\ is_full' = is_full
    BY <2>6, <2>8 DEF Out, ConAt
  <2> HIDE DEF q
  <2>10. ConTypes(u)'
    BY <1>2, <2>2, <2>5, <2>7, <2>9 DEF ConTypes, ConAt
  <2>11. row' - z = r - y
    BY <2>2, <2>7
  <2>12. RowsInMemory(z)'
    BY <1>1, <1>2, <2>5, <2>7, <2>9, <2>11 DEF RowsInMemory, ConAt
  <2>13. BlankAfter(t, q, u)
    BY <1>2, <1>3, <1>6, <2>2, <2>4, AfterErased
  <2>14. ASSUME back # "full" PROVE Holds(v, t, q - z, -1)
    BY <1>2, <1>6, <2>2, <2>3, <2>4, <2>14, HoldsWritten
  <2>15. ASSUME ~ is_full PROVE BlankBelow(v, Len(t) - (q - z))
    <3> DEFINE last == Len(text) - (r - y)
    <3>1. last \in Int /\ z <= last /\ BlankBelow(video, last)
      BY <1>2, <1>3, <1>6, <2>1, <2>15
    <3> HIDE DEF last
    <3>2. BlankBelow(v, last)
      BY <1>2, <2>3, <3>1, BelowWritten
    <3> QED
      BY <2>2, <2>5, <3>2 DEF last
  <2>16. TextHeld(z, u, s)'
    <3>1. ASSUME back # "full" PROVE Holds(v, t, q - z, (IF Fresh(z, u, s) THEN z ELSE -1)')
      BY <2>14, <3>1, HoldsBut
    <3> QED
      BY <1>2, <2>7, <2>9, <2>13, <2>15, <3>1 DEF TextHeld
  <2>17. ScreenFollows(z, u, s)'
    <3>1. is_full /\ back # "full" => s + SCR_LINES - 1 <= Len(text') - (row' - z)
      BY <1>4, <2>5, <2>7, <2>11
    <3>2. back = "no" => ScreenHas(s, z) \/ u = 0 \/ z <= CON_LINES - 2
      BY <1>5, <2>1, ConSizes DEF ScreenHas
    <3> QED
      BY <1>2, <2>9, <3>1, <3>2 DEF ScreenFollows
  <2> QED
    BY <2>9, <2>10, <2>12, <2>16, <2>17 DEF ConAt, ConInv
<1> QED
  BY <1>8, <1>9

LEMMA WhileStep ==
  ASSUME NEW y \in 0 .. CON_LINES - 1, NEW x \in ConCol, NEW s \in 0 .. CON_LINES - SCR_LINES,
         ConAt(y, x, s), while_scroll
  PROVE  ConInv'
<1>1. cursor = Place(y, x) /\ crtc_start = Place(s, 0) /\ conPc = "scroll"
      /\ cursor' = cursor /\ is_full' = is_full /\ text' = text /\ row' = row /\ col' = col
  BY DEF ConAt, while_scroll
<1>2. OnScreen(cursor) <=> ScreenHas(s, y)
  BY <1>1, OnScreenIs
<1>3. /\ row \in Nat /\ Len(text) \in Nat /\ row <= Len(text) /\ row >= 1
      /\ row - y >= 1 /\ Len(text) - (row - y) <= CON_LINES - 1
      /\ is_full => Len(text) - (row - y) >= SCR_LINES - 1
  BY DEF ConAt, ConTypes, RowsInMemory
<1>4. CASE OnScreen(cursor)
  <2>1. /\ conPc' = "idle" /\ video' = video /\ crtc_start' = crtc_start /\ spill' = spill
        /\ back' = IF back = "view" THEN "no" ELSE back
    BY <1>4 DEF while_scroll
  <2>2. ConTypes(x)' /\ RowsInMemory(y)'
    BY <1>1, <2>1 DEF ConAt, ConTypes, RowsInMemory
  <2>3. TextHeld(y, x, s)'
    <3>1. ~ Fresh(y, x, s) /\ ~ Fresh(y, x, s)'
      BY <1>2, <1>4, <2>1 DEF Fresh
    <3> QED
      BY <1>1, <2>1, <3>1 DEF ConAt, ConTypes, TextHeld
  <2>4. ScreenFollows(y, x, s)'
    <3>1. ScreenHas(s, y)
      BY <1>2, <1>4
    <3> QED
      BY <1>1, <2>1, <3>1 DEF ConAt, ConTypes, ScreenFollows
  <2> QED
    BY <1>1, <2>1, <2>2, <2>3, <2>4 DEF ConAt, ConInv
<1>5. CASE ~ OnScreen(cursor)
  <2>1. /\ crtc_start' = Up /\ video' = clear_screen(video, Place(y, x)) /\ spill' = Spills(Place(y, x))
        /\ conPc' = "scroll" /\ back' = back
    BY <1>1, <1>5 DEF while_scroll
  <2>2. PICK z \in 0 .. CON_LINES - SCR_LINES :
          crtc_start' = Place(z, 0) /\ (is_full => z = 0 \/ z = s + 1)
    BY <1>1, <1>2, <1>5, <2>1, UpIs
  <2>3. /\ video' \in [Words -> Nat]
        /\ \A l \in 0 .. CON_LINES - 1, c \in ConCol :
             video'[Place(l, c)] = IF (l = y /\ c >= x) \/ (l = y + 1 /\ c < x) THEN 0 ELSE video[Place(l, c)]
    BY <2>1, WordsCleared, SMTT(40) DEF ConAt, ConTypes
  <2>4. spill' \in {"no", "scrolled"}
    <3>1. CASE back = "no"
      <4>1. x = 0 \/ y <= CON_LINES - 2
        BY <1>1, <1>2, <1>5, <3>1 DEF ConAt, ScreenFollows
      <4>2. Place(y, x) + SCR_WIDTH = Place(y + 1, x)
        BY PlaceMoves DEF ConCol
      <4>3. Place(y + 1, x) <= Place(CON_LINES, 0)
        <5>1. Place(y + 1, x) \in Int /\ Place(CON_LINES, 0) \in Int
          BY PlaceType, SizesInPlaces DEF ConCol
        <5>2. CASE x = 0
          <6>1. y + 1 \in Int /\ CON_LINES \in Int /\ y + 1 <= CON_LINES
            BY ConSizes
          <6> QED
            BY <5>2, <6>1, LinesOrder
        <5>3. CASE y <= CON_LINES - 2
          <6>1. y + 1 \in Int /\ CON_LINES \in Int /\ y + 1 < CON_LINES
            BY <5>3, ConSizes
          <6>2. Place(y + 1, x) < Place(CON_LINES, 0)
            BY <6>1, PlaceOrder
          <6> QED
            BY <5>1, <6>2
        <5> QED
          BY <4>1, <5>2, <5>3
      <4>4. Spills(Place(y, x)) = spill
        BY <4>2, <4>3, SizesInPlaces DEF Spills
      <4> QED
        BY <2>1, <4>4 DEF ConAt, ConTypes
    <3>2. CASE back # "no"
      BY <2>1, <3>2 DEF ConAt, ConTypes, Spills
    <3> QED
      BY <3>1, <3>2
  <2>5. ConTypes(x)' /\ RowsInMemory(y)'
    BY <1>1, <2>1, <2>3, <2>4 DEF ConAt, ConTypes, RowsInMemory
  <2>6. TextHeld(y, x, z)'
    <3>1. BlankAfter(text, row, x)
      BY DEF ConAt, TextHeld
    <3>2. ASSUME back # "full" PROVE Holds(video', text, row - y, -1)
      <4> SUFFICES ASSUME NEW l \in 0 .. CON_LINES - 1, NEW c \in ConCol, l <= Len(text) - (row - y)
                   PROVE  video'[Place(l, c)] = text[row - y + l][c]
        BY DEF Holds
      <4>1. row - y + l \in 1 .. Len(text)
        BY <1>3
      <4>2. CASE (l = y /\ c >= x) \/ (l = y + 1 /\ c < x)
        <5>1. row - y + l > row \/ (row - y + l = row /\ c >= x)
          BY <1>3, <4>2
        <5> QED
          BY <2>3, <3>1, <4>1, <4>2, <5>1 DEF BlankAfter
      <4>3. CASE ~ ((l = y /\ c >= x) \/ (l = y + 1 /\ c < x))
        <5>1. Holds(video, text, row - y, IF Fresh(y, x, s) THEN y ELSE -1)
          BY <3>2 DEF ConAt, TextHeld
        <5>2. Fresh(y, x, s) => l # y
          BY <4>3 DEF Fresh, ConCol
        <5>3. video[Place(l, c)] = text[row - y + l][c]
          BY <5>1, <5>2 DEF Holds
        <5> QED
          BY <2>3, <4>3, <5>3
      <4> QED
        BY <4>2, <4>3
    <3>3. ASSUME ~ is_full PROVE BlankBelow(video', Len(text) - (row - y))
      <4>1. BlankBelow(video, Len(text) - (row - y))
        BY <3>3 DEF ConAt, TextHeld
      <4> QED
        BY <2>3, <4>1 DEF BlankBelow
    <3>4. back # "full" => Holds(video', text, row - y, (IF Fresh(y, x, z) THEN y ELSE -1)')
      BY <3>2, HoldsBut
    <3> QED
      BY <1>1, <2>1, <3>1, <3>3, <3>4 DEF TextHeld
  <2>7. ScreenFollows(y, x, z)'
    <3>1. ASSUME is_full, ScreenHas(z, y) PROVE z + SCR_LINES - 1 <= Len(text) - (row - y)
      <4>1. z = 0 \/ z = s + 1
        BY <2>2, <3>1
      <4>2. CASE z = 0
        BY <1>3, <3>1, <4>2, ConSizes
      <4>3. CASE z = s + 1
        <5>1. y = s + SCR_LINES
          BY <1>2, <1>5, <3>1, <4>3, ConSizes DEF ScreenHas
        <5> QED
          BY <1>3, <4>3, <5>1, ConSizes
      <4> QED
        BY <4>1, <4>2, <4>3
    <3>2. back = "no" => x = 0 \/ y <= CON_LINES - 2
      BY <1>1, <1>2, <1>5 DEF ConAt, ScreenFollows
    <3> QED
      BY <1>1, <2>1, <3>1, <3>2 DEF ScreenFollows
  <2> QED
    BY <1>1, <2>2, <2>5, <2>6, <2>7 DEF ConAt, ConInv
<1> QED
  BY <1>4, <1>5

LEMMA ScrollStep ==
  ASSUME NEW y \in 0 .. CON_LINES - 1, NEW x \in ConCol, NEW s \in 0 .. CON_LINES - SCR_LINES,
         ConAt(y, x, s), scroll_screen
  PROVE  ConInv'
<1>1. /\ conPc = "idle" /\ crtc_start' \in {Up, Down} /\ back' = (IF is_full THEN "full" ELSE "view")
      /\ UNCHANGED <<video, cursor, is_full, conPc, text, row, col, spill>>
      /\ cursor = Place(y, x) /\ crtc_start = Place(s, 0)
  BY DEF scroll_screen, ConAt
<1>2. PICK z \in 0 .. CON_LINES - SCR_LINES : crtc_start' = Place(z, 0)
  BY <1>1, UpIs, DownIs
<1>3. ConTypes(x)' /\ RowsInMemory(y)'
  BY <1>1 DEF ConAt, ConTypes, RowsInMemory
<1>4. TextHeld(y, x, z)'
  <2>1. ~ Fresh(y, x, s) /\ ~ Fresh(y, x, z)'
    BY <1>1 DEF Fresh
  <2>2. ASSUME ~ is_full PROVE Holds(video, text, row - y, -1)
    <3>1. back # "full" => Holds(video, text, row - y, -1)
      BY <2>1 DEF ConAt, TextHeld
    <3> QED
      BY <2>2, <3>1 DEF ConAt, ConTypes
  <2>3. back' # "full" => ~ is_full
    BY <1>1
  <2> QED
    BY <1>1, <2>1, <2>2, <2>3 DEF ConAt, TextHeld
<1>5. ScreenFollows(y, x, z)'
  BY <1>1 DEF ConAt, ConTypes, ScreenFollows
<1> QED
  BY <1>1, <1>2, <1>3, <1>4, <1>5 DEF ConAt, ConInv

LEMMA ConStep == ConInv /\ [ConNext]_conVars => ConInv'
<1> SUFFICES ASSUME ConInv, [ConNext]_conVars PROVE ConInv'
  OBVIOUS
<1>1. PICK y \in 0 .. CON_LINES - 1, x \in ConCol, s \in 0 .. CON_LINES - SCR_LINES : ConAt(y, x, s)
  BY DEF ConInv
<1>2. CASE out_char_newline
  BY <1>1, <1>2, NewlineStep
<1>3. CASE out_char_backspace
  BY <1>1, <1>3, BackspaceStep
<1>4. CASE out_char_other
  BY <1>1, <1>4, OtherStep
<1>5. CASE while_scroll
  BY <1>1, <1>5, WhileStep
<1>6. CASE scroll_screen
  BY <1>1, <1>6, ScrollStep
<1>7. CASE UNCHANGED conVars
  BY <1>7 DEF conVars, ConInv, ConAt, ConTypes, RowsInMemory, TextHeld, Fresh, ScreenFollows
<1> QED
  BY <1>2, <1>3, <1>4, <1>5, <1>6, <1>7 DEF ConNext

\* What the invariant says of the screen.
LEMMA ConShows == ConInv => OutputShown
<1> SUFFICES ASSUME ConInv PROVE OutputShown
  OBVIOUS
<1>1. PICK y \in 0 .. CON_LINES - 1, x \in ConCol, s \in 0 .. CON_LINES - SCR_LINES : ConAt(y, x, s)
  BY DEF ConInv
<1>2. /\ cursor = Place(y, x) /\ crtc_start = Place(s, 0) /\ y \in Int /\ s \in Int /\ s \in Nat /\ 0 \in Int
      /\ 0 \in Nat /\ x \in Int /\ s + SCR_LINES \in Int /\ 0 \in ConCol /\ CON_LINES \in Int
  BY <1>1, ConSizes DEF ConAt, ConCol
<1>3. ScreenInside
  <2>1. cursor \in 0 .. con_size - 1
    BY <1>2, PlaceInMemory
  <2>2. Place(s, 0) + SCR_SIZE = Place(s + SCR_LINES, 0)
    BY <1>2, SizesInPlaces, PlaceMoves, ConSizes
  <2>3. s + SCR_LINES <= CON_LINES
    BY ConSizes
  <2>4. Place(s + SCR_LINES, 0) <= Place(CON_LINES, 0)
    BY <1>2, <2>3, LinesOrder
  <2>5. Place(s, 0) \in Nat
    BY <1>2, PlaceType
  <2> QED
    BY <1>2, <2>1, <2>2, <2>4, <2>5, SizesInPlaces DEF ScreenInside
<1>4. TailShown
  <2> SUFFICES ASSUME conPc = "idle", back = "no" PROVE TailShown
    BY DEF TailShown
  <2>1. ScreenHas(s, y)
    BY <1>1 DEF ConAt, ScreenFollows
  <2>2. Holds(video, text, row - y, -1)
    <3>1. ~ Fresh(y, x, s)
      BY DEF Fresh
    <3> QED
      BY <1>1, <3>1 DEF ConAt, TextHeld
  <2>3. text \in Seq(Line) /\ row \in 1 .. Len(text) /\ row - y >= 1 /\ row \in Int
    BY <1>1 DEF ConAt, ConTypes, RowsInMemory
  <2>4. PICK h \in Nat : h = y - s
    <3>1. y - s \in Nat
      BY <2>1 DEF ScreenHas
    <3> QED
      BY <3>1
  <2>5. (cursor - crtc_start) \div SCR_WIDTH = h
    <3>1. Place(h, x) + Place(s, 0) = Place(h + s, x) /\ h + s = y
      BY <1>2, <2>4, PlaceMoves
    <3>2. Place(h, x) \in Int /\ Place(s, 0) \in Int
      BY <1>2, <2>4, PlaceType
    <3>3. cursor - crtc_start = Place(h, x)
      BY <1>2, <3>1, <3>2
    <3> QED
      BY <3>3, PlaceIs
  <2>6. ASSUME NEW r \in 0 .. h, row - (h - r) \in DOMAIN text
        PROVE  LineOn(r) = text[row - (h - r)]
    <3>1. PICK l \in 0 .. CON_LINES - 1 : l = s + r
      <4>1. s + r \in 0 .. CON_LINES - 1
        BY <2>4, ConSizes
      <4> QED
        BY <4>1
    <3>2. row - (h - r) = row - y + l /\ l # -1 /\ l <= Len(text) - (row - y)
      BY <2>3, <2>4, <2>6, <3>1
    <3>3. ASSUME NEW c \in ConCol PROVE LineOn(r)[c] = text[row - y + l][c]
      <4>1. crtc_start + r * SCR_WIDTH + c = Place(l, c)
        <5>1. Place(s, 0) + r * SCR_WIDTH = Place(s + r, 0) /\ c \in Int
          BY <1>2, PlaceMoves DEF ConCol
        <5>2. Place(l, 0) + c = Place(l, c)
          BY <5>1, PlaceMoves
        <5> QED
          BY <1>2, <3>1, <5>1, <5>2
      <4>2. LineOn(r)[c] = video[Place(l, c)]
        BY <4>1 DEF LineOn, ConCol
      <4> QED
        BY <2>2, <3>2, <4>2 DEF Holds
    <3>4. text[row - y + l] \in Line
      BY <2>3, <2>6, <3>2
    <3>5. LineOn(r) = [c \in ConCol |-> LineOn(r)[c]]
      BY DEF LineOn, ConCol
    <3> QED
      BY <3>2, <3>3, <3>4, <3>5 DEF Line
  <2> QED
    BY <2>5, <2>6 DEF TailShown
<1>5. KeepsToItsMemory
  BY <1>1 DEF ConAt, ConTypes, KeepsToItsMemory
<1> QED
  BY <1>3, <1>4, <1>5 DEF OutputShown

(* Whatever is written, erased and scrolled, cursor and screen stay in the *)
(* memory of the console; after output the screen shows the last lines of  *)
(* the text, unless the user has scrolled in a full console; and output    *)
(* does not touch the next console (console.c:69-161).                     *)
THEOREM OutputAlwaysShown == ConSpec => []OutputShown
<1>1. ConSpec => []ConInv
  BY ConInitial, ConStep, PTL DEF ConSpec
<1> QED
  BY <1>1, ConShows, PTL
=============================================================================
