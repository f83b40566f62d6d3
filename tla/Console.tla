------------------------------ MODULE Console ------------------------------
(***************************************************************************)
(* One console of 25-osfs11 (kernel/console.c): a window of the video      *)
(* memory that output fills from the top, and that is used from the top    *)
(* again when it is full; the screen shows SCR_SIZE words of it from       *)
(* crtc_start on.  Positions count from con->orig.                         *)
(*                                                                         *)
(* A character is written as the number of its line of text, so that a     *)
(* line in the wrong place is noticed.  The neighbour's memory is the      *)
(* SCR_WIDTH words after con_size.                                         *)
(***************************************************************************)
EXTENDS Integers, Sequences

CONSTANTS
  SCR_WIDTH, SCR_LINES,  \* SCR_SIZE is SCR_WIDTH * SCR_LINES
  CON_LINES,             \* con_size in lines
  MaxLines               \* bound on the lines of text

SCR_SIZE == SCR_WIDTH * SCR_LINES
con_size == SCR_WIDTH * CON_LINES
ASSUME ConsoleAssumption ==
  SCR_WIDTH \in Nat \ {0} /\ SCR_LINES \in Nat \ {0} /\ CON_LINES \in Nat /\ CON_LINES > SCR_LINES
  /\ MaxLines \in Nat

VARIABLES
  video,            \* the words: a mark, or 0 for a blank
  cursor, crtc_start, is_full,
  conPc,            \* idle, or in the while loop of out_char()
  text,             \* history: the lines written, in marks
  row, col,         \* history: where the next character goes in text
  back,             \* history: the user has scrolled: no, view (since the last output),
                    \* or full (ever since the memory has been filled)
  spill             \* history: a word after con_size was written: no, scrolled (back) or plain
conVars == <<video, cursor, crtc_start, is_full, conPc, text, row, col, back, spill>>

Words == 0 .. con_size + SCR_WIDTH - 1
Cursor(c) == <<c % SCR_WIDTH, c \div SCR_WIDTH>>
OnScreen(c) == crtc_start <= c /\ c < crtc_start + SCR_SIZE
clear_screen(v, pos) == [w \in Words |-> IF pos <= w /\ w < pos + SCR_WIDTH THEN 0 ELSE v[w]]
Spills(pos) == IF pos + SCR_WIDTH <= con_size THEN spill ELSE IF back # "no" THEN "scrolled" ELSE "plain"
Blank == [c \in 0 .. SCR_WIDTH - 1 |-> 0]

(***************************************************************************)
(* out_char() up to its while loop.                                        *)
(***************************************************************************)
\* Mutation: one line less than a screen is kept.
KeptFromShort(c) == (c \div SCR_WIDTH + 2) * SCR_WIDTH - SCR_SIZE
KeptFrom(c) == (c \div SCR_WIDTH + 1) * SCR_WIDTH - SCR_SIZE

\* past the end: the last lines go to the top, and output goes on below them
Wrapped(v, c) ==
  LET kept == SCR_SIZE - SCR_WIDTH
      cp_orig == KeptFrom(c)
  IN  [w \in Words |-> IF w < kept THEN v[w + cp_orig] ELSE v[w]]
PastEnd(c) == c >= con_size

Out(v, c) ==
  IF PastEnd(c)
    THEN LET to == (SCR_SIZE - SCR_WIDTH) + Cursor(c)[1] IN
         /\ video' = clear_screen(Wrapped(v, c), to) /\ cursor' = to
         /\ crtc_start' = 0 /\ is_full' = TRUE
    ELSE video' = v /\ cursor' = c /\ UNCHANGED <<crtc_start, is_full>>

\* the text: a line is begun when it is first reached
NextRow ==
  /\ row' = row + 1 /\ col' = 0
  /\ text' = IF row + 1 \in DOMAIN text THEN text ELSE Append(text, Blank)

out_char_newline ==
  /\ conPc = "idle" /\ row < MaxLines /\ conPc' = "scroll"
  /\ Out(video, SCR_WIDTH * (Cursor(cursor)[2] + 1))
  /\ NextRow /\ UNCHANGED <<back, spill>>
out_char_backspace ==
  /\ conPc = "idle" /\ conPc' = "scroll"
  /\ IF cursor > 0
       THEN Out([video EXCEPT ![cursor - 1] = 0], cursor - 1)
       ELSE UNCHANGED <<video, cursor, crtc_start, is_full>>
  /\ IF cursor = 0 THEN UNCHANGED <<text, row, col>>
     ELSE IF col > 0 THEN col' = col - 1 /\ text' = [text EXCEPT ![row][col - 1] = 0] /\ UNCHANGED row
     ELSE row' = row - 1 /\ col' = SCR_WIDTH - 1 /\ text' = [text EXCEPT ![row - 1][SCR_WIDTH - 1] = 0]
  /\ UNCHANGED <<back, spill>>
out_char_other ==
  /\ conPc = "idle" /\ row < MaxLines /\ conPc' = "scroll"
  /\ Out([video EXCEPT ![cursor] = row], cursor + 1)
  /\ IF col + 1 < SCR_WIDTH
       THEN col' = col + 1 /\ text' = [text EXCEPT ![row][col] = row] /\ UNCHANGED row
       ELSE /\ row' = row + 1 /\ col' = 0
            /\ LET t == [text EXCEPT ![row][col] = row] IN
               text' = IF row + 1 \in DOMAIN text THEN t ELSE Append(t, Blank)
  /\ UNCHANGED <<back, spill>>

(***************************************************************************)
(* scroll_screen(), by the user or in the while loop.                      *)
(***************************************************************************)
newest == (cursor \div SCR_WIDTH) * SCR_WIDTH
oldest == IF is_full THEN (newest + SCR_WIDTH) % con_size ELSE 0

Down ==
  IF ~ is_full /\ crtc_start > 0 THEN crtc_start - SCR_WIDTH
  ELSE IF is_full /\ crtc_start # oldest
    THEN IF cursor >= con_size - SCR_SIZE
           THEN IF crtc_start # 0 THEN crtc_start - SCR_WIDTH ELSE crtc_start
         ELSE IF crtc_start = 0 THEN con_size - SCR_SIZE
         ELSE crtc_start - SCR_WIDTH
  ELSE crtc_start
\* Mutation: the screen of a full console stays at the end of the memory.
UpStill ==
  IF ~ is_full /\ newest >= crtc_start + SCR_SIZE THEN crtc_start + SCR_WIDTH
  ELSE IF is_full /\ (crtc_start + SCR_SIZE) - SCR_WIDTH # newest /\ crtc_start + SCR_SIZE # con_size
    THEN crtc_start + SCR_WIDTH
  ELSE crtc_start
Up ==
  IF ~ is_full /\ newest >= crtc_start + SCR_SIZE THEN crtc_start + SCR_WIDTH
  ELSE IF is_full /\ (crtc_start + SCR_SIZE) - SCR_WIDTH # newest
    THEN IF crtc_start + SCR_SIZE = con_size THEN 0 ELSE crtc_start + SCR_WIDTH
  ELSE crtc_start

while_scroll ==
  /\ conPc = "scroll"
  /\ IF OnScreen(cursor)
       THEN conPc' = "idle" /\ back' = (IF back = "view" THEN "no" ELSE back) /\ UNCHANGED <<video, crtc_start, spill>>
       ELSE /\ crtc_start' = Up /\ video' = clear_screen(video, cursor)
            /\ spill' = Spills(cursor) /\ UNCHANGED <<conPc, back>>
  /\ UNCHANGED <<cursor, is_full, text, row, col>>
scroll_screen ==
  /\ conPc = "idle" /\ crtc_start' \in {Up, Down} 
  /\ back' = (IF is_full THEN "full" ELSE "view")
  /\ UNCHANGED <<video, cursor, is_full, conPc, text, row, col, spill>>

init_screen ==
  /\ video = [w \in Words |-> 0] /\ cursor = 0 /\ crtc_start = 0 /\ is_full = FALSE /\ conPc = "idle"
  /\ text = <<Blank>> /\ row = 1 /\ col = 0 /\ back = "no" /\ spill = "no"
ConNext == out_char_newline \/ out_char_backspace \/ out_char_other \/ while_scroll \/ scroll_screen
ConFairness == WF_conVars(while_scroll)
-----------------------------------------------------------------------------
(* Properties *)

(* The assertions of out_char(), and the screen shows this console only,   *)
(* wherever output and the user have moved it.                             *)
ScreenInside ==
  /\ cursor \in 0 .. con_size - 1
  /\ crtc_start >= 0 /\ crtc_start + SCR_SIZE <= con_size

(* After output the screen shows the last lines of the text above and the  *)
(* line with the cursor, through the copy to the top of the memory and the *)
(* lines of the round before that still lie below (console.c:117-133).     *)
(* Not so once the user has scrolled in a full console: the oldest line,   *)
(* if it is shown when output reaches it, is not cleared (console.c:131).  *)
LineOn(r) == [c \in 0 .. SCR_WIDTH - 1 |-> video[crtc_start + r * SCR_WIDTH + c]]
TailShown ==
  conPc = "idle" /\ back = "no" =>
    LET here == (cursor - crtc_start) \div SCR_WIDTH IN
    \A r \in 0 .. here : row - (here - r) \in DOMAIN text => LineOn(r) = text[row - (here - r)]

(* Output does not touch the next console, unless the user has scrolled    *)
(* back: then the loop clears SCR_WIDTH words from a cursor that may stand *)
(* in the middle of the last line (console.c:135).                         *)
KeepsToItsMemory == spill # "plain"

(* The while loop of out_char() ends: scrolling up brings the cursor back  *)
(* on the screen.  It cannot when backspaces have taken the cursor above a *)
(* screen that has not wrapped yet (console.c:132).                        *)
OutputEnds == conPc = "scroll" ~> conPc = "idle" \/ (~ is_full /\ cursor < crtc_start)

(* Output is shown and stays in its console (console.c:117-135).           *)
OutputShown == ScreenInside /\ TailShown /\ KeepsToItsMemory
=============================================================================
