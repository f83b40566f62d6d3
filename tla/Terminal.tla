------------------------------ MODULE Terminal ------------------------------
(***************************************************************************)
(* The terminal window of 25-osfs11's desktop: the grid of cells of        *)
(* kernel/wm.c and the line editor of kernel/desktop.c above it.  The      *)
(* editor keeps the line in term_input and trusts that backspacing the     *)
(* grid by one cell takes off the character that was typed last.           *)
(***************************************************************************)
EXTENDS Integers, Sequences

CONSTANTS
  WM_TERM_COLS, WM_TERM_ROWS,
  TermChars,    \* characters typed; a newline is ENTER
  MaxOutput     \* bound on the characters a command prints

TERM_PROMPT == <<"$", "space">>
TERM_INPUT_MAX == WM_TERM_COLS - Len(TERM_PROMPT) - 1
ASSUME TerminalAssumption ==
  /\ WM_TERM_COLS \in Nat /\ TERM_INPUT_MAX >= 0 /\ WM_TERM_ROWS \in Nat \ {0, 1}
  /\ "newline" \notin TermChars /\ MaxOutput \in Nat

VARIABLES
  grid,        \* grid[r][c], WM_TERM_ROWS rows from 0
  cur_row, cur_col,
  term_input,
  printing,    \* what wm_term_puts() has yet to print
  shell        \* idle, or running: term_exec() prints and the prompt comes after it
termVars == <<grid, cur_row, cur_col, term_input, printing, shell>>

BLANK == "space"
Row == 0 .. WM_TERM_ROWS - 1
Col == 0 .. WM_TERM_COLS - 1

(***************************************************************************)
(* wm_term_putc(), wm_term_backspace(), wm_term_clear().                   *)
(***************************************************************************)
wm_term_scroll(g) == [r \in Row |-> IF r + 1 \in Row THEN g[r + 1] ELSE [c \in Col |-> BLANK]]
Settle(g, r, c) ==
  /\ grid' = IF r >= WM_TERM_ROWS THEN wm_term_scroll(g) ELSE g
  /\ cur_row' = (IF r >= WM_TERM_ROWS THEN WM_TERM_ROWS - 1 ELSE r) /\ cur_col' = c
wm_term_putc(ch) ==
  IF ch = "newline" THEN Settle(grid, cur_row + 1, 0)
  ELSE LET g == [grid EXCEPT ![cur_row][cur_col] = ch] IN
       IF cur_col + 1 >= WM_TERM_COLS THEN Settle(g, cur_row + 1, 0) ELSE Settle(g, cur_row, cur_col + 1)
wm_term_backspace ==
  IF cur_row = 0 /\ cur_col = 0 THEN UNCHANGED <<grid, cur_row, cur_col>>
  ELSE LET r == IF cur_col > 0 THEN cur_row ELSE cur_row - 1
           c == IF cur_col > 0 THEN cur_col - 1 ELSE WM_TERM_COLS - 1
       IN  cur_row' = r /\ cur_col' = c /\ grid' = [grid EXCEPT ![r][c] = BLANK]

(***************************************************************************)
(* term_key()                                                              *)
(***************************************************************************)
Idle == shell = "idle" /\ printing = <<>>
Type(ch) ==
  /\ Idle /\ Len(term_input) < TERM_INPUT_MAX
  /\ term_input' = Append(term_input, ch) /\ wm_term_putc(ch) /\ UNCHANGED <<printing, shell>>
Erase ==
  /\ Idle /\ term_input # <<>>
  /\ term_input' = SubSeq(term_input, 1, Len(term_input) - 1) /\ wm_term_backspace
  /\ UNCHANGED <<printing, shell>>

\* ENTER: term_exec() prints lines, clears the window, or prints the bytes
\* of a file (cat), which need not end a line
Lines(n) == IF n = 0 THEN <<>> ELSE [i \in 1 .. n |-> "x"] \o <<"newline">>
Printed(n) == [i \in 1 .. n |-> "x"]
Enter ==
  /\ Idle /\ shell' = "running"
  /\ \E n \in 0 .. MaxOutput : printing' \in {Lines(n), Printed(n)}
  /\ wm_term_putc("newline") /\ UNCHANGED term_input
Clear ==
  /\ Idle /\ shell' = "running"
  /\ grid' = [r \in Row |-> [c \in Col |-> BLANK]] /\ cur_row' = 0 /\ cur_col' = 0
  /\ UNCHANGED <<term_input, printing>>
wm_term_puts ==
  /\ printing # <<>> /\ wm_term_putc(Head(printing)) /\ printing' = Tail(printing)
  /\ UNCHANGED <<term_input, shell>>
\* Mutation: the line is not emptied.
term_promptKeeps ==
  /\ shell = "running" /\ printing = <<>> /\ shell' = "idle" /\ printing' = TERM_PROMPT
  /\ UNCHANGED <<term_input, grid, cur_row, cur_col>>
term_prompt ==
  /\ shell = "running" /\ printing = <<>> /\ shell' = "idle" /\ printing' = TERM_PROMPT
  /\ term_input' = <<>> /\ UNCHANGED <<grid, cur_row, cur_col>>

term_start ==
  /\ grid = [r \in Row |-> [c \in Col |-> BLANK]] /\ cur_row = 0 /\ cur_col = 0
  /\ term_input = <<>> /\ printing = <<"x", "newline", "x", "newline">> /\ shell = "running"
termNext == (\E ch \in TermChars : Type(ch)) \/ Erase \/ Enter \/ Clear \/ wm_term_puts \/ term_prompt
-----------------------------------------------------------------------------
(* Properties *)

(* No write leaves the grid: the cursor stands on a cell before each       *)
(* character, whatever wrapped, scrolled or was erased.                    *)
CursorInGrid == cur_row \in Row /\ cur_col \in Col

(* What ENTER will run is what the window shows: the cells before the      *)
(* cursor, over the end of a row or a scroll if need be, are the prompt    *)
(* and the line (desktop.c:258-289).  A prompt after the output of cat may *)
(* begin anywhere in a row.                                                *)
CellBefore(k) ==
  LET i == cur_row * WM_TERM_COLS + cur_col - k IN
  IF i < 0 THEN "outside" ELSE grid[i \div WM_TERM_COLS][i % WM_TERM_COLS]
ShownIsRun ==
  Idle => LET line == TERM_PROMPT \o term_input IN
          \A k \in 1 .. Len(line) : CellBefore(k) = line[Len(line) + 1 - k]

(* The terminal's window: every character goes into the grid, and the line *)
(* that ENTER runs is the line before the cursor.                          *)
LineShown == CursorInGrid /\ ShownIsRun
=============================================================================
