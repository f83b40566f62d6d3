------------------------------- MODULE Windows -------------------------------
(***************************************************************************)
(* The windows of the desktop of 25-osfs11 (kernel/wm.c): where they are,  *)
(* in which order they are painted, which has the focus, and what the      *)
(* mouse does to them.  desktop_run() opens the two windows, Files and     *)
(* TTY, and calls wm_update_mouse() in every turn of its loop with what    *)
(* the mouse driver has become since the last one.                         *)
(*                                                                         *)
(* An open window has a z_order of 1 or more.  A pixel of the frame buffer  *)
(* is written as whose it is and which part: border, text and bevel belong *)
(* to the title bar or to the client area they are in.                     *)
(***************************************************************************)
EXTENDS Integers, FiniteSets, Sequences

CONSTANTS
  SCREEN_W, SCREEN_H, WM_TITLE_HEIGHT,
  Files, TTY, NoWindow,
  WindowAt,   \* WindowAt[w]: <<x, y>> desktop_run() asks for
  WindowSize  \* WindowSize[w]: <<width, height>>

Window == {Files, TTY}
ASSUME WindowsAssumption ==
  /\ Files # TTY /\ NoWindow \notin Window
  /\ SCREEN_W \in Nat /\ SCREEN_H \in Nat /\ WM_TITLE_HEIGHT \in Nat \ {0}
  /\ \A w \in Window :
       /\ WindowAt[w] \in Int \X Int
       /\ WindowSize[w] \in (1 .. SCREEN_W) \X (WM_TITLE_HEIGHT .. SCREEN_H)

VARIABLES
  pos, z_order, active_window,
  drag_window, drag_offset,
  pointer, held  \* desk->mouse_x and mouse_y; the left button in desk->mouse_buttons
wmVars == <<pos, z_order, active_window, drag_window, drag_offset, pointer, held>>

Size == <<SCREEN_W, SCREEN_H>>
Smaller(a, b) == IF a < b THEN a ELSE b
Larger(a, b) == IF a > b THEN a ELSE b
OnScreenAt(w, p) == [i \in 1 .. 2 |-> Smaller(Larger(0, p[i]), Size[i] - WindowSize[w][i])]
Open(z) == {w \in Window : z[w] > 0}

(***************************************************************************)
(* wm_restack(): z_orders become 1..N with front, if it is open, on top.   *)
(***************************************************************************)
wm_restack(z, front) ==
  [w \in Window |->
     IF w = front THEN Cardinality(Open(z) \cup {front})
     ELSE Cardinality({v \in Open(z) \ {front} : z[v] <= z[w]})]
\* Mutation: the first window at this place.
wm_hit_testFirst(p) ==
  LET here == {w \in Open(z_order) : \A i \in 1 .. 2 : pos[w][i] <= p[i] /\ p[i] < pos[w][i] + WindowSize[w][i]} IN
  IF Files \in here THEN Files ELSE IF here = {} THEN NoWindow ELSE TTY
wm_hit_test(p) ==
  LET here == {w \in Open(z_order) : \A i \in 1 .. 2 : pos[w][i] <= p[i] /\ p[i] < pos[w][i] + WindowSize[w][i]} IN
  IF here = {} THEN NoWindow ELSE CHOOSE w \in here : \A v \in here : z_order[v] <= z_order[w]

(***************************************************************************)
(* wm_update_mouse(), with wm_handle_click() when the button goes down.    *)
(***************************************************************************)
InTitle(w, p) == p[2] < pos[w][2] + WM_TITLE_HEIGHT
Grab(p) == [i \in 1 .. 2 |-> p[i] - pos[active_window'][i]]
Dragged(w, off, p) == pos' = [pos EXCEPT ![w] = OnScreenAt(w, [i \in 1 .. 2 |-> p[i] - off[i]])]

wm_focus_window(w) ==
  IF w = NoWindow THEN UNCHANGED <<z_order, active_window>>
  ELSE z_order' = wm_restack(z_order, w) /\ active_window' = w
Press(p) ==
  /\ ~ held /\ held' = TRUE /\ pointer' = p
  /\ wm_focus_window(wm_hit_test(p))
  /\ IF active_window' # NoWindow /\ InTitle(active_window', p)
       THEN /\ drag_window' = active_window' /\ drag_offset' = Grab(p)
            /\ Dragged(drag_window', drag_offset', p)
       ELSE drag_window' = NoWindow /\ UNCHANGED <<drag_offset, pos>>
Hold(p) ==
  /\ held /\ pointer' = p
  /\ IF drag_window = NoWindow THEN UNCHANGED pos ELSE Dragged(drag_window, drag_offset, p)
  /\ UNCHANGED <<held, z_order, active_window, drag_window, drag_offset>>
Release(p) ==
  /\ held' = FALSE /\ drag_window' = NoWindow /\ pointer' = p
  /\ UNCHANGED <<pos, z_order, active_window, drag_offset>>

(***************************************************************************)
(* wm_paint_all(): the background, and every open window from the back to  *)
(* the front, each with its shadow two pixels down and to the right.       *)
(***************************************************************************)
Screen == (0 .. SCREEN_W - 1) \X (0 .. SCREEN_H - 1)
wm_fill_rect(fb, from, to, c) ==
  [p \in Screen |-> IF \A i \in 1 .. 2 : from[i] <= p[i] /\ p[i] <= to[i] THEN c ELSE fb[p]]
wm_draw_desktop == [p \in Screen |-> <<NoWindow, "background">>]
wm_draw_window(fb, w) ==
  LET from == pos[w]
      to == [i \in 1 .. 2 |-> (from[i] + WindowSize[w][i]) - 1]
      shadow == wm_fill_rect(fb, [i \in 1 .. 2 |-> from[i] + 2], [i \in 1 .. 2 |-> to[i] + 2], <<w, "shadow">>)
      client == wm_fill_rect(shadow, from, to, <<w, "client">>)
  IN  wm_fill_rect(client, from, <<to[1], (from[2] + WM_TITLE_HEIGHT) - 1>>, <<w, "title">>)
\* the insertion sort: Files is the first of the table
BackToFront == IF z_order[Files] > z_order[TTY] THEN <<TTY, Files>> ELSE <<Files, TTY>>
wm_paint_all ==
  LET Painted(fb, w) == IF w \in Open(z_order) THEN wm_draw_window(fb, w) ELSE fb
  IN  Painted(Painted(wm_draw_desktop, BackToFront[1]), BackToFront[2])

\* desktop_run(): Files and TTY are opened, each on top and with the focus
wm_create_window(z, w) == wm_restack(z, w)
wm_init ==
  LET closed == [w \in Window |-> 0] IN
  /\ pos = [w \in Window |-> OnScreenAt(w, WindowAt[w])]
  /\ z_order = wm_restack(wm_create_window(wm_create_window(closed, Files), TTY), TTY)
  /\ active_window = TTY
  /\ drag_window = NoWindow /\ drag_offset = <<0, 0>>
  /\ pointer = <<SCREEN_W \div 2, SCREEN_H \div 2>> /\ held = FALSE
wmNext == \E p \in Screen : Press(p) \/ Hold(p) \/ Release(p)
-----------------------------------------------------------------------------
(* Properties *)

(* The z_orders are 1..N however often windows are focused, and the window *)
(* with the focus is on top (the comment of wm_restack(), wm.c:883-887,    *)
(* tells what happened when they grew).                                    *)
StackExact ==
  /\ {z_order[w] : w \in Window} = 1 .. Cardinality(Window)
  /\ z_order[active_window] = Cardinality(Window)

(* However it is dragged, a window is on the screen as a whole.            *)
WindowsOnScreen == \A w \in Window : \A i \in 1 .. 2 : pos[w][i] >= 0 /\ pos[w][i] + WindowSize[w][i] <= Size[i]

(* A press gives the focus to the window that is seen at the pointer, and  *)
(* takes hold of it where its title bar is seen: what wm_paint_all() has   *)
(* painted there last, behind no shadow (wm.c:854-875, 943-966).           *)
PressFocusesSeen ==
  held' /\ ~ held =>
    LET seen == wm_paint_all[pointer'] IN
    seen[2] \notin {"shadow", "background"} =>
      active_window' = seen[1] /\ (drag_window' = seen[1] <=> seen[2] = "title")

(* A window moves only while it is dragged, and no further than the        *)
(* pointer: it jumps neither when it is grabbed nor away from an edge.     *)
Distance(a, b) == IF a < b THEN b - a ELSE a - b
MovesWithPointer ==
  \A w \in Window : pos'[w] # pos[w] =>
    /\ drag_window = w
    /\ \A i \in 1 .. 2 : Distance(pos[w][i], pos'[w][i]) <= Distance(pointer[i], pointer'[i])

(* What the pointer does is what it seems to do on the painted screen      *)
(* (wm.c:798-975).                                                         *)
WindowsAsSeen ==
  /\ [](StackExact /\ WindowsOnScreen)
  /\ [][PressFocusesSeen /\ MovesWithPointer]_wmVars
=============================================================================
