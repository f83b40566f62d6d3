----------------------------- MODULE KeyDecode -----------------------------
(***************************************************************************)
(* The keyboard of 25-osfs11 (kernel/keyboard.c): keyboard_handler() puts  *)
(* the bytes of the scan codes in kb_in, keyboard_read() of task TTY makes *)
(* keys of them and hands the keys to in_process().                        *)
(*                                                                         *)
(* A byte is <<code, break>>: 0xAA, the break code of 0x2A, is <<"2A",     *)
(* TRUE>>.  While set_leds() talks to the keyboard, kb_ack() throws away   *)
(* whatever it reads that is not an answer, and an answer that the         *)
(* interrupt sees first is put in kb_in like any other byte.               *)
(***************************************************************************)
EXTENDS Integers, Sequences

CONSTANTS
  KbKeys,       \* the keys that are typed, a subset of AllKeys
  KB_IN_BYTES,
  MaxPresses    \* bound on the keys pressed

AllKeys == {"a", "SHIFT_L", "ALT_R", "CAPS_LOCK", "NUM_LOCK", "PAD_4", "PRINTSCREEN", "PAUSEBREAK"}
ASSUME KeyAssumption ==
  KbKeys \subseteq AllKeys /\ KB_IN_BYTES \in Nat \ {0} /\ MaxPresses \in Nat

VARIABLES
  down, typed,  \* the keyboard: keys held, and lock states as the user sees them
  bytes,        \* bytes the keyboard has yet to send
  kb_in,
  reading,      \* keyboard_read() runs
  got,          \* the bytes of the code it is reading
  key, make,    \* its locals, which outlive a turn of its loop
  mods,         \* shift_l, alt_l, caps_lock, num_lock
  out, meant,   \* history: keys given to in_process(), keys the user meant
  leds,         \* answers that set_leds() has still to wait for
  full, stale,  \* history: a byte was dropped; a key was made of the last one's locals
  eaten         \* history: set_leds() talked to the keyboard while it sent a key
keyVars == <<down, typed, bytes, kb_in, reading, got, key, make, mods, out, meant, leds, full, stale, eaten>>

E0 == <<"E0", TRUE>>
E1 == <<"E1", TRUE>>
\* KB_ACK, 0xFA, is not a key, but is read as the break code of 0x7A
CodeOf == [a |-> "1E", SHIFT_L |-> "2A", CAPS_LOCK |-> "3A", NUM_LOCK |-> "45", PAD_4 |-> "4B", KB_ACK |-> "7A"]
PauseCode == <<E1, <<"1D", FALSE>>, <<"45", FALSE>>, E1, <<"1D", TRUE>>, <<"45", TRUE>>>>
PrintMake  == <<E0, <<"2A", FALSE>>, E0, <<"37", FALSE>>>>
PrintBreak == <<E0, <<"37", TRUE>>, E0, <<"2A", TRUE>>>>
Special == {PauseCode, PrintMake, PrintBreak}

\* the codes of a key (external: the keyboard)
ScanCode(k, break) ==
  CASE k = "PRINTSCREEN" -> IF break THEN PrintBreak ELSE PrintMake
    [] k = "PAUSEBREAK" -> IF break THEN <<>> ELSE PauseCode
    [] k = "ALT_R" -> <<E0, <<"38", break>>>>
    [] OTHER -> <<<<CodeOf[k], break>>>>

KeyFlags(m) == [shift |-> m.shift_l, alt |-> m.alt_l]
NumPad(m) == IF m.num_lock THEN "4" ELSE "LEFT"
Letter(m) == IF m.caps_lock # m.shift_l THEN "A" ELSE "a"
Toggle(m, lock) == [m EXCEPT ![lock] = ~ @]

(***************************************************************************)
(* The user presses and releases keys, until one has gone wrong (bound).   *)
(***************************************************************************)
Sound == ~ full /\ ~ stale /\ ~ eaten
Means(k) ==
  LET m == [typed EXCEPT !.shift_l = @ \/ k = "SHIFT_L", !.alt_l = @ \/ k = "ALT_R",
                         !.caps_lock = @ # (k = "CAPS_LOCK"), !.num_lock = @ # (k = "NUM_LOCK")]
      symbol == CASE k = "a" -> IF m.shift_l = m.caps_lock THEN "a" ELSE "A"
                  [] k = "PAD_4" -> NumPad(m)
                  [] OTHER -> k
  IN  typed' = m /\ meant' = Append(meant, [symbol |-> symbol, flags |-> KeyFlags(m)])
KeyPress(k) ==
  /\ Sound /\ bytes = <<>> /\ k \notin down /\ Len(meant) < MaxPresses
  /\ bytes' = ScanCode(k, FALSE) /\ down' = IF k = "PAUSEBREAK" THEN down ELSE down \cup {k}
  /\ Means(k)
  /\ UNCHANGED <<kb_in, reading, got, key, make, mods, out, leds, full, stale, eaten>>
KeyRelease(k) ==
  /\ Sound /\ bytes = <<>> /\ k \in down
  /\ bytes' = ScanCode(k, TRUE) /\ down' = down \ {k}
  /\ typed' = [typed EXCEPT !.shift_l = @ /\ k # "SHIFT_L", !.alt_l = @ /\ k # "ALT_R"]
  /\ UNCHANGED <<kb_in, reading, got, key, make, mods, out, meant, leds, full, stale, eaten>>

keyboard_handler ==
  /\ bytes # <<>> /\ bytes' = Tail(bytes)
  /\ IF Len(kb_in) < KB_IN_BYTES THEN kb_in' = Append(kb_in, Head(bytes)) /\ UNCHANGED full
     ELSE full' = TRUE /\ UNCHANGED kb_in
  /\ UNCHANGED <<down, typed, reading, got, key, make, mods, out, meant, leds, stale, eaten>>

(***************************************************************************)
(* keyboard_read(): get_byte_from_kb_buf() spins until a byte comes, so    *)
(* that a code is read to its end; then it is decoded.                     *)
(***************************************************************************)
keyboard_read ==
  /\ ~ reading /\ kb_in # <<>> /\ reading' = TRUE /\ key' = "none" /\ make' = BOOLEAN
  /\ UNCHANGED <<down, typed, bytes, kb_in, got, mods, out, meant, leds, full, stale, eaten>>
Return ==
  /\ reading /\ got = <<>> /\ kb_in = <<>> /\ leds = 0 /\ reading' = FALSE
  /\ UNCHANGED <<down, typed, bytes, kb_in, got, key, make, mods, out, meant, leds, full, stale, eaten>>

More(g) == \E s \in Special : Len(g) < Len(s) /\ g = SubSeq(s, 1, Len(g))
WithE0(g) == Len(g) > 1 /\ g[Len(g) - 1] = E0
Scan(g) == IF g[1] = E1 THEN E1 ELSE g[Len(g)]
KeyMap(g, m) ==
  LET c == Scan(g)[1] IN
  CASE c = "38" /\ WithE0(g) -> "ALT_R"
    [] c = "1E" /\ ~ WithE0(g) -> Letter(m)
    [] c \in {"2A", "3A", "45", "4B"} /\ ~ WithE0(g) -> CHOOSE k \in DOMAIN CodeOf : CodeOf[k] = c
    [] OTHER -> "other"
\* Mutation: the break code of a modifier is ignored.
ModifiedOnMake(m, k, made) ==
  CASE k = "SHIFT_L" -> [m EXCEPT !.shift_l = @ \/ made]
    [] k = "ALT_R" -> [m EXCEPT !.alt_l = @ \/ made]
    [] k \in {"CAPS_LOCK", "NUM_LOCK"} /\ made -> Toggle(m, IF k = "NUM_LOCK" THEN "num_lock" ELSE "caps_lock")
    [] OTHER -> m
Modified(m, k, made) ==
  CASE k = "SHIFT_L" -> [m EXCEPT !.shift_l = made]
    [] k = "ALT_R" -> [m EXCEPT !.alt_l = made]
    [] k \in {"CAPS_LOCK", "NUM_LOCK"} /\ made -> Toggle(m, IF k = "NUM_LOCK" THEN "num_lock" ELSE "caps_lock")
    [] OTHER -> m
Symbol(k, m) == IF k = "PAD_4" THEN NumPad(m) ELSE k

\* make holds one of a set of values: any, until a code sets it
DecodeAs(g, k, made, m) ==
  /\ key' = IF made /\ (m.shift_l \/ m.alt_l) THEN "flagged" ELSE k
  /\ make' = {made} /\ mods' = m
  /\ out' = IF made THEN Append(out, [symbol |-> Symbol(k, m), flags |-> KeyFlags(m)]) ELSE out
Decode(g) ==
  IF g \notin Special /\ key \notin {"PAUSEBREAK", "PRINTSCREEN"}
    THEN LET k == KeyMap(g, mods)  made == ~ Scan(g)[2] IN
         /\ DecodeAs(g, k, made, Modified(mods, k, made)) /\ UNCHANGED stale
         /\ leds' = IF made /\ k \in {"CAPS_LOCK", "NUM_LOCK"} THEN 2 ELSE 0
    ELSE LET k == IF g = PauseCode THEN "PAUSEBREAK" ELSE IF g \in Special THEN "PRINTSCREEN" ELSE key
             fresh == g \in {PrintMake, PrintBreak}
         IN  /\ \E made \in IF fresh THEN {g = PrintMake} ELSE make : DecodeAs(g, k, made, mods)
             /\ stale' = (stale \/ ~ fresh) /\ leds' = 0

GetByte ==
  LET g == Append(got, Head(kb_in)) IN
  /\ reading /\ kb_in # <<>> /\ leds = 0 /\ kb_in' = Tail(kb_in)
  /\ IF More(g) THEN got' = g /\ UNCHANGED <<key, make, mods, out, leds, stale>>
     ELSE got' = <<>> /\ Decode(g)
  /\ UNCHANGED <<down, typed, bytes, reading, meant, full, eaten>>

(***************************************************************************)
(* set_leds(): two bytes are sent, and kb_ack() reads until each has been  *)
(* answered.  TTY is interrupted as ever meanwhile.                        *)
(***************************************************************************)
kb_ack_eats ==
  /\ leds > 0 /\ bytes # <<>> /\ bytes' = Tail(bytes) /\ eaten' = TRUE
  /\ UNCHANGED <<down, typed, kb_in, reading, got, key, make, mods, out, meant, leds, full, stale>>
\* the interrupt of the answer may come before kb_ack() reads it, or not
kb_ack(overheard) ==
  /\ leds > 0 /\ leds' = leds - 1
  /\ IF overheard /\ Len(kb_in) < KB_IN_BYTES
     THEN kb_in' = Append(kb_in, <<CodeOf["KB_ACK"], TRUE>>) /\ eaten' = (eaten \/ bytes # <<>>)
     ELSE UNCHANGED <<kb_in, eaten>>
  /\ UNCHANGED <<down, typed, bytes, reading, got, key, make, mods, out, meant, full, stale>>

init_keyboard == [shift_l |-> FALSE, alt_l |-> FALSE, caps_lock |-> FALSE, num_lock |-> TRUE]
KeyInit ==
  /\ down = {} /\ typed = init_keyboard /\ bytes = <<>> /\ kb_in = <<>>
  /\ reading = FALSE /\ got = <<>> /\ key = "none" /\ make = BOOLEAN
  /\ mods = init_keyboard /\ out = <<>> /\ meant = <<>>
  /\ leds = 0 /\ full = FALSE /\ stale = FALSE /\ eaten = FALSE
KeyNext ==
  \/ \E k \in KbKeys : KeyPress(k) \/ KeyRelease(k)
  \/ keyboard_handler \/ keyboard_read \/ Return \/ GetByte
  \/ kb_ack_eats \/ \E overheard \in BOOLEAN : kb_ack(overheard)
-----------------------------------------------------------------------------
(* Properties *)

KeyTypeOK ==
  /\ Len(kb_in) <= KB_IN_BYTES /\ down \subseteq KbKeys /\ (got # <<>> => reading /\ More(got))
  /\ leds \in 0 .. 2 /\ (leds > 0 => reading /\ got = <<>>)

(* Keys reach in_process() as they were meant, in order, with the case and *)
(* the flags of the moment they were pressed however late they are read;   *)
(* unless a byte found kb_in full (keyboard.c:66), a key was made of the   *)
(* locals of the one before (`key' is set once per call of keyboard_read() *)
(* and PAUSEBREAK leaves `make' alone, keyboard.c:158, 216), or set_leds() *)
(* met the bytes of a key on their way (keyboard.c:419-447).  An answer of *)
(* the keyboard in kb_in, between two keys, is harmless.                   *)
KeysAsMeant == Sound => Len(out) <= Len(meant) /\ \A i \in DOMAIN out : out[i] = meant[i]

(* When all has been read and no key is down, no modifier is left on, and  *)
(* the locks are what the user sees.                                       *)
NoStuckModifier ==
  Sound /\ bytes = <<>> /\ kb_in = <<>> /\ got = <<>> /\ down = {} => mods = typed

(* The keyboard is understood, from the interrupt to in_process()          *)
(* (keyboard.c:66, 158-380).                                               *)
KeysFaithful == KeyTypeOK /\ KeysAsMeant /\ NoStuckModifier
=============================================================================
