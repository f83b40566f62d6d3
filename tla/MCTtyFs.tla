------------------------------ MODULE MCTtyFs ------------------------------
(***************************************************************************)
(* Two terminals with a process each: sh reads on terminal 1 while job     *)
(* writes on terminal 0.  The keys type and edit a line, or switch the     *)
(* console.                                                                *)
(***************************************************************************)
EXTENDS TtyFs

CONSTANTS sh, job

MCUser == {sh, job}
MCTty == {0, 1}
MCTtyOf == [p \in {sh, job} |-> IF p = sh THEN 1 ELSE 0]
MCCounts == {2}

OneReads == [p \in {sh, job} |-> IF p = sh THEN {"READ"} ELSE {"WRITE"}]

TypingKeys  == {CHAR, ENTER, AltF(0), AltF(1)}
EditingKeys == {CHAR, ENTER, BACKSPACE, AltF(0)}
=============================================================================
