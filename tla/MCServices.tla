------------------------------ MODULE MCServices ------------------------------
(* What programs and the user have above the kernel: the life of processes,   *)
(* the contents of files, the log of an unlink(), the installed commands, the *)
(* time of day, the keyboard and the mouse, the text mode, the windows, the   *)
(* list of files and the terminal in them, the names of hosts, and the        *)
(* network of noxis.  They share no state here; a behaviour exercises one of  *)
(* them.                                                                      *)
EXTENDS FsRdwt, DiskLog, Install, SysTask, KeyDecode, Mouse, VgaText, Windows,
        Explorer, Terminal, NetNames, NoxisNet, ProcLife

VARIABLE service
vars == <<service, fsRdwtVars, diskLogVars, installVars, sysVars,
                  keyVars, mouseVars, vgaTextVars, wmVars, explVars,
                  termVars, netNamesVars, noxisNetVars, lifeVars>>

MCRtc == <<2, 1, 11>>
MCMoves == {<<0, 0>>, <<1, 0>>, <<-1, 1>>, <<8, -1>>}
MCWindowAt == [w \in Window |-> IF w = Files THEN <<0, 0>> ELSE <<2, 0>>]
MCWindowSize == [w \in Window |-> IF w = Files THEN <<2, 3>> ELSE <<3, 2>>]
MCTar == <<1, 0, 5>>
MCWords == {<<>>, <<0>>, <<2, 5, 5>>, <<2, 5, 6>>, <<1, 0, 0, 0>>, <<11>>}
MCNames == {<<<<11>>>>, <<<<11>>, <<0>>>>}
MCDirs == {<<Dot, 2, 4>>, <<Dot, 2, 4, FreeSlot, FreeSlot, FreeSlot, 1, 3>>}
\* INIT forks 12, which forks for ever; its child forks, waits and exits, and
\* the grandchild exits or execs: orphans, zombies and waiters of both ages
MCCalls == [p \in Slot |-> CASE p = 12 -> {FORK} [] p = 13 -> {FORK, EXIT, WAIT}
                             [] p = 14 -> {EXIT, EXEC}]
MCRecords == {<<>>, <<"A">>, <<"CNAME">>, <<"CNAME", "A">>, <<"CNAME", "CNAME", "A", "A2">>}

Init ==
  /\ service \in {"contents", "disk log", "commands", "time",
                 "keyboard", "mouse", "text mode", "windows", "file list",
                 "terminal", "network names", "noxis net", "processes"}
  /\ FsRdwtInit /\ DiskLogInit /\ InstallInit /\ SysInit /\ KeyInit
  /\ mouse_init /\ VgaTextInit /\ wm_init /\ wm_expl_open /\ term_start /\ NetNamesInit
  /\ NoxisNetInit /\ LifeInit
  /\ service = "time" \/ (elapsed = 0 /\ is_bcd)        \* what is not exercised
  /\ service = "file list" \/ dir_size = 3
  /\ service = "noxis net" \/ nic_present              \* starts in one way only
Next ==
  \/ /\ service = "contents" /\ FsRdwtNext
     /\ UNCHANGED <<service, diskLogVars, installVars, sysVars, keyVars,
                    mouseVars, vgaTextVars, wmVars, explVars, termVars,
                    netNamesVars, noxisNetVars, lifeVars>>
  \/ /\ service = "disk log" /\ DiskLogNext
     /\ UNCHANGED <<service, fsRdwtVars, installVars, sysVars, keyVars,
                    mouseVars, vgaTextVars, wmVars, explVars, termVars,
                    netNamesVars, noxisNetVars, lifeVars>>
  \/ /\ service = "commands" /\ InstallNext
     /\ UNCHANGED <<service, fsRdwtVars, diskLogVars, sysVars, keyVars,
                    mouseVars, vgaTextVars, wmVars, explVars, termVars,
                    netNamesVars, noxisNetVars, lifeVars>>
  \/ /\ service = "time" /\ SysNext
     /\ UNCHANGED <<service, fsRdwtVars, diskLogVars, installVars, keyVars,
                    mouseVars, vgaTextVars, wmVars, explVars, termVars,
                    netNamesVars, noxisNetVars, lifeVars>>
  \/ /\ service = "keyboard" /\ KeyNext
     /\ UNCHANGED <<service, fsRdwtVars, diskLogVars, installVars, sysVars,
                    mouseVars, vgaTextVars, wmVars, explVars, termVars,
                    netNamesVars, noxisNetVars, lifeVars>>
  \/ /\ service = "mouse" /\ MouseNext
     /\ UNCHANGED <<service, fsRdwtVars, diskLogVars, installVars, sysVars,
                    keyVars, vgaTextVars, wmVars, explVars, termVars,
                    netNamesVars, noxisNetVars, lifeVars>>
  \/ /\ service = "text mode" /\ VgaTextNext
     /\ UNCHANGED <<service, fsRdwtVars, diskLogVars, installVars, sysVars,
                    keyVars, mouseVars, wmVars, explVars, termVars,
                    netNamesVars, noxisNetVars, lifeVars>>
  \/ /\ service = "windows" /\ wmNext
     /\ UNCHANGED <<service, fsRdwtVars, diskLogVars, installVars, sysVars,
                    keyVars, mouseVars, vgaTextVars, explVars, termVars,
                    netNamesVars, noxisNetVars, lifeVars>>
  \/ /\ service = "file list" /\ explNext
     /\ UNCHANGED <<service, fsRdwtVars, diskLogVars, installVars, sysVars,
                    keyVars, mouseVars, vgaTextVars, wmVars, termVars,
                    netNamesVars, noxisNetVars, lifeVars>>
  \/ /\ service = "terminal" /\ termNext
     /\ UNCHANGED <<service, fsRdwtVars, diskLogVars, installVars, sysVars,
                    keyVars, mouseVars, vgaTextVars, wmVars, explVars,
                    netNamesVars, noxisNetVars, lifeVars>>
  \/ /\ service = "network names" /\ NetNamesNext
     /\ UNCHANGED <<service, fsRdwtVars, diskLogVars, installVars, sysVars,
                    keyVars, mouseVars, vgaTextVars, wmVars, explVars,
                    termVars, noxisNetVars, lifeVars>>
  \/ /\ service = "noxis net" /\ NoxisNetNext
     /\ UNCHANGED <<service, fsRdwtVars, diskLogVars, installVars, sysVars,
                    keyVars, mouseVars, vgaTextVars, wmVars, explVars,
                    termVars, netNamesVars, lifeVars>>
  \/ /\ service = "processes" /\ LifeNext
     /\ UNCHANGED <<service, fsRdwtVars, diskLogVars, installVars, sysVars,
                    keyVars, mouseVars, vgaTextVars, wmVars, explVars,
                    termVars, netNamesVars, noxisNetVars>>
Spec == Init /\ [][Next]_vars

(* What the user points at and types is what the programs get: a selected row *)
(* is painted and is a file (wm.c:468-491, desktop.c:820-840), the words of a *)
(* command line go to the command (main.c:272-291), and the name of a host to *)
(* the name server, whose answer comes back (desktop.c:415, dns.c:60-200).    *)
TakenAsMeant == ListShown /\ ArgvIsWords /\ NamesRead
===============================================================================
