----------------------------- MODULE MCUnlinkDump -----------------------------
(* One unlink() on a disk that takes longer to answer than task HD takes to   *)
(* wait for it.                                                               *)
EXTENDS DiskLog

Spec == DiskLogInit /\ [][DiskLogNext]_diskLogVars
===============================================================================
