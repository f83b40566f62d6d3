------------------------------ MODULE MCProcLive ------------------------------
(* INIT, which forks and waits, and two more processes, of which both fork    *)
(* and exit, one may be the other's child, and one also execs.  After a       *)
(* crossed RECEIVE the liveness properties say nothing (module ProcLife), so  *)
(* behaviours are followed up to there.                                       *)
EXTENDS ProcLife

MCCalls == [p \in Slot |-> IF p = 12 THEN {FORK, EXIT} ELSE {FORK, EXIT, EXEC}]

LiveNext == ~crossed /\ LifeNext
LiveSpec == LifeInit /\ [][LiveNext]_lifeVars /\ LifeFairness
===============================================================================
