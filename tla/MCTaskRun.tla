------------------------------- MODULE MCTaskRun -------------------------------
(* The tasks of noxis by themselves: one slot, one demo.                       *)
EXTENDS TaskSched

TaskRunSpec == task_init /\ [][TaskNext]_taskVars
OneDemo == {<<"sleeps", 1>>}
===============================================================================
