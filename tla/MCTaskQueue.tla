------------------------------ MODULE MCTaskQueue ------------------------------
(* TaskQueue for TLC.                                                          *)
EXTENDS TaskQueue, TLC

CONSTANTS t1, t2, t3, t4, render, other

MCTasks   == {t1, t2, t3, t4}
MCPosters == {render, other}
================================================================================
