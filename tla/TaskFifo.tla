-------------------------------- MODULE TaskFifo -------------------------------
(* What run_on_script_thread promises (src/src/hades1/script_hook.hpp): a task  *)
(* handed to it runs once, on the script thread, after the ones handed over     *)
(* before it.                                                                   *)
EXTENDS Sequences

CONSTANT Tasks

VARIABLES
  queue,   \* the tasks that have not run, oldest first
  ran      \* the tasks that have, in the order they did

vars == <<queue, ran>>

Init == queue = <<>> /\ ran = <<>>

Post(t) ==
  /\ queue' = Append(queue, t)
  /\ UNCHANGED ran

Run ==
  /\ queue # <<>>
  /\ queue' = Tail(queue)
  /\ ran' = Append(ran, Head(queue))

Next == (\E t \in Tasks : Post(t)) \/ Run

Safety   == Init /\ [][Next]_vars
FairSpec == Safety /\ WF_vars(Run)
================================================================================
