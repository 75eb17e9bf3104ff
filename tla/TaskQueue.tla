------------------------------- MODULE TaskQueue -------------------------------
(* The queue between the loader's threads and the script thread: g_tasks and    *)
(* g_task_mutex, run_on_script_thread and run_pending_tasks, drained at the end *)
(* of every ScriptManager::Update (src/src/hades1/script_hook.cpp).             *)
EXTENDS Sequences, Functions

CONSTANTS
  Tasks,     \* the tasks ever posted
  Posters,   \* the threads that post: the render thread, for one
  Script,    \* the script thread, whose tasks post too
  NoThread, NoTask

ASSUME NamesAssumption ==
  Script \notin Posters /\ NoThread \notin Posters \cup {Script} /\ NoTask \notin Tasks

VARIABLES
  lock,     \* the owner of g_task_mutex
  tasks,    \* g_tasks
  batch,    \* the local vector of run_pending_tasks, less what has been run
  ran,      \* history: the tasks run
  script,   \* the script thread: "idle", "swap" (inside the lock), "drain", "body"
  post,     \* per thread, run_on_script_thread: "no", "wait" or "push"
  want,     \* the task a thread is posting
  seen,     \* the vector emplace_back started from
  asked     \* the tasks handed to run_on_script_thread

queueVars == <<lock, tasks, batch, ran, script, post, want, seen, asked>>
poster == <<post, want, seen, asked>>

Threads == Posters \cup {Script}

QueueTypeOK ==
  /\ lock \in Threads \cup {NoThread}
  /\ {tasks, batch, ran} \subseteq Seq(Tasks)
  /\ script \in {"idle", "swap", "drain", "body"}
  /\ batch # <<>> => script \in {"drain", "body"}
  /\ post \in [Threads -> {"no", "wait", "push"}]
  /\ want \in [Threads -> Tasks \cup {NoTask}]
  /\ seen \in [Threads -> Seq(Tasks)]
  /\ asked \subseteq Tasks

QueueInit ==
  /\ lock = NoThread
  /\ tasks = <<>> /\ batch = <<>> /\ ran = <<>>
  /\ script = "idle"
  /\ post = [p \in Threads |-> "no"]
  /\ want = [p \in Threads |-> NoTask]
  /\ seen = [p \in Threads |-> <<>>]
  /\ asked = {}

--------------------------------------------------------------------------------
(* run_on_script_thread. A task of the script thread may call it too. *)

CallPost(p, t) ==
  /\ post[p] = "no" /\ t \notin asked
  /\ p = Script => script = "body"
  /\ post' = [post EXCEPT ![p] = "wait"]
  /\ want' = [want EXCEPT ![p] = t]
  /\ asked' = asked \cup {t}
  /\ UNCHANGED <<lock, tasks, batch, ran, script, seen>>

\* lock_guard; emplace_back reads the vector ...
LockPost(p) ==
  /\ post[p] = "wait" /\ lock = NoThread
  /\ lock' = p
  /\ post' = [post EXCEPT ![p] = "push"]
  /\ seen' = [seen EXCEPT ![p] = tasks]
  /\ UNCHANGED <<tasks, batch, ran, script, want, asked>>

\* ... and writes it back, longer by one.
Push(p) ==
  /\ post[p] = "push"
  /\ tasks' = Append(seen[p], want[p])
  /\ lock' = NoThread
  /\ post' = [post EXCEPT ![p] = "no"]
  /\ want' = [want EXCEPT ![p] = NoTask]
  /\ seen' = [seen EXCEPT ![p] = <<>>]
  /\ UNCHANGED <<batch, ran, script, asked>>

--------------------------------------------------------------------------------
(* run_pending_tasks, at the end of update_detour. *)

LockDrain ==
  /\ script = "idle" /\ lock = NoThread
  /\ lock' = Script
  /\ script' = "swap"
  /\ UNCHANGED <<tasks, batch, ran, poster>>

\* Variant: the mutex is held while the tasks run.
SwapKeepsLock ==
  /\ script = "swap"
  /\ IF tasks = <<>> THEN script' = "idle" /\ lock' = NoThread
                     ELSE script' = "drain" /\ lock' = Script
  /\ batch' = tasks /\ tasks' = <<>>
  /\ UNCHANGED <<ran, poster>>
\* The vector is swapped out and the lock released before anything runs.
Swap ==
  /\ script = "swap"
  /\ script' = IF tasks = <<>> THEN "idle" ELSE "drain"
  /\ batch' = tasks /\ tasks' = <<>>
  /\ lock' = NoThread
  /\ UNCHANGED <<ran, poster>>

StartTask ==
  /\ script = "drain"
  /\ ran' = Append(ran, Head(batch))
  /\ batch' = Tail(batch)
  /\ script' = "body"
  /\ UNCHANGED <<lock, tasks, poster>>

\* Variant: an exception of a task leaves the loop.
EndTaskThrows ==
  /\ script = "body" /\ post[Script] = "no"
  /\ script' \in {"idle", IF batch = <<>> THEN "idle" ELSE "drain"}
  /\ UNCHANGED <<lock, tasks, batch, ran, poster>>
\* A task returns, or throws: both catch clauses go on with the next.
EndTask ==
  /\ script = "body" /\ post[Script] = "no"
  /\ script' = IF batch = <<>> THEN "idle" ELSE "drain"
  /\ UNCHANGED <<lock, tasks, batch, ran, poster>>

QueueNext ==
  \/ \E p \in Threads : \/ \E t \in Tasks : CallPost(p, t)
                        \/ LockPost(p)
                        \/ Push(p)
  \/ LockDrain \/ Swap \/ StartTask \/ EndTask

QueueSpec == QueueInit /\ [][QueueNext]_queueVars

\* The engine calls Update for as long as it runs, tasks return, and the OS
\* schedules every thread that can go on. Strong fairness on the mutex: it is free
\* for all of a frame but two short sections, so whoever waits gets it.
FairSpec ==
  /\ QueueSpec
  /\ SF_queueVars(LockDrain) /\ WF_queueVars(Swap) /\ WF_queueVars(StartTask) /\ WF_queueVars(EndTask)
  /\ \A p \in Threads : SF_queueVars(LockPost(p)) /\ WF_queueVars(Push(p))

--------------------------------------------------------------------------------
(* Properties. *)

Fifo == INSTANCE TaskFifo WITH queue <- batch \o tasks

\* The vector, the mutex, the swap and the loop together are a FIFO queue: no
\* task lost, run twice or overtaken, whoever posts while the loop runs.
RunsInOrder == Fifo!FairSpec

\* The script thread never waits for g_task_mutex while it owns it: what "doing
\* that from inside the drain would deadlock" warns of.
NeverWaitsForItself == ~(lock = Script /\ post[Script] = "wait")

\* Every task handed over is run, those that tasks hand over included.
EveryTaskRuns == \A t \in Tasks : t \in asked ~> t \in Range(ran)
================================================================================
