---------------------------- MODULE TaskScheduler ----------------------------
(***************************************************************************)
(* The worker threads of luau-analyze (TaskScheduler in CLI/src/Analyze    *)
(* .cpp) as the executor of BuildQueue: the tasks checkQueuedModules sends *)
(* go through a queue that the workers empty, until the scheduler is       *)
(* destroyed and joins them.  A section under the mutex is one step.       *)
(***************************************************************************)
EXTENDS BuildQueue

CONSTANTS
    Worker,     \* workers
    NoTask      \* the empty function, which ends a worker

ASSUME WorkerAssumption == IsFiniteSet(Worker) /\ Worker # {} /\ NoTask \notin Name

VARIABLES
    phase,      \* "none": no scheduler; "use", "destroy", "joined": how far main is with it
    tasks,      \* TaskScheduler::tasks
    worker,     \* where a worker is; "waiting": on the condition variable
    job,        \* the task a worker has popped
    outbox,     \* what the main thread has yet to push
    notifying   \* the main thread has pushed and not yet notified

schedulerVars == <<phase, tasks, worker, job, outbox, notifying>>

SchedulerInit ==
    /\ phase \in {"none", "use"}
    /\ tasks = <<>> /\ outbox = <<>> /\ notifying = FALSE
    /\ worker = [w \in Worker |-> "pop"] /\ job = [w \in Worker |-> NoTask]

-----------------------------------------------------------------------------
(* The main thread                                                          *)

AtLeisure == outbox = <<>> /\ ~notifying

\* checkQueuedModules goes on; executeTasks pushes what it sends.
MainGoesOn ==
    /\ phase = "use" /\ AtLeisure
    /\ Main
    /\ outbox' \in SetToSeqs({n \in Name : task[n] = "none" /\ task'[n] = "sent"})
    /\ UNCHANGED <<phase, tasks, worker, job, notifying>>

MainWakes == phase = "use" /\ SpuriousWake /\ UNCHANGED schedulerVars

PushWhen(notify) ==
    /\ outbox # <<>> /\ ~notifying
    /\ tasks' = Append(tasks, Head(outbox))
    /\ outbox' = Tail(outbox)
    /\ notifying' = notify
    /\ UNCHANGED <<vars, phase, worker, job>>

\* Faulty variant: a worker is notified only of a queue that was empty.
PushToEmpty == PushWhen(tasks = <<>>)

\* push: under the mutex ...
Push == PushWhen(TRUE)

\* ... and then, without it, notify_one: lost when nobody waits.
NotifyWorker ==
    /\ notifying /\ notifying' = FALSE
    /\ LET Waiting == {w \in Worker : worker[w] = "waiting"} IN
       IF Waiting = {} THEN UNCHANGED worker
       ELSE \E w \in Waiting : worker' = [worker EXCEPT ![w] = "pop"]
    /\ UNCHANGED <<vars, phase, tasks, job, outbox>>

\* checkQueuedModules has returned or thrown: ~TaskScheduler pushes an empty task for each worker ...
DestroyScheduler ==
    /\ phase = "use" /\ pc \in Ended /\ AtLeisure
    /\ phase' = "destroy"
    /\ outbox' = [i \in 1 .. Cardinality(Worker) |-> NoTask]
    /\ UNCHANGED <<vars, tasks, worker, job, notifying>>

\* ... and joins them all.
JoinWorkers ==
    /\ phase = "destroy" /\ AtLeisure /\ \A w \in Worker : worker[w] = "ended"
    /\ phase' = "joined"
    /\ UNCHANGED <<vars, tasks, worker, job, outbox, notifying>>

-----------------------------------------------------------------------------
(* The workers                                                              *)

\* pop: the first task, ...
PopTask(w) ==
    /\ phase # "none" /\ worker[w] = "pop" /\ tasks # <<>>
    /\ job' = [job EXCEPT ![w] = Head(tasks)]
    /\ tasks' = Tail(tasks)
    /\ worker' = [worker EXCEPT ![w] = IF Head(tasks) = NoTask THEN "ended" ELSE "run"]
    /\ UNCHANGED <<vars, phase, outbox, notifying>>

\* ... or the worker waits for one.
WaitForTask(w) ==
    /\ phase # "none" /\ worker[w] = "pop" /\ tasks = <<>>
    /\ worker' = [worker EXCEPT ![w] = "waiting"]
    /\ UNCHANGED <<vars, phase, tasks, job, outbox, notifying>>

WakeWorker(w) ==
    /\ worker[w] = "waiting"
    /\ worker' = [worker EXCEPT ![w] = "pop"]
    /\ UNCHANGED <<vars, phase, tasks, job, outbox, notifying>>

\* The task: performQueueItemTask for one item.
RunTask(w) ==
    /\ worker[w] = "run"
    /\ Task(job[w])
    /\ worker' = IF task'[job[w]] = "over" THEN [worker EXCEPT ![w] = "pop"] ELSE worker
    /\ UNCHANGED <<phase, tasks, job, outbox, notifying>>

-----------------------------------------------------------------------------
MainThread == MainGoesOn \/ Push \/ NotifyWorker \/ DestroyScheduler \/ JoinWorkers
WorkerThread(w) == PopTask(w) \/ WaitForTask(w) \/ RunTask(w)

SchedulerNext ==
    \/ MainThread \/ MainWakes
    \/ \E w \in Worker : WorkerThread(w) \/ WakeWorker(w)

\* Each thread goes on while it is not blocked; no wake-up is assumed but those of notify_one.
SchedulerFairness ==
    /\ WF_<<vars, schedulerVars>>(MainThread)
    /\ \A w \in Worker : WF_<<vars, schedulerVars>>(WorkerThread(w))

SchedulerSpec ==
    /\ Init /\ SchedulerInit
    /\ [][SchedulerNext]_<<vars, schedulerVars>> /\ SchedulerFairness

\* The scheduler is what BuildQueue assumes of an executor, and can be destroyed as soon as
\* the call has returned or thrown: no notification is lost that a task or the end of a
\* worker waits for, no worker is joined that waits itself, and no task is left unrun.
Joins == <>[](phase = "none" \/ (phase = "joined" /\ tasks = <<>> /\ pc \in Ended))
=============================================================================
