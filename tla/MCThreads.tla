------------------------------- MODULE MCThreads -------------------------------
(* The parts that run on several threads.  A program checks modules, by any       *)
(* executor or by the scheduler of luau-analyze; one that checked a single module *)
(* goes on with VMs that share native code.                                       *)
EXTENDS MCBuildQueue, TaskScheduler, MCSharedCode

CONSTANTS w1, w2

threadVars == <<vars, schedulerVars, sharedVars>>

\* What luau-analyze checks: a module with two that can be checked at once; a cycle.
Diamond == requires = (a :> {b, c} @@ b :> {} @@ c :> {})
Cycle == requires = (a :> {b, c} @@ b :> {a} @@ c :> {})

MCInit ==
    /\ Init /\ SharedInit /\ SchedulerInit
    /\ phase = "use" => entry = "checkQueuedModules" /\ dirty = Name /\ (Diamond \/ Cycle)

Queue == phase = "none" /\ Next /\ UNCHANGED <<schedulerVars, sharedVars>>
Scheduler == phase # "none" /\ SchedulerNext /\ UNCHANGED sharedVars

OneModule ==
    phase = "none" /\ entry = "check" /\ items = <<a>> /\ requires = [n \in Name |-> {}] /\ dirty = {}
Native == pc = "done" /\ OneModule /\ SharedNext /\ UNCHANGED <<vars, schedulerVars>>

MCNext == Queue \/ Scheduler \/ Native

\* The executor runs every task it is given, unless it is the scheduler.
AnyExecutor ==
    /\ WF_vars(phase = "none" /\ Main)
    /\ \A n \in Name : WF_vars(phase = "none" /\ Task(n))

MCSpec == MCInit /\ [][MCNext]_threadVars /\ AnyExecutor /\ SchedulerFairness /\ Fairness
=============================================================================
