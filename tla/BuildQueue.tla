------------------------------ MODULE BuildQueue ------------------------------
(***************************************************************************)
(* Frontend::check and Frontend::checkQueuedModules of Frontend.cpp: the   *)
(* items that ParseGraph orders are checked one after another, or by tasks *)
(* an executor may run on any thread, in any order, while the main thread  *)
(* records results, unlocks items and breaks cycles.                       *)
(***************************************************************************)
EXTENDS ParseGraph

CONSTANT None        \* no item

ASSUME NoneAssumption == None \notin Name

VARIABLES
    entry,           \* the function the program called
    pc,              \* where the main thread is
    task,            \* how far the task of an item is; "none" when not processing
    result,          \* what the check of an item gave
    waits,           \* the dependencies an item waits for: reverseDeps, inverted
    dirtyDependencies,
    readyQueueItems, processing, remaining, \* BuildQueueWorkState
    nextItems, itemWithException, cancelled \* locals of checkQueuedModules

queueVars == <<waits, dirtyDependencies, readyQueueItems, processing, remaining,
               nextItems, itemWithException, cancelled>>
vars == <<parseVars, entry, pc, task, result, queueVars>>
parsed == <<requires, dependents, roots, seen, search, items, cycles, entry>>

Ended == {"done", "cancelled", "threw"}

TypeOK ==
    /\ ParseTypeOK
    /\ entry \in {"check", "checkQueuedModules"}
    /\ pc \in {"parse", "sequential", "loop", "waiting", "progress"} \cup Ended
    /\ task \in [Name -> {"none", "sent", "checked", "pushed", "over"}]
    /\ result \in [Name -> {"none", "ok", "exception", "cancelled"}]
    /\ waits \in [Name -> SUBSET Name] /\ dirtyDependencies \in [Name -> Nat]
    /\ readyQueueItems \in Seq(Name)
    /\ processing \in Nat /\ remaining \in Nat
    /\ nextItems \subseteq Name /\ itemWithException \in Name \cup {None}
    /\ cancelled \in BOOLEAN

Init ==
    /\ ParseInit
    /\ entry \in {"check", "checkQueuedModules"}
    /\ entry = "check" => Len(roots) = 1
    /\ pc = "parse"
    /\ task = [n \in Name |-> "none"] /\ result = [n \in Name |-> "none"]
    /\ waits = [n \in Name |-> {}] /\ dirtyDependencies = [n \in Name |-> 0]
    /\ readyQueueItems = <<>> /\ processing = 0 /\ remaining = 0
    /\ nextItems = {} /\ itemWithException = None /\ cancelled = FALSE

Search == pc = "parse" /\ Parse /\ UNCHANGED <<entry, pc, task, result, queueVars>>

\* Nothing to check: the result is in the cache, or the queue is empty.
NothingToDo ==
    /\ pc = "parse" /\ Parsed /\ items = <<>>
    /\ pc' = "done"
    /\ UNCHANGED <<parseVars, entry, task, result, queueVars>>

-----------------------------------------------------------------------------
(* Frontend::check: checkBuildQueueItems                                    *)

BeginCheck ==
    /\ pc = "parse" /\ Parsed /\ items # <<>> /\ entry = "check"
    /\ pc' = "sequential"
    /\ UNCHANGED <<parseVars, entry, task, result, queueVars>>

FirstUnprocessed == items[CHOOSE k \in DOMAIN items :
    /\ task[items[k]] = "none"
    /\ \A l \in 1..(k - 1) : task[items[l]] # "none"]

CheckItem ==
    /\ pc = "sequential"
    /\ \E n \in Item : task[n] = "none"
    /\ LET n == FirstUnprocessed IN
       \E r \in {"ok", "exception", "cancelled"} :
          /\ result' = [result EXCEPT ![n] = r]
          /\ task' = [task EXCEPT ![n] = "over"]
          /\ dirty' = IF r = "ok" THEN dirty \ {n} ELSE dirty
          /\ pc' = CASE r = "ok" -> pc [] r = "exception" -> "threw" [] OTHER -> r
    /\ UNCHANGED <<parsed, queueVars>>

EndCheck ==
    /\ pc = "sequential"
    /\ \A n \in Item : task[n] # "none"
    /\ pc' = "done"
    /\ UNCHANGED <<parseVars, entry, task, result, queueVars>>

-----------------------------------------------------------------------------
(* Frontend::checkQueuedModules                                             *)

\* sendQueueItemTasks
SendQueueItemTasks(S) ==
    /\ task' = [n \in Name |-> IF n \in S THEN "sent" ELSE task[n]]
    /\ processing' = processing + Cardinality(S)

\* Dependencies are counted, and the items without any are sent; when there
\* are none, the first item is sent to break a cycle.
BeginQueue ==
    /\ pc = "parse" /\ Parsed /\ items # <<>> /\ entry = "checkQueuedModules"
    /\ waits' = [n \in Name |-> IF n \in Item THEN requires[n] \cap dirty ELSE {}]
    /\ dirtyDependencies' = [n \in Name |-> Cardinality(waits'[n])]
    /\ remaining' = Len(items)
    /\ LET free == {n \in Item : waits'[n] = {}} IN
          SendQueueItemTasks(IF free # {} THEN free ELSE {FirstUnprocessed})
    /\ pc' = "loop"
    /\ UNCHANGED <<parseVars, entry, result, readyQueueItems, nextItems,
                   itemWithException, cancelled>>

\* performQueueItemTask, on a thread of the executor: the item is checked ...
CheckTask(n) ==
    /\ task[n] = "sent"
    /\ task' = [task EXCEPT ![n] = "checked"]
    /\ \E r \in {"ok", "exception", "cancelled"} : result' = [result EXCEPT ![n] = r]
    /\ UNCHANGED <<parseVars, entry, pc, queueVars>>

\* ... made ready under the mutex ...
PushReady(n) ==
    /\ task[n] = "checked"
    /\ task' = [task EXCEPT ![n] = "pushed"]
    /\ readyQueueItems' = Append(readyQueueItems, n)
    /\ UNCHANGED <<parseVars, entry, pc, result, waits, dirtyDependencies, processing,
                   remaining, nextItems, itemWithException, cancelled>>

\* ... and the main thread is notified.
NotifyOne(n) ==
    /\ task[n] = "pushed"
    /\ task' = [task EXCEPT ![n] = "over"]
    /\ pc' = IF pc = "waiting" THEN "loop" ELSE pc
    /\ UNCHANGED <<parseVars, entry, result, queueVars>>

WaitWhen(condition) ==
    /\ pc = "loop" /\ remaining # 0 /\ condition
    /\ pc' = "waiting"
    /\ UNCHANGED <<parseVars, entry, task, result, queueVars>>

\* Faulty variant: the main thread waits without a look at what is ready.
WaitUnchecked == WaitWhen(TRUE)

\* The main thread has the mutex, and nothing is ready: it waits.
Wait == WaitWhen(readyQueueItems = <<>>)

\* A condition variable may wake without being notified.
SpuriousWake ==
    /\ pc = "waiting"
    /\ pc' = "loop"
    /\ UNCHANGED <<parseVars, entry, task, result, queueVars>>

\* An item that ends the loop over the ready items: the first when an earlier
\* batch had one, or else the first that threw or was cancelled.
Stops(k) ==
    \/ itemWithException # None \/ cancelled
    \/ result[readyQueueItems[k]] # "ok"

\* The ready items the loop reaches, the last of which may have stopped it.
Handled == {k \in DOMAIN readyQueueItems : \A l \in 1..(k - 1) : ~Stops(l)}
Recorded == {readyQueueItems[k] : k \in {k \in Handled : ~Stops(k)}}

\* The items that wait for one that was just recorded.
Notified == {n \in Item : task[n] = "none" /\ waits[n] \cap Recorded # {}}

\* The batch under the mutex, when count items are taken as processed.
Batch(count) ==
    /\ pc = "loop" /\ readyQueueItems # <<>>
    /\ dirty' = dirty \ Recorded
    /\ dirtyDependencies' =
          [n \in Name |-> dirtyDependencies[n] - Cardinality(waits[n] \cap Recorded)]
    /\ LET reached == {readyQueueItems[k] : k \in Handled}
           threw == {n \in reached : result[n] = "exception"}
       IN /\ itemWithException' = IF threw = {} THEN itemWithException
                                  ELSE CHOOSE n \in threw : TRUE
          /\ cancelled' = (cancelled \/ \E n \in reached : result[n] = "cancelled")
    /\ processing' = processing - count
    /\ remaining' = remaining - count
    /\ readyQueueItems' = <<>>
    /\ pc' = "progress"
    /\ UNCHANGED <<parsed, task, result, waits>>

\* Faulty variant: an item is sent when the first of its dependencies is recorded.
SendAtFirst == Batch(Len(readyQueueItems)) /\ nextItems' = Notified

\* Faulty variant: items after the one that stops the loop are not counted.
CountReached ==
    /\ Batch(Cardinality(Handled))
    /\ nextItems' = {n \in Notified : dirtyDependencies'[n] = 0}

HandleReady ==
    /\ Batch(Len(readyQueueItems))
    /\ nextItems' = {n \in Notified : dirtyDependencies'[n] = 0}

\* The progress callback, which may cancel.
CallProgress == pc = "progress" /\ \E stop \in BOOLEAN : cancelled' = (cancelled \/ stop)

\* The unlocked items are sent.
SendNext ==
    /\ CallProgress
    /\ nextItems # {}
    /\ SendQueueItemTasks(nextItems)
    /\ nextItems' = {}
    /\ pc' = "loop"
    /\ UNCHANGED <<parseVars, entry, result, waits, dirtyDependencies, readyQueueItems,
                   remaining, itemWithException>>

Proceed(condition, next) ==
    /\ CallProgress
    /\ nextItems = {} /\ condition
    /\ pc' = next
    /\ UNCHANGED <<parseVars, entry, task, result, waits, dirtyDependencies,
                   readyQueueItems, processing, remaining, nextItems, itemWithException>>

\* Faulty variant: the loop ends before it looks for an exception.
EndBeforeThrow == Proceed(processing # 0 \/ remaining = 0, "loop")

\* Tasks are still processing, or nothing remains.
KeepGoing ==
    Proceed(processing # 0 \/ (remaining = 0 /\ itemWithException = None /\ ~cancelled'), "loop")

\* Typechecking was cancelled: nothing is returned.
Cancel == Proceed(processing = 0 /\ cancelled', "cancelled")

ThrowWhen(condition) ==
    Proceed(condition /\ itemWithException # None /\ ~cancelled', "threw")

\* Faulty variant: the exception is rethrown while other items are processing.
ThrowAtOnce == ThrowWhen(TRUE)

\* The pending exception is rethrown.
Throw == ThrowWhen(processing = 0)

\* Nothing is processing but items remain: the first one breaks a cycle.
BreakCycle ==
    /\ CallProgress
    /\ nextItems = {} /\ processing = 0 /\ remaining # 0
    /\ itemWithException = None /\ ~cancelled'
    /\ SendQueueItemTasks({FirstUnprocessed})
    /\ pc' = "loop"
    /\ UNCHANGED <<parseVars, entry, result, waits, dirtyDependencies, readyQueueItems,
                   remaining, nextItems, itemWithException>>

\* Every item is done: their names are returned.
EndQueue ==
    /\ pc = "loop" /\ remaining = 0
    /\ pc' = "done"
    /\ UNCHANGED <<parseVars, entry, task, result, queueVars>>

-----------------------------------------------------------------------------
Main ==
    \/ Search \/ NothingToDo \/ BeginCheck \/ CheckItem \/ EndCheck
    \/ BeginQueue \/ Wait \/ HandleReady
    \/ SendNext \/ KeepGoing \/ Cancel \/ Throw \/ BreakCycle \/ EndQueue

Task(n) == CheckTask(n) \/ PushReady(n) \/ NotifyOne(n)

Next == Main \/ SpuriousWake \/ \E n \in Name : Task(n)

\* The main thread goes on, and the executor runs every task it is given.
QueueFairness == WF_vars(Main) /\ \A n \in Name : WF_vars(Task(n))

Spec == Init /\ [][Next]_vars /\ QueueFairness

-----------------------------------------------------------------------------
(* What must be true                                                        *)

\* An item is checked before a module it requires only if the two are on a
\* cycle, and the cycle is reported: no type is replaced by any in silence.
CyclesCut ==
    \A n \in Item : task[n] # "none" => (requires[n] \cap dirty) \subseteq cycles[n]

\* The counts that decide when to send, to wait and to stop: dirtyDependencies
\* are the unrecorded ones, processing the items sent and not handled, remaining
\* the items not handled.
Ready == ToSet(readyQueueItems)
CountsExact ==
    (entry = "checkQueuedModules" /\ pc # "parse") =>
        /\ \A n \in Name : dirtyDependencies[n] = Cardinality(waits[n] \cap dirty)
        /\ processing = Cardinality({n \in Name : task[n] \in {"sent", "checked"}} \cup Ready)
        /\ remaining = Cardinality({n \in Item : task[n] \in {"none", "sent", "checked"}} \cup Ready)
        /\ Len(readyQueueItems) = Cardinality(Ready)

\* When the function returns or throws, no thread is still checking a module:
\* the caller may change or free what tasks refer to.
NoTaskLeft ==
    pc \in Ended => \A n \in Name : task[n] \notin {"sent", "checked"}

\* A call that returns the modules it was to check has checked all of them.
DoneMeansChecked ==
    pc = "done" => Item \cap dirty = {} /\ \A n \in seen : n \notin dirty

\* "if a node is not dirty, all its transitive deps aren't dirty", for the next
\* call of parseGraph.
CleanClosed ==
    pc \in Ended => \A n \in Name \ dirty : requires[n] \cap dirty = {}

\* Every call ends, however the tasks are scheduled and whatever they yield.
Terminates == <>(pc \in Ended)
=============================================================================
