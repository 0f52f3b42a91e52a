------------------------------- MODULE Worker -------------------------------
(***************************************************************************)
(* src/core/worker.cpp: a task queue served by one thread (Worker::Run),   *)
(* producers calling Worker::ExecuteAndWait, and the thread running        *)
(* ~Worker, which stops the worker thread and cancels what is left.        *)
(*                                                                         *)
(* Every section under Worker::Lock is in-memory work with no blocking     *)
(* call inside, so each is one atomic step and the lock itself is not a    *)
(* variable.  TaskEvent is taken as an auto-reset event: Set leaves it     *)
(* signalled and a Wait that returns consumes the signal (the Event class  *)
(* is not in the source tree).  Each producer submits one task, named like *)
(* the producer; Runnable::Execute and Runnable::Cancel (not in the source *)
(* tree) record the outcome and wake the task's waiter, as spec section 5  *)
(* asks of stopped work.                                                   *)
(***************************************************************************)
EXTENDS Naturals, Sequences

CONSTANTS
    Producers,  \* threads calling ExecuteAndWait, one task each
    NoTask,     \* an empty RunnableRef
    Failures    \* allocations that may fail: "AddTail" (TaskList.AddTail)
                \* and "TaskCreate" (the kernel task of WorkerThread)

ASSUME NoTask \notin Producers /\ Failures \subseteq {"AddTail", "TaskCreate"}

VARIABLES
    stopping,    \* Worker::Stopping
    running,     \* Worker::Running
    threadStop,  \* Thread::Stopping of WorkerThread
    threadDone,  \* WorkerThread's CompEvent is set
    taskList,    \* Worker::TaskList
    eventSet,    \* TaskEvent is signalled
    wpc,         \* worker thread program counter
    wtask,       \* the task Run popped
    dpc,         \* program counter of the thread running ~Worker
    dtask,       \* the task the destructor popped
    dmore,       \* the destructor's bHasTasks
    ppc,         \* producer program counters
    pret,        \* what Execute returned to each producer
    tstate,      \* each task's outcome
    resolved     \* history: how often each task was executed or cancelled

vars == <<stopping, running, threadStop, threadDone, taskList, eventSet, wpc,
          wtask, dpc, dtask, dmore, ppc, pret, tstate, resolved>>

producerVars == <<ppc, pret>>
destroyVars == <<dpc, dtask, dmore>>
workerVars == <<wpc, wtask>>

\* Whether Thread::Thread started WorkerThread: Thread::Start creates the
\* kernel task, takes a reference and wakes it; when task_create returns
\* null err is E_NO_MEM and no task runs.
StartOutcomes == {TRUE} \cup (IF "TaskCreate" \in Failures THEN {FALSE} ELSE {})

\* Worker::Worker(err): Running is set only when the thread started, and the
\* started thread's Run is at the top of its loop.
Init ==
    /\ stopping = FALSE
    /\ \E started \in StartOutcomes :
          /\ running = started
          /\ wpc = IF started THEN "Loop" ELSE "NoThread"
    /\ threadStop = FALSE
    /\ threadDone = FALSE
    /\ taskList = <<>>
    /\ eventSet = FALSE
    /\ wtask = NoTask
    /\ dpc = "Idle"
    /\ dtask = NoTask
    /\ dmore = FALSE
    /\ ppc = [p \in Producers |-> "Idle"]
    /\ pret = [p \in Producers |-> FALSE]
    /\ tstate = [t \in Producers |-> "New"]
    /\ resolved = [t \in Producers |-> 0]

-----------------------------------------------------------------------------
(* Producers: ExecuteAndWait.                                              *)

Call(p) ==
    /\ ppc[p] = "Idle"
    /\ ppc' = [ppc EXCEPT ![p] = "Check"]
    /\ UNCHANGED <<stopping, running, threadStop, threadDone, taskList,
                   eventSet, workerVars, destroyVars, pret, tstate, resolved>>

\* Execute's first test, read without the lock.
ExecCheck(p) ==
    /\ ppc[p] = "Check"
    /\ ppc' = [ppc EXCEPT ![p] = IF stopping \/ ~running THEN "Done" ELSE "Lock"]
    /\ UNCHANGED <<stopping, running, threadStop, threadDone, taskList,
                   eventSet, workerVars, destroyVars, pret, tstate, resolved>>

\* Mutant of ExecLocked: the test is not repeated under the lock.
ExecLockedNoRecheck(p) ==
    /\ ppc[p] = "Lock"
    /\ taskList' = Append(taskList, p)
    /\ tstate' = [tstate EXCEPT ![p] = "Queued"]
    /\ eventSet' = TRUE
    /\ pret' = [pret EXCEPT ![p] = TRUE]
    /\ ppc' = [ppc EXCEPT ![p] = "Wait"]
    /\ UNCHANGED <<stopping, running, threadStop, threadDone, workerVars,
                   destroyVars, resolved>>

\* Under the lock: test again, append the task and set TaskEvent (also when
\* the append failed).
ExecLocked(p) ==
    /\ ppc[p] = "Lock"
    /\ \/ /\ stopping \/ ~running
          /\ ppc' = [ppc EXCEPT ![p] = "Done"]
          /\ UNCHANGED <<taskList, tstate, eventSet, pret>>
       \/ /\ ~stopping /\ running
          /\ taskList' = Append(taskList, p)
          /\ tstate' = [tstate EXCEPT ![p] = "Queued"]
          /\ eventSet' = TRUE
          /\ pret' = [pret EXCEPT ![p] = TRUE]
          /\ ppc' = [ppc EXCEPT ![p] = "Wait"]
       \/ /\ ~stopping /\ running
          /\ "AddTail" \in Failures
          /\ eventSet' = TRUE
          /\ ppc' = [ppc EXCEPT ![p] = "Done"]
          /\ UNCHANGED <<taskList, tstate, pret>>
    /\ UNCHANGED <<stopping, running, threadStop, threadDone, workerVars,
                   destroyVars, resolved>>

\* task->Wait() returns once the task was executed or cancelled.
WaitTask(p) ==
    /\ ppc[p] = "Wait"
    /\ tstate[p] \in {"Executed", "Cancelled"}
    /\ ppc' = [ppc EXCEPT ![p] = "Done"]
    /\ UNCHANGED <<stopping, running, threadStop, threadDone, taskList,
                   eventSet, workerVars, destroyVars, pret, tstate, resolved>>

-----------------------------------------------------------------------------
(* The worker thread: Worker::Run, then Thread::ExecuteRoutine sets        *)
(* CompEvent.                                                              *)

RunLoop ==
    /\ wpc = "Loop"
    /\ wpc' = IF threadStop THEN "Exit" ELSE "Wait"
    /\ UNCHANGED <<stopping, running, threadStop, threadDone, taskList,
                   eventSet, wtask, destroyVars, producerVars, tstate, resolved>>

\* Run has returned: Thread::ExecuteRoutine sets CompEvent for every waiter.
ThreadExit ==
    /\ wpc = "Exit"
    /\ threadDone' = TRUE
    /\ wpc' = "Done"
    /\ UNCHANGED <<stopping, running, threadStop, taskList, eventSet, wtask,
                   destroyVars, producerVars, tstate, resolved>>

RunWait ==
    /\ wpc = "Wait"
    /\ eventSet
    /\ eventSet' = FALSE
    /\ wpc' = "Take"
    /\ UNCHANGED <<stopping, running, threadStop, threadDone, taskList, wtask,
                   destroyVars, producerVars, tstate, resolved>>

\* Mutant of RunTake: the head task is taken but not popped.
RunTakeNoPop ==
    /\ wpc = "Take"
    /\ \/ /\ taskList # <<>>
          /\ wtask' = Head(taskList)
          /\ wpc' = "Exec"
       \/ /\ taskList = <<>>
          /\ wpc' = "Loop"
          /\ UNCHANGED wtask
    /\ UNCHANGED <<stopping, running, threadStop, threadDone, eventSet,
                   taskList, destroyVars, producerVars, tstate, resolved>>

\* Under the lock: pop the head task, if any.
RunTake ==
    /\ wpc = "Take"
    /\ \/ /\ taskList # <<>>
          /\ wtask' = Head(taskList)
          /\ taskList' = Tail(taskList)
          /\ wpc' = "Exec"
       \/ /\ taskList = <<>>
          /\ wpc' = "Loop"
          /\ UNCHANGED <<wtask, taskList>>
    /\ UNCHANGED <<stopping, running, threadStop, threadDone, eventSet,
                   destroyVars, producerVars, tstate, resolved>>

RunExec ==
    /\ wpc = "Exec"
    /\ tstate' = [tstate EXCEPT ![wtask] = "Executed"]
    /\ resolved' = [resolved EXCEPT ![wtask] = @ + 1]
    /\ wtask' = NoTask
    /\ wpc' = "Loop"
    /\ UNCHANGED <<stopping, running, threadStop, threadDone, taskList,
                   eventSet, destroyVars, producerVars>>

-----------------------------------------------------------------------------
(* ~Worker.                                                                *)

DStop ==
    /\ dpc = "Idle"
    /\ stopping' = TRUE
    /\ dpc' = IF running THEN "ThreadStop" ELSE "Done"
    /\ UNCHANGED <<running, threadStop, threadDone, taskList, eventSet,
                   workerVars, dtask, dmore, producerVars, tstate, resolved>>

DThreadStop ==
    /\ dpc = "ThreadStop"
    /\ threadStop' = TRUE
    /\ dpc' = "Set"
    /\ UNCHANGED <<stopping, running, threadDone, taskList, eventSet,
                   workerVars, dtask, dmore, producerVars, tstate, resolved>>

\* Mutant of DSet: the destructor does not set TaskEvent.
DSetSkipped ==
    /\ dpc = "Set"
    /\ dpc' = "Join"
    /\ UNCHANGED <<stopping, running, threadStop, threadDone, taskList,
                   eventSet, workerVars, dtask, dmore, producerVars, tstate,
                   resolved>>

DSet ==
    /\ dpc = "Set"
    /\ eventSet' = TRUE
    /\ dpc' = "Join"
    /\ UNCHANGED <<stopping, running, threadStop, threadDone, taskList,
                   workerVars, dtask, dmore, producerVars, tstate, resolved>>

DJoin ==
    /\ dpc = "Join"
    /\ threadDone
    /\ dpc' = "Drain"
    /\ UNCHANGED <<stopping, running, threadStop, threadDone, taskList,
                   eventSet, workerVars, dtask, dmore, producerVars, tstate,
                   resolved>>

\* Mutant of DDrain: bHasTasks is not recomputed after the pop, so the loop
\* ends after the first task.
DDrainOnce ==
    /\ dpc = "Drain"
    /\ \/ /\ taskList # <<>>
          /\ dtask' = Head(taskList)
          /\ taskList' = Tail(taskList)
       \/ /\ taskList = <<>>
          /\ dtask' = NoTask
          /\ UNCHANGED taskList
    /\ dmore' = FALSE
    /\ dpc' = "Cancel"
    /\ UNCHANGED <<stopping, running, threadStop, threadDone, eventSet,
                   workerVars, producerVars, tstate, resolved>>

\* One round of the drain loop under the lock: pop the head task, and
\* bHasTasks says whether more are left after the pop.
DDrain ==
    /\ dpc = "Drain"
    /\ \/ /\ taskList # <<>>
          /\ dtask' = Head(taskList)
          /\ taskList' = Tail(taskList)
          /\ dmore' = (Tail(taskList) # <<>>)
       \/ /\ taskList = <<>>
          /\ dtask' = NoTask
          /\ dmore' = FALSE
          /\ UNCHANGED taskList
    /\ dpc' = "Cancel"
    /\ UNCHANGED <<stopping, running, threadStop, threadDone, eventSet,
                   workerVars, producerVars, tstate, resolved>>

\* task->Cancel() outside the lock; loop while bHasTasks.
DCancel ==
    /\ dpc = "Cancel"
    /\ \/ /\ dtask # NoTask
          /\ tstate' = [tstate EXCEPT ![dtask] = "Cancelled"]
          /\ resolved' = [resolved EXCEPT ![dtask] = @ + 1]
       \/ /\ dtask = NoTask
          /\ UNCHANGED <<tstate, resolved>>
    /\ dtask' = NoTask
    /\ dpc' = IF dmore THEN "Drain" ELSE "Done"
    /\ UNCHANGED <<stopping, running, threadStop, threadDone, taskList,
                   eventSet, workerVars, dmore, producerVars>>

-----------------------------------------------------------------------------
Finished ==
    /\ dpc = "Done" /\ wpc \in {"Done", "NoThread"}
    /\ \A p \in Producers : ppc[p] = "Done"

ProducerNext(p) == Call(p) \/ ExecCheck(p) \/ ExecLocked(p) \/ WaitTask(p)

WorkerNext == RunLoop \/ RunWait \/ RunTake \/ RunExec \/ ThreadExit

DestroyNext == DStop \/ DThreadStop \/ DSet \/ DJoin \/ DDrain \/ DCancel

Next ==
    \/ \E p \in Producers : ProducerNext(p)
    \/ WorkerNext
    \/ DestroyNext
    \/ Finished /\ UNCHANGED vars

\* The worker thread and a thread inside Execute or ~Worker keep running;
\* calling ExecuteAndWait and destroying the Worker are the owner's choice.
Fairness ==
    /\ WF_vars(WorkerNext)
    /\ WF_vars(DThreadStop \/ DSet \/ DJoin \/ DDrain \/ DCancel)
    /\ \A p \in Producers : WF_vars(ExecCheck(p) \/ ExecLocked(p) \/ WaitTask(p))

Spec == Init /\ [][Next]_vars /\ Fairness

-----------------------------------------------------------------------------
\* Once ~Worker has finished, no task is left in TaskList or still queued:
\* a producer that passed Execute's unlocked test before Stopping was set
\* either queued its task before the drain or is refused by the test under
\* the lock, and the drain loop empties the list.
NoTaskStranded ==
    dpc = "Done" =>
        /\ taskList = <<>>
        /\ \A t \in Producers : tstate[t] # "Queued"

\* A task is executed or cancelled at most once, never both.
TaskResolvedOnce ==
    \A t \in Producers : resolved[t] <= 1

\* Once ~Worker has begun, every producer waiting in ExecuteAndWait returns:
\* a task queued behind a TaskEvent signal that Run already consumed (two
\* Executes before one wake-up) is run after the destructor's Set or is
\* cancelled by its drain, and no task is left for nobody to resolve.
WaitersReturnOnDestroy ==
    \A p \in Producers : (ppc[p] = "Wait" /\ dpc # "Idle") ~> ppc[p] = "Done"

\* ~Worker returns: the worker thread it joins leaves TaskEvent.Wait.
DestroyReturns ==
    dpc # "Idle" ~> dpc = "Done"

=============================================================================
