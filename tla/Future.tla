------------------------------- MODULE Future -------------------------------
(***************************************************************************)
(* The future of a task, stdlib/public/Concurrency/Task.cpp: tasks that    *)
(* wait for its result push themselves on a lock-free list, which the task *)
(* takes when it completes.  The task is either one that its waiters hold  *)
(* references to, or the child of an async let (AsyncLet.cpp), which lives *)
(* in memory of its parent: there the parent is the only waiter, takes the *)
(* result into a buffer, and frees the child when it leaves the scope.     *)
(* Threads that cancel or escalate a waiter follow its records to the task.*)
(***************************************************************************)
EXTENDS Integers, Sequences, FiniteSets

CONSTANTS
  Waiters,
  Parent,     \* the waiter that may have an async let
  Visitors,   \* threads that cancel or escalate waiters
  NoVisitor,
  MaxWaits,   \* bound: waits of one waiter for the task
  MaxGets     \* bound: times the parent asks for the result of the async let

ASSUME ParentAssumption  == Parent \in Waiters
ASSUME VisitorAssumption == NoVisitor \notin Visitors
ASSUME WaitersAssumption == IsFiniteSet(Waiters)

VARIABLES
  kind,         \* "handle" or "asyncLet"
  throws,       \* may the task end with an error
  queue,        \* FutureFragment::waitQueue: a status and a list of tasks
  alive, refs,  \* the memory of the task, and the references to it
  cancelled,    \* the task was cancelled
  cpc, waking,  \* what the task does after its body, the waiters it still has to wake
  wpc, op,      \* what a waiter does, and for which operation
  seen,         \* seen[w]: the queue as w loaded it
  result,       \* result[w]: what its wait has got
  waits,
  depends,      \* depends[w]: its dependency record names the task
  childRecord,  \* the async let is among the status records of the parent
  hasResult,    \* the flag of the async let
  buffer,       \* how often its result buffer was initialised, and destroyed
  lock,         \* lock[w]: the visitor that holds the record lock of w
  visited       \* the visitors that are done

taskVars   == <<alive, refs, cancelled, cpc, waking>>
waiterVars == <<wpc, op, seen, result, waits>>
letVars    == <<childRecord, hasResult, buffer>>
visitVars  == <<lock, visited>>
vars == <<kind, throws, queue, taskVars, waiterVars, depends, letVars, visitVars>>

AsyncLet == kind = "asyncLet"

Init ==
  /\ kind \in {"handle", "asyncLet"} /\ throws \in BOOLEAN
  /\ queue = [status |-> "Executing", tasks |-> <<>>]
  /\ alive = TRUE /\ cancelled = FALSE
  /\ refs = IF AsyncLet THEN 0 ELSE 1 + Cardinality(Waiters)
  /\ cpc = "running" /\ waking = <<>>
  /\ wpc = [w \in Waiters |-> IF AsyncLet /\ w # Parent THEN "over" ELSE "idle"]
  /\ op = [w \in Waiters |-> "none"]
  /\ seen = [w \in Waiters |-> queue]
  /\ result = [w \in Waiters |-> "none"]
  /\ waits = [w \in Waiters |-> 0]
  /\ depends = [w \in Waiters |-> FALSE]
  /\ childRecord = AsyncLet /\ hasResult = FALSE
  /\ buffer = [initialised |-> 0, destroyed |-> 0]
  /\ lock = [w \in Waiters |-> NoVisitor] /\ visited = {}

-----------------------------------------------------------------------------
(* Steps of several operations.  Definitions named ...Mutant are the       *)
(* definition that follows them with a plausible bug.                      *)

At(w, where) == wpc[w] = where
Goto(w, where) == wpc' = [wpc EXCEPT ![w] = where]
Unlocked(w) == lock[w] = NoVisitor

Wait(w, what) ==
  /\ op' = [op EXCEPT ![w] = what]
  /\ result' = [result EXCEPT ![w] = "none"]
  /\ Goto(w, "load")

(* The result is copied out of the future.                                 *)
Deliver(w, r) ==
  /\ result' = [result EXCEPT ![w] = r]
  /\ buffer' = IF AsyncLet /\ r = "Success"
               THEN [buffer EXCEPT !.initialised = @ + 1] ELSE buffer

DestroyResult == buffer' = [buffer EXCEPT !.destroyed = @ + 1]

Release ==
  /\ refs' = refs - 1
  /\ alive' = (refs > 1)

-----------------------------------------------------------------------------
(* What a waiter may do: wait for the value of a task ...                  *)

Await(w) ==
  /\ ~ AsyncLet /\ At(w, "idle") /\ waits[w] < MaxWaits
  /\ waits' = [waits EXCEPT ![w] = @ + 1]
  /\ Wait(w, "value")
  /\ UNCHANGED <<kind, throws, queue, taskVars, seen, depends, letVars, visitVars>>

DropHandle(w) ==
  /\ ~ AsyncLet /\ At(w, "idle")
  /\ Release
  /\ Goto(w, "over")
  /\ UNCHANGED <<kind, throws, queue, cancelled, cpc, waking, op, seen, result, waits,
                 depends, letVars, visitVars>>

(* ... or, in the parent of an async let, get the result (there is nothing *)
(* to do when the buffer has it already).  An async let that cannot throw  *)
(* sets the flag before it waits.                                          *)
Get ==
  /\ AsyncLet /\ At(Parent, "idle") /\ ~ hasResult /\ waits[Parent] < MaxGets
  /\ waits' = [waits EXCEPT ![Parent] = @ + 1]
  /\ hasResult' = ~ throws
  /\ Wait(Parent, "get")
  /\ UNCHANGED <<kind, throws, queue, taskVars, seen, depends, childRecord, buffer, visitVars>>

FinishMutant ==        \* does not wait for the task it cancels
  /\ AsyncLet /\ At(Parent, "idle")
  /\ IF hasResult THEN DestroyResult /\ UNCHANGED cancelled
     ELSE cancelled' = TRUE /\ UNCHANGED buffer
  /\ Goto(Parent, "cleanUp") /\ op' = [op EXCEPT ![Parent] = "finish"]
  /\ UNCHANGED <<kind, throws, queue, alive, refs, cpc, waking, seen, result, waits, depends,
                 childRecord, hasResult, visitVars>>

(* Leaving the scope: destroy the result, or cancel the task and wait.     *)
Finish ==
  /\ AsyncLet /\ At(Parent, "idle")
  /\ IF hasResult
     THEN /\ DestroyResult
          /\ Goto(Parent, "cleanUp") /\ op' = [op EXCEPT ![Parent] = "finish"]
          /\ UNCHANGED <<cancelled, result>>
     ELSE /\ cancelled' = TRUE
          /\ Wait(Parent, "finish")
          /\ UNCHANGED buffer
  /\ UNCHANGED <<kind, throws, queue, alive, refs, cpc, waking, seen, waits, depends,
                 childRecord, hasResult, visitVars>>

(* Leaving the scope while moving the result out of the buffer.            *)
Consume ==
  /\ AsyncLet /\ At(Parent, "idle")
  /\ IF hasResult
     THEN Goto(Parent, "cleanUp") /\ op' = [op EXCEPT ![Parent] = "consume"] /\ UNCHANGED result
     ELSE Wait(Parent, "consume")
  /\ UNCHANGED <<kind, throws, queue, taskVars, seen, waits, depends, letVars, visitVars>>

-----------------------------------------------------------------------------
(* waitFuture                                                              *)

Load(w) ==
  /\ At(w, "load")
  /\ seen' = [seen EXCEPT ![w] = queue]
  /\ Goto(w, IF queue.status = "Executing" THEN "suspend" ELSE "completed")
  /\ UNCHANGED <<kind, throws, queue, taskVars, op, result, waits, depends, letVars, visitVars>>

(* flagAsSuspendedOnTask adds a record, so it waits for the record lock.   *)
Suspend(w) ==
  /\ At(w, "suspend") /\ Unlocked(w)
  /\ depends' = [depends EXCEPT ![w] = TRUE]
  /\ Goto(w, "push")
  /\ UNCHANGED <<kind, throws, queue, taskVars, op, seen, result, waits, letVars, visitVars>>

PushMutant(w) ==       \* a plain store
  /\ At(w, "push")
  /\ queue' = [queue EXCEPT !.tasks = <<w>> \o seen[w].tasks]
  /\ Goto(w, "parked")
  /\ UNCHANGED <<kind, throws, taskVars, op, seen, result, waits, depends, letVars, visitVars>>

PushAnywayMutant(w) == \* retries without looking at the status
  /\ At(w, "push")
  /\ queue' = [queue EXCEPT !.tasks = <<w>> \o @]
  /\ Goto(w, "parked")
  /\ UNCHANGED <<kind, throws, taskVars, op, seen, result, waits, depends, letVars, visitVars>>

Push(w) ==
  /\ At(w, "push") /\ queue = seen[w]
  /\ queue' = [queue EXCEPT !.tasks = <<w>> \o @]
  /\ Goto(w, "parked")
  /\ UNCHANGED <<kind, throws, taskVars, op, seen, result, waits, depends, letVars, visitVars>>

Retry(w) ==
  /\ At(w, "push") /\ queue # seen[w]
  /\ seen' = [seen EXCEPT ![w] = queue]
  /\ Goto(w, IF queue.status = "Executing" THEN "push" ELSE "unsuspend")
  /\ UNCHANGED <<kind, throws, queue, taskVars, op, result, waits, depends, letVars, visitVars>>

(* flagAsRunning removes the record again.                                 *)
Unsuspend(w) ==
  /\ At(w, "unsuspend") /\ Unlocked(w)
  /\ depends' = [depends EXCEPT ![w] = FALSE]
  /\ Goto(w, "completed")
  /\ UNCHANGED <<kind, throws, queue, taskVars, op, seen, result, waits, letVars, visitVars>>

(* swift_task_future_wait copies the result of a completed task itself.    *)
Completed(w) ==
  /\ At(w, "completed")
  /\ Deliver(w, queue.status)
  /\ Goto(w, "returned")
  /\ UNCHANGED <<kind, throws, queue, taskVars, op, seen, waits, depends, childRecord,
                 hasResult, visitVars>>

(* The executor runs a waiter that was woken.                              *)
Resume(w) ==
  /\ At(w, "enqueued") /\ Unlocked(w)
  /\ Goto(w, "returned")
  /\ UNCHANGED <<kind, throws, queue, taskVars, op, seen, result, waits, depends, letVars,
                 visitVars>>

-----------------------------------------------------------------------------
(* The continuation of the operation that waited.                          *)

ReturnFromGetMutant ==       \* sets the flag although there is an error
  /\ At(Parent, "returned") /\ op[Parent] = "get"
  /\ hasResult' = TRUE
  /\ Goto(Parent, "idle")
  /\ UNCHANGED <<kind, throws, queue, taskVars, op, seen, result, waits, depends,
                 childRecord, buffer, visitVars>>

ReturnFromGet ==
  /\ At(Parent, "returned") /\ op[Parent] = "get"
  /\ hasResult' = (hasResult \/ result[Parent] = "Success")
  /\ Goto(Parent, "idle")
  /\ UNCHANGED <<kind, throws, queue, taskVars, op, seen, result, waits, depends,
                 childRecord, buffer, visitVars>>

ReturnFromFinish ==
  /\ At(Parent, "returned") /\ op[Parent] = "finish"
  /\ IF result[Parent] = "Success" THEN DestroyResult ELSE UNCHANGED buffer
  /\ Goto(Parent, "cleanUp")
  /\ UNCHANGED <<kind, throws, queue, taskVars, op, seen, result, waits, depends,
                 childRecord, hasResult, visitVars>>

Return(w) ==
  /\ At(w, "returned") /\ op[w] \in {"value", "consume"}
  /\ Goto(w, IF op[w] = "value" THEN "idle" ELSE "cleanUp")
  /\ UNCHANGED <<kind, throws, queue, taskVars, op, seen, result, waits, depends, letVars,
                 visitVars>>

(* asyncLet_finish_after_task_completion                                   *)
RemoveRecord ==
  /\ At(Parent, "cleanUp") /\ Unlocked(Parent)
  /\ childRecord' = FALSE
  /\ Goto(Parent, "destroy")
  /\ UNCHANGED <<kind, throws, queue, taskVars, op, seen, result, waits, depends,
                 hasResult, buffer, visitVars>>

Destroy ==
  /\ At(Parent, "destroy")
  /\ alive' = FALSE
  /\ Goto(Parent, "over")
  /\ UNCHANGED <<kind, throws, queue, refs, cancelled, cpc, waking, op, seen, result, waits,
                 depends, letVars, visitVars>>

-----------------------------------------------------------------------------
(* completeFuture, once the body of the task has ended.                    *)

Complete ==
  /\ cpc = "running"
  /\ \E r \in IF throws THEN {"Success", "Error"} ELSE {"Success"} :
       queue' = [status |-> r, tasks |-> <<>>]
  /\ waking' = queue.tasks
  /\ cpc' = "group"
  /\ UNCHANGED <<kind, throws, alive, refs, cancelled, waiterVars, depends, letVars, visitVars>>

(* It looks whether the task is the child of a group, here it is not.  The *)
(* flags it reads are those of a task that may be gone by now.             *)
CheckGroup ==
  /\ cpc = "group"
  /\ cpc' = "wake"
  /\ UNCHANGED <<kind, throws, queue, alive, refs, cancelled, waking, waiterVars, depends,
                 letVars, visitVars>>

FillMutant ==          \* an error is not filled in
  /\ cpc = "wake" /\ waking # <<>>
  /\ Deliver(Head(waking), "Success")
  /\ cpc' = "enqueue"
  /\ UNCHANGED <<kind, throws, queue, alive, refs, cancelled, waking, wpc, op, seen, waits,
                 depends, childRecord, hasResult, visitVars>>

Fill ==
  /\ cpc = "wake" /\ waking # <<>>
  /\ Deliver(Head(waking), queue.status)
  /\ cpc' = "enqueue"
  /\ UNCHANGED <<kind, throws, queue, alive, refs, cancelled, waking, wpc, op, seen, waits,
                 depends, childRecord, hasResult, visitVars>>

(* flagAsAndEnqueueOnExecutor: the record now names the executor.          *)
EnqueueWaiter ==
  /\ cpc = "enqueue" /\ Unlocked(Head(waking))
  /\ depends' = [depends EXCEPT ![Head(waking)] = FALSE]
  /\ Goto(Head(waking), "enqueued")
  /\ waking' = Tail(waking)
  /\ cpc' = "wake"
  /\ UNCHANGED <<kind, throws, queue, alive, refs, cancelled, op, seen, result, waits,
                 letVars, visitVars>>

EndOfTaskMutant ==     \* keeps the reference of the running task
  /\ cpc = "wake" /\ waking = <<>>
  /\ cpc' = "done"
  /\ UNCHANGED <<kind, throws, queue, alive, refs, cancelled, waking, waiterVars, depends,
                 letVars, visitVars>>

(* completeTaskAndRelease; completeTask of an async let releases nothing.  *)
EndOfTask ==
  /\ cpc = "wake" /\ waking = <<>>
  /\ IF AsyncLet THEN UNCHANGED <<alive, refs>> ELSE Release
  /\ cpc' = "done"
  /\ UNCHANGED <<kind, throws, queue, cancelled, waking, waiterVars, depends, letVars,
                 visitVars>>

-----------------------------------------------------------------------------
(* A canceller or an escalator of w that holds its record lock comes to    *)
(* the task, through the record of the async let or of the dependency.     *)
NamesTask(w) == depends[w] \/ (childRecord /\ w = Parent)

LockRecords(v, w) ==
  /\ v \notin visited /\ \A u \in Waiters : lock[u] # v
  /\ Unlocked(w) /\ NamesTask(w)
  /\ lock' = [lock EXCEPT ![w] = v]
  /\ UNCHANGED <<kind, throws, queue, taskVars, waiterVars, depends, letVars, visited>>

VisitTask(v, w) ==
  /\ lock[w] = v
  /\ cancelled' \in {cancelled, cancelled \/ (childRecord /\ w = Parent)}
  /\ lock' = [lock EXCEPT ![w] = NoVisitor]
  /\ visited' = visited \cup {v}
  /\ UNCHANGED <<kind, throws, queue, alive, refs, cpc, waking, waiterVars, depends, letVars>>

-----------------------------------------------------------------------------

WaiterStep(w) ==
  \/ Await(w) \/ DropHandle(w)
  \/ Load(w) \/ Suspend(w) \/ Push(w) \/ Retry(w) \/ Unsuspend(w) \/ Completed(w)
  \/ Resume(w) \/ Return(w)

ParentStep == Get \/ Finish \/ Consume \/ ReturnFromGet \/ ReturnFromFinish
              \/ RemoveRecord \/ Destroy

TaskStep == Complete \/ CheckGroup \/ Fill \/ EnqueueWaiter \/ EndOfTask

VisitorStep(v) == \E w \in Waiters : LockRecords(v, w) \/ VisitTask(v, w)

Next ==
  \/ \E w \in Waiters : WaiterStep(w)
  \/ ParentStep \/ TaskStep
  \/ \E v \in Visitors : VisitorStep(v)

Spec == Init /\ [][Next]_vars

(* Threads run, the body of the task ends, and so does that of a waiter.   *)
Fairness ==
  /\ \A w \in Waiters : WF_vars(WaiterStep(w))
  /\ WF_vars(ParentStep) /\ WF_vars(TaskStep)
  /\ \A v \in Visitors : WF_vars(VisitorStep(v))

FairSpec == Spec /\ Fairness

-----------------------------------------------------------------------------
(* Properties.                                                             *)

(* The task is there for its own thread while it has waiters to wake, for  *)
(* a waiter from its first look at the queue until it has the result, for  *)
(* the parent until it removed the record, and for a visitor that follows  *)
(* a record, in whatever order they come to an end.                        *)
TaskAliveWhileUsed ==
  (\/ queue.status = "Executing" \/ waking # <<>>
   \/ \E w \in Waiters : \/ NamesTask(w) \/ ~ Unlocked(w)
                         \/ wpc[w] \in {"load", "suspend", "push", "unsuspend", "completed"})
  => alive

(* A waiter that went to sleep is on the list once, of the future or of    *)
(* those to be woken; one that saw the completion is on none.              *)
Positions(list, w) == {i \in DOMAIN list : list[i] = w}
ParkedOnce ==
  \A w \in Waiters :
    Cardinality(Positions(queue.tasks, w)) + Cardinality(Positions(waking, w))
      = IF At(w, "parked") THEN 1 ELSE 0

(* Whoever goes on has got the outcome of the task, by whichever way.      *)
OutcomeDelivered ==
  \A w \in Waiters : wpc[w] \in {"enqueued", "returned"} => result[w] = queue.status

(* The result buffer of an async let is initialised at most once, holds    *)
(* the result whenever the parent runs with the flag set, and is destroyed *)
(* exactly if it was initialised when the scope is left.                   *)
BufferSound ==
  AsyncLet =>
    /\ buffer.initialised <= 1 /\ buffer.destroyed <= buffer.initialised
    /\ hasResult /\ At(Parent, "idle") => buffer.initialised = 1 /\ buffer.destroyed = 0
    /\ op[Parent] = "finish" /\ wpc[Parent] \in {"cleanUp", "destroy", "over"}
         => buffer.destroyed = buffer.initialised

(* Every wait ends, once the task has, however it is cancelled or raced.   *)
WaitsEnd ==
  \A w \in Waiters : At(w, "load") ~> At(w, "returned")

(* The task is freed in the end: by the last of those that refer to it, or *)
(* by the parent.                                                          *)
TaskFreed == <>(~ alive)
=============================================================================
