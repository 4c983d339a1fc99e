----------------------------- MODULE TaskStatus -----------------------------
(***************************************************************************)
(* The atomic status word of one Swift task and its list of status         *)
(* records: stdlib/public/Concurrency/{TaskStatus.cpp, TaskPrivate.h} and  *)
(* the continuation part of Task.cpp.                                      *)
(*                                                                         *)
(* The thread that runs the task adds and removes records (cancellation    *)
(* handlers, async-let children, executor preferences, the dependency of a *)
(* suspended task), other threads cancel and escalate the task, and others *)
(* resume the continuation it waits on.  Every load/compare-exchange loop  *)
(* of the code is one action: its last, successful iteration.              *)
(***************************************************************************)
EXTENDS Naturals, Sequences

CONSTANTS
  Handlers,          \* CancellationNotificationStatusRecords of the task
  AsyncLets,         \* ChildTaskStatusRecords: one async-let child each
  Preferences,       \* TaskExecutorPreferenceStatusRecords it pushes
  InitialPreference, \* BOOLEAN: was the task created with a preference?
  Cancellers,        \* threads that call swift_task_cancel
  Escalators,        \* threads that call swift_task_escalate
  Resumers,          \* threads that own the duty to resume continuations
  Task,              \* the thread currently running the task
  NoThread,          \* "no thread holds the status record lock"
  MaxPriority,       \* bound: priorities are 1..MaxPriority
  MaxAwaits          \* bound: continuations awaited, executors switched to

Threads    == {Task} \cup Cancellers \cup Escalators \cup Resumers
Priorities == 1 .. MaxPriority

(* The two records the runtime itself adds. *)
Dependency  == "dependency"
InitialPref == "initialPreference"
Records == Handlers \cup AsyncLets \cup Preferences \cup {Dependency, InitialPref}

ASSUME ThreadsAssumption ==
  /\ Task \notin Cancellers \cup Escalators \cup Resumers
  /\ Cancellers \cap Escalators = {}
  /\ Resumers \cap (Cancellers \cup Escalators) = {}
  /\ NoThread \notin Threads
ASSUME RecordsAssumption ==
  /\ Handlers \cap AsyncLets = {}
  /\ Preferences \cap (Handlers \cup AsyncLets) = {}
  /\ {Dependency, InitialPref} \cap (Handlers \cup AsyncLets \cup Preferences) = {}
  /\ InitialPreference \in BOOLEAN
ASSUME BoundsAssumption ==
  /\ MaxPriority \in Nat \ {0}
  /\ MaxAwaits \in Nat

VARIABLES
  status,   \* ActiveTaskStatus; the lock record is its field "owner"
  phase,    \* what became of each scoped record: "unused" "live" "removed"
  tpc,      \* control state of the thread running the task
  op,       \* the record that thread is adding or removing
  sync,     \* AwaitSynchronization of the current continuation
  held,     \* the current continuation has not been resumed yet
  awaits,   \* how many suspensions so far
  wait,     \* what the dependency record says the task waits on
  queued,   \* is the task in an executor's queue?
  jobPriority, \* the priority in its job flags
  seen,     \* seen[t]: the status priority t loaded before it went on
  rpc,      \* control state of resuming threads
  cpc,      \* control state of cancelling and escalating threads
  want,     \* the priority an escalator asks for
  todo,     \* records a lock holder has still to visit
  calls,    \* calls[h]: how often handler h was started
  child     \* status of the async-let children

Status ==
  [priority: Priorities, cancelled: BOOLEAN, owner: Threads \cup {NoThread},
   escalated: BOOLEAN, running: BOOLEAN, enqueued: BOOLEAN, complete: BOOLEAN,
   dependency: BOOLEAN, preference: BOOLEAN, records: Seq(Records)]

taskVars   == <<phase, tpc, op, awaits>>
waitVars   == <<sync, held, wait, queued, jobPriority, seen, rpc>>
cancelVars == <<cpc, want, todo, calls, child>>
vars == <<status, taskVars, waitVars, cancelVars>>

-----------------------------------------------------------------------------
(* The status word.                                                        *)

(* Definitions named ...Mutant are the definition that follows them with a *)
(* plausible bug; each breaks a property below.                            *)

DowngradeMutant(p) == p - 1
(* withUserInteractivePriorityDowngrade: the top priority is not inherited.*)
Downgrade(p) == IF p = MaxPriority /\ p > 1 THEN p - 1 ELSE p

Locked   == status.owner # NoThread
InList(r) == \E i \in 1 .. Len(status.records) : status.records[i] = r
Innermost(r) == status.records # <<>> /\ Head(status.records) = r

Push(s, r) == [s EXCEPT !.records = <<r>> \o @]
Pop(s)     == [s EXCEPT !.records = Tail(@)]

(* removeStatusRecordLocked cuts the record out wherever it is. *)
Splice(seq, r) ==
  LET i == CHOOSE k \in 1 .. Len(seq) : seq[k] = r
  IN  SubSeq(seq, 1, i - 1) \o SubSeq(seq, i + 1, Len(seq))

(* TaskStatus.cpp, withStatusRecordLock: install a lock record ... *)
Lock(t) == ~ Locked /\ status' = [status EXCEPT !.owner = t]

AsRunningStaleFlagMutant(s) ==
  [s EXCEPT !.running = TRUE, !.escalated = FALSE, !.enqueued = FALSE]
(* withRunning(true), withoutStoredPriorityEscalation, withoutEnqueued and *)
(* withoutTaskDependency: the update of flagAsRunning.                     *)
AsRunning(s) ==
  [s EXCEPT !.running = TRUE, !.escalated = FALSE, !.enqueued = FALSE,
            !.dependency = FALSE]

(* The update of flagAsSuspended, and of flagAsAndEnqueueOnExecutor when   *)
(* the task was running.                                                   *)
AsSuspended(s) ==
  [s EXCEPT !.running = FALSE, !.escalated = FALSE, !.dependency = TRUE]
AsEnqueued(s) == [s EXCEPT !.escalated = FALSE, !.enqueued = TRUE]

AsComplete(s) ==
  [s EXCEPT !.running = FALSE, !.escalated = FALSE, !.enqueued = FALSE,
            !.complete = TRUE]

Init ==
  /\ status = [priority |-> 1, cancelled |-> FALSE, owner |-> NoThread,
               escalated |-> FALSE, running |-> TRUE, enqueued |-> FALSE,
               complete |-> FALSE, dependency |-> FALSE,
               preference |-> InitialPreference,
               records |-> IF InitialPreference THEN <<InitialPref>> ELSE <<>>]
  /\ phase = [r \in Handlers \cup AsyncLets \cup Preferences |-> "unused"]
  /\ tpc = "body" /\ op = Dependency
  /\ sync = "none" /\ held = FALSE /\ awaits = 0
  /\ wait = "nothing" /\ queued = FALSE /\ jobPriority = 1
  /\ seen = [t \in Threads |-> 1]
  /\ rpc = [t \in Cancellers \cup Resumers |-> "idle"]
  /\ cpc = [t \in Cancellers \cup Escalators |-> "idle"]
  /\ want = [e \in Escalators |-> 1]
  /\ todo = [t \in Cancellers \cup Escalators |-> <<>>]
  /\ calls = [h \in Handlers |-> 0]
  /\ child = [a \in AsyncLets |-> [cancelled |-> FALSE, priority |-> 1]]

-----------------------------------------------------------------------------
(* The running task adds and removes records, outside the synchronous      *)
(* closure that receives a continuation.                                   *)
InBody == tpc = "body" /\ sync = "none"

AddHandlerMutant(h) ==      \* never runs the handler itself
  /\ InBody /\ phase[h] = "unused" /\ ~ Locked
  /\ status' = Push(status, h)
  /\ phase' = [phase EXCEPT ![h] = "live"]
  /\ op' = h
  /\ UNCHANGED <<tpc, awaits, waitVars, cancelVars>>

(* swift_task_addCancellationHandlerImpl: the record is always added; the  *)
(* task runs the handler itself if it was already cancelled.               *)
AddHandler(h) ==
  /\ InBody /\ phase[h] = "unused" /\ ~ Locked
  /\ status' = Push(status, h)
  /\ phase' = [phase EXCEPT ![h] = "live"]
  /\ tpc' = IF status.cancelled THEN "fire" ELSE "body"
  /\ op' = h
  /\ UNCHANGED <<awaits, waitVars, cancelVars>>

FireHandlerNow ==
  /\ tpc = "fire"
  /\ calls' = [calls EXCEPT ![op] = @ + 1]
  /\ tpc' = "body"
  /\ UNCHANGED <<status, phase, op, awaits, waitVars, cpc, want, todo, child>>

(* asyncLet_addImpl: the child's status is initialised from the parent     *)
(* status that the successful compare-exchange replaces.                   *)
StartAsyncLet(a) ==
  /\ InBody /\ phase[a] = "unused" /\ ~ Locked
  /\ status' = Push(status, a)
  /\ phase' = [phase EXCEPT ![a] = "live"]
  /\ child' = [child EXCEPT ![a] = [cancelled |-> status.cancelled,
                                    priority  |-> Downgrade(status.priority)]]
  /\ UNCHANGED <<tpc, op, awaits, waitVars, cpc, want, todo, calls>>

PushPreference(p) ==
  /\ InBody /\ phase[p] = "unused" /\ ~ Locked
  /\ status' = [Push(status, p) EXCEPT !.preference = TRUE]
  /\ phase' = [phase EXCEPT ![p] = "live"]
  /\ UNCHANGED <<tpc, op, awaits, waitVars, cancelVars>>

(* Scopes nest, so the innermost record is the next one removed.  Leaving  *)
(* an async let whose result was never taken first cancels the child, then *)
(* waits for it (asyncLet_finish); the wait is not modelled.               *)
LeaveScope(r) ==
  /\ InBody /\ Innermost(r) /\ r \in Handlers \cup AsyncLets
  /\ tpc' = "remove" /\ op' = r
  /\ child' \in IF r \in AsyncLets
                THEN {child, [child EXCEPT ![r].cancelled = TRUE]} ELSE {child}
  /\ UNCHANGED <<status, phase, awaits, waitVars, cpc, want, todo, calls>>

RemoveInnermostMutant ==    \* does not wait for the record lock
  /\ tpc = "remove" /\ Innermost(op)
  /\ status' = Pop(status)
  /\ phase' = [phase EXCEPT ![op] = "removed"]
  /\ tpc' = "body"
  /\ UNCHANGED <<op, awaits, waitVars, cancelVars>>

(* removeStatusRecord, case 2: a compare-exchange pops an innermost record *)
(* of an unlocked list; the record is then deallocated.                    *)
RemoveInnermost ==
  /\ tpc = "remove" /\ ~ Locked /\ Innermost(op)
  /\ status' = Pop(status)
  /\ phase' = [phase EXCEPT ![op] = "removed"]
  /\ tpc' = "body"
  /\ UNCHANGED <<op, awaits, waitVars, cancelVars>>

(* removeStatusRecordWhere and dropInitialTaskExecutorPreferenceRecord     *)
(* take the lock to cut a record out.  The first clears the flag when it   *)
(* counted one preference record, the second never does.                   *)
LockToSplice(r) ==
  /\ InBody /\ Innermost(r)
  /\ r \in Preferences \cup {InitialPref}
  /\ Lock(Task)
  /\ tpc' = "splice" /\ op' = r
  /\ UNCHANGED <<phase, awaits, waitVars, cancelVars>>

PreferenceCount ==
  LET isPreference(r) == r \in Preferences \cup {InitialPref}
  IN  Len(SelectSeq(status.records, isPreference))

SpliceAndUnlock ==
  /\ tpc = "splice"
  /\ status' = [status EXCEPT
       !.records = Splice(@, op),
       !.owner = NoThread,
       !.preference = @ /\ (op = InitialPref \/ PreferenceCount # 1)]
  /\ phase' = IF op = InitialPref THEN phase
              ELSE [phase EXCEPT ![op] = "removed"]
  /\ tpc' = IF op = InitialPref THEN "completing" ELSE "body"
  /\ UNCHANGED <<op, awaits, waitVars, cancelVars>>

-----------------------------------------------------------------------------
(* Suspending, enqueueing, running and completing.                         *)

(* swift_continuation_init. *)
InitContinuation ==
  /\ InBody /\ awaits < MaxAwaits
  /\ sync' = "Pending" /\ held' = TRUE /\ awaits' = awaits + 1
  /\ UNCHANGED <<status, phase, tpc, op, wait, queued, jobPriority, seen, rpc,
                 cancelVars>>

(* ... with the preawaited flag: suspended before the closure runs. *)
InitPreawaited ==
  /\ InBody /\ ~ Locked /\ awaits < MaxAwaits
  /\ status' = AsSuspended(Push(status, Dependency))
  /\ sync' = "Awaited" /\ held' = TRUE /\ wait' = "continuation"
  /\ tpc' = "parked" /\ awaits' = awaits + 1
  /\ UNCHANGED <<phase, op, queued, jobPriority, seen, rpc, cancelVars>>

(* swift_continuation_await, already resumed: go on at once. *)
AwaitResumed ==
  /\ tpc = "body" /\ sync = "Resumed"
  /\ sync' = "none"
  /\ UNCHANGED <<status, taskVars, held, wait, queued, jobPriority, seen, rpc,
                 cancelVars>>

(* ... still pending: flagAsSuspendedOnContinuation ... *)
SuspendOnContinuation ==
  /\ tpc = "body" /\ sync = "Pending" /\ ~ Locked
  /\ status' = AsSuspended(Push(status, Dependency))
  /\ wait' = "continuation"
  /\ tpc' = "suspended"
  /\ UNCHANGED <<phase, op, awaits, sync, held, queued, jobPriority, seen, rpc,
                 cancelVars>>

(* ... then publish the wait, unless it was resumed in between. *)
PublishAwait ==
  /\ tpc = "suspended" /\ sync = "Pending"
  /\ sync' = "Awaited" /\ tpc' = "parked"
  /\ UNCHANGED <<status, phase, op, awaits, held, wait, queued, jobPriority,
                 seen, rpc, cancelVars>>

(* flagAsRunning: pop the dependency record and take the drain lock. *)
FlagAsRunning ==
  /\ ~ Locked /\ Innermost(Dependency)
  /\ status' = AsRunning(Pop(status))
  /\ wait' = "nothing" /\ sync' = "none" /\ tpc' = "body"
  /\ UNCHANGED <<phase, op, awaits, held, queued, jobPriority, seen, rpc,
                 cancelVars>>

ResumeWithoutEnqueue == tpc = "suspended" /\ sync = "Resumed" /\ FlagAsRunning

(* flagAsAndEnqueueOnExecutor of a running task (swift_task_switch). *)
SwitchExecutor ==
  /\ InBody /\ ~ Locked /\ awaits < MaxAwaits
  /\ awaits' = awaits + 1
  /\ status' = AsEnqueued(AsSuspended(Push(status, Dependency)))
  /\ wait' = "executor"
  /\ seen' = [seen EXCEPT ![Task] = status.priority]
  /\ tpc' = "enqueue"
  /\ UNCHANGED <<phase, op, sync, held, queued, jobPriority, rpc, cancelVars>>

EnqueueSelf ==
  /\ tpc = "enqueue"
  /\ jobPriority' = seen[Task] /\ queued' = TRUE
  /\ tpc' = "parked"
  /\ UNCHANGED <<status, phase, op, awaits, sync, held, wait, seen, rpc,
                 cancelVars>>

(* An executor thread takes the job and runs the task. *)
Dequeue ==
  /\ tpc = "parked" /\ queued
  /\ queued' = FALSE /\ tpc' = "start"
  /\ UNCHANGED <<status, phase, op, awaits, sync, held, wait, jobPriority, seen,
                 rpc, cancelVars>>

Start == tpc = "start" /\ FlagAsRunning

(* The body returns once its scopes are closed; PrivateStorage::complete   *)
(* drops an initial preference first (LockToSplice).                       *)
Return ==
  /\ InBody /\ status.records = <<>>
  /\ tpc' = "completing"
  /\ UNCHANGED <<status, phase, op, awaits, waitVars, cancelVars>>

Complete ==
  /\ tpc = "completing"
  /\ status' = AsComplete(status)
  /\ tpc' = "done"
  /\ UNCHANGED <<phase, op, awaits, waitVars, cancelVars>>

-----------------------------------------------------------------------------
(* Resuming a continuation: resumeTaskAfterContinuation.  A resumer does   *)
(* it on its own, a canceller from inside a cancellation handler, while it *)
(* holds the record lock of the task.                                      *)

MayResume(t) ==
  /\ held /\ rpc[t] = "idle"
  /\ t \in Cancellers => cpc[t] = "handler"

ResumePendingMutant(t) ==   \* goes on to enqueue after the exchange succeeded
  /\ MayResume(t) /\ sync = "Pending"
  /\ sync' = "Resumed" /\ held' = FALSE
  /\ rpc' = [rpc EXCEPT ![t] = "lock"]
  /\ UNCHANGED <<status, taskVars, wait, queued, jobPriority, seen, cancelVars>>

ResumePending(t) ==
  /\ MayResume(t) /\ sync = "Pending"
  /\ sync' = "Resumed" /\ held' = FALSE
  /\ UNCHANGED <<status, taskVars, wait, queued, jobPriority, seen, rpc,
                 cancelVars>>

ResumeAwaitedMutant(t) ==   \* waits for the lock even if it owns it
  /\ MayResume(t) /\ sync = "Awaited"
  /\ held' = FALSE
  /\ seen' = [seen EXCEPT ![t] = status.priority]
  /\ rpc' = [rpc EXCEPT ![t] = "lock"]
  /\ UNCHANGED <<status, taskVars, sync, wait, queued, jobPriority, cancelVars>>

(* Awaited: flagAsAndEnqueueOnExecutor loads the status ... *)
ResumeAwaited(t) ==
  /\ MayResume(t) /\ sync = "Awaited"
  /\ held' = FALSE
  /\ seen' = [seen EXCEPT ![t] = status.priority]
  /\ rpc' = [rpc EXCEPT ![t] = IF status.owner = t THEN "update" ELSE "lock"]
  /\ UNCHANGED <<status, taskVars, sync, wait, queued, jobPriority, cancelVars>>

(* ... and updateStatusRecord edits the dependency record under the lock,  *)
(* which a canceller already owns and keeps.                               *)
ResumeLock(t) ==
  /\ rpc[t] = "lock" /\ Lock(t)
  /\ rpc' = [rpc EXCEPT ![t] = "update"]
  /\ UNCHANGED <<taskVars, sync, held, wait, queued, jobPriority, seen,
                 cancelVars>>

ResumeUpdate(t) ==
  /\ rpc[t] = "update"
  /\ wait' = "executor"
  /\ status' = [AsEnqueued(status) EXCEPT
                  !.owner = IF t \in Resumers THEN NoThread ELSE @]
  /\ rpc' = [rpc EXCEPT ![t] = "enqueue"]
  /\ UNCHANGED <<taskVars, sync, held, queued, jobPriority, seen, cancelVars>>

ResumeEnqueue(t) ==
  /\ rpc[t] = "enqueue"
  /\ jobPriority' = seen[t] /\ queued' = TRUE
  /\ rpc' = [rpc EXCEPT ![t] = "idle"]
  /\ UNCHANGED <<status, taskVars, sync, held, wait, seen, cancelVars>>

-----------------------------------------------------------------------------
(* Cancelling and escalating.                                              *)

HasRecordMutant == ~ Locked /\ status.records # <<>>
HasRecord == Locked \/ status.records # <<>>

(* swift_task_cancelImpl: the bit is set even while the list is locked. *)
Cancel(c) ==
  /\ cpc[c] = "idle" /\ ~ status.cancelled
  /\ status' = [status EXCEPT !.cancelled = TRUE]
  /\ cpc' = [cpc EXCEPT ![c] = IF HasRecord THEN "lock" ELSE "idle"]
  /\ UNCHANGED <<taskVars, waitVars, want, todo, calls, child>>

(* swift_task_escalateImpl. *)
Escalate(e, p) ==
  /\ cpc[e] = "idle" /\ status.priority < p
  /\ status.running \/ status.enqueued \/ ~ status.complete
  /\ status' = [status EXCEPT
       !.priority = p,
       !.escalated = @ \/ status.running \/ status.enqueued]
  /\ want' = [want EXCEPT ![e] = p]
  /\ cpc' = [cpc EXCEPT ![e] = IF HasRecord THEN "lock" ELSE "idle"]
  /\ UNCHANGED <<taskVars, waitVars, todo, calls, child>>

LockToPropagate(t) ==
  /\ cpc[t] = "lock" /\ Lock(t)
  /\ todo' = [todo EXCEPT ![t] = status.records]
  /\ cpc' = [cpc EXCEPT ![t] = "scan"]
  /\ UNCHANGED <<taskVars, waitVars, want, calls, child>>

VisitNext(t) == todo' = [todo EXCEPT ![t] = Tail(@)]
Next1(t)     == Head(todo[t])
Visiting(t)  == cpc[t] = "scan" /\ todo[t] # <<>>

(* performCancellationAction: run a handler ... *)
CancelCallHandler(c) ==
  /\ Visiting(c) /\ Next1(c) \in Handlers
  /\ calls' = [calls EXCEPT ![Next1(c)] = @ + 1]
  /\ cpc' = [cpc EXCEPT ![c] = "handler"]
  /\ UNCHANGED <<status, taskVars, waitVars, want, todo, child>>

HandlerReturns(c) ==
  /\ cpc[c] = "handler" /\ rpc[c] = "idle"
  /\ cpc' = [cpc EXCEPT ![c] = "scan"]
  /\ VisitNext(c)
  /\ UNCHANGED <<status, taskVars, waitVars, want, calls, child>>

(* ... cancel a child, pass over everything else. *)
CancelVisit(c) ==
  /\ Visiting(c) /\ Next1(c) \notin Handlers
  /\ child' = IF Next1(c) \in AsyncLets
              THEN [child EXCEPT ![Next1(c)].cancelled = TRUE] ELSE child
  /\ VisitNext(c)
  /\ UNCHANGED <<status, taskVars, waitVars, cpc, want, calls>>

(* performEscalationAction: escalate a child, pass over everything else    *)
(* (waiting on a continuation, or on a generic executor, is not escalated).*)
EscalateVisit(e) ==
  /\ Visiting(e)
  /\ child' = IF Next1(e) \in AsyncLets /\ child[Next1(e)].priority < want[e]
              THEN [child EXCEPT ![Next1(e)].priority = want[e]] ELSE child
  /\ VisitNext(e)
  /\ UNCHANGED <<status, taskVars, waitVars, cpc, want, calls>>

Unlock(t) ==
  /\ cpc[t] = "scan" /\ todo[t] = <<>>
  /\ status' = [status EXCEPT !.owner = NoThread]
  /\ cpc' = [cpc EXCEPT ![t] = "idle"]
  /\ UNCHANGED <<taskVars, waitVars, want, todo, calls, child>>

-----------------------------------------------------------------------------
TaskStep ==
  \/ \E h \in Handlers : AddHandler(h)
  \/ FireHandlerNow
  \/ \E a \in AsyncLets : StartAsyncLet(a)
  \/ \E p \in Preferences : PushPreference(p)
  \/ \E r \in Handlers \cup AsyncLets : LeaveScope(r)
  \/ RemoveInnermost
  \/ \E r \in Preferences \cup {InitialPref} : LockToSplice(r)
  \/ SpliceAndUnlock
  \/ InitContinuation \/ InitPreawaited \/ AwaitResumed \/ SuspendOnContinuation
  \/ PublishAwait \/ ResumeWithoutEnqueue
  \/ SwitchExecutor \/ EnqueueSelf \/ Dequeue \/ Start
  \/ Return \/ Complete

ResumeStep(t) ==
  \/ ResumePending(t) \/ ResumeAwaited(t)
  \/ ResumeLock(t) \/ ResumeUpdate(t) \/ ResumeEnqueue(t)

Propagate(t) ==
  \/ LockToPropagate(t) \/ Unlock(t)
  \/ t \in Cancellers /\ (CancelCallHandler(t) \/ HandlerReturns(t) \/ CancelVisit(t))
  \/ t \in Escalators /\ EscalateVisit(t)

Next ==
  \/ TaskStep
  \/ \E t \in Cancellers \cup Resumers : ResumeStep(t)
  \/ \E c \in Cancellers : Cancel(c)
  \/ \E e \in Escalators, p \in Priorities : Escalate(e, p)
  \/ \E t \in Cancellers \cup Escalators : Propagate(t)

Spec == Init /\ [][Next]_vars

(* Every thread that is in the runtime keeps running, executors run the    *)
(* jobs they hold, and resumers keep the contract of continuations; nobody *)
(* has to cancel or escalate, and no handler has to resume anything.       *)
Fairness ==
  /\ WF_vars(TaskStep)
  /\ \A r \in Resumers : WF_vars(ResumeStep(r))
  /\ \A c \in Cancellers :
       WF_vars(ResumeLock(c) \/ ResumeUpdate(c) \/ ResumeEnqueue(c))
  /\ \A t \in Cancellers \cup Escalators : WF_vars(Propagate(t))

FairSpec == Spec /\ Fairness

-----------------------------------------------------------------------------
(* Properties.                                                             *)

TypeOK ==
  /\ status \in Status
  /\ phase \in [Handlers \cup AsyncLets \cup Preferences -> {"unused", "live", "removed"}]
  /\ tpc \in {"body", "fire", "remove", "splice", "suspended", "enqueue",
              "parked", "start", "completing", "done"}
  /\ op \in Records
  /\ sync \in {"none", "Pending", "Awaited", "Resumed"}
  /\ held \in BOOLEAN /\ queued \in BOOLEAN
  /\ awaits \in 0 .. MaxAwaits
  /\ wait \in {"nothing", "continuation", "executor"}
  /\ jobPriority \in Priorities
  /\ seen \in [Threads -> Priorities]
  /\ rpc \in [Cancellers \cup Resumers -> {"idle", "lock", "update", "enqueue"}]
  /\ cpc \in [Cancellers \cup Escalators -> {"idle", "lock", "scan", "handler"}]
  /\ want \in [Escalators -> Priorities]
  /\ todo \in [Cancellers \cup Escalators -> Seq(Records)]
  /\ calls \in [Handlers -> Nat]
  /\ child \in [AsyncLets -> [cancelled: BOOLEAN, priority: Priorities]]

(* A thread that walks the record list meets only records that are still   *)
(* in it, so no handler is called, no child touched and no dependency read *)
(* after removeStatusRecord returned and its memory was given back         *)
(* (include/swift/ABI/TaskStatus.h:226-230).                               *)
VisitsOnlyLiveRecords ==
  \A t \in Cancellers \cup Escalators :
    cpc[t] \in {"scan", "handler"} =>
      \A i \in 1 .. Len(todo[t]) : InList(todo[t][i])

(* The flags of the status word agree with each other, with the list and   *)
(* with the thread that runs the task: a task is running, enqueued or      *)
(* complete exclusively, has a dependency record exactly while it is       *)
(* suspended or enqueued, and that record is then the innermost one, which *)
(* is what lets flagAsRunning pop it without the lock.                     *)
SchedulingStateConsistent ==
  /\ ~ (status.running /\ status.enqueued)
  /\ status.complete => ~ status.running /\ ~ status.enqueued
  /\ status.dependency <=> InList(Dependency)
  /\ InList(Dependency) => Innermost(Dependency) /\ wait # "nothing"
  /\ status.dependency <=> ~ status.running /\ ~ status.complete
  /\ queued => status.enqueued

(* A suspended task is made runnable once: at most one thread is about to  *)
(* enqueue it, none is while it is queued, running or about to run.        *)
Enqueuing ==
  {t \in Cancellers \cup Resumers : rpc[t] # "idle"}
    \cup (IF tpc = "enqueue" THEN {Task} ELSE {})
EnqueuedOnce ==
  /\ \A s, t \in Enqueuing : s = t
  /\ Enqueuing # {} => ~ queued /\ ~ status.running /\ tpc # "start"
  /\ queued => tpc = "parked"

(* Cancellation loses to no race: once the task is cancelled and no thread *)
(* is still propagating it, every registered handler has been called (or   *)
(* the task is about to call it) and every async-let child is cancelled,   *)
(* whether it was added before, during or after the cancellation.          *)
CancellationReachesEveryRecord ==
  status.cancelled /\ (\A c \in Cancellers : cpc[c] = "idle") =>
    /\ \A h \in Handlers :
         phase[h] = "live" => calls[h] > 0 \/ (tpc = "fire" /\ op = h)
    /\ \A a \in AsyncLets : phase[a] = "live" => child[a].cancelled

(* Escalation converges: once no thread is propagating an escalation, no   *)
(* child of the task runs below the task's priority (less the downgrade of *)
(* the user-interactive priority that children do not inherit).            *)
EscalationReachesEveryChild ==
  (\A e \in Escalators : cpc[e] = "idle") =>
    \A a \in AsyncLets :
      phase[a] = "live" => child[a].priority >= Downgrade(status.priority)

(* No deadlock between the record lock, the handlers that resume the task  *)
(* while holding it and the task that waits for it: the task completes,    *)
(* and every propagation ends and gives the lock back.                     *)
TaskCompletes ==
  /\ <>(tpc = "done")
  /\ \A t \in Cancellers \cup Escalators : cpc[t] = "lock" ~> cpc[t] = "idle"
=============================================================================
