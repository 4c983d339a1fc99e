---------------------------- MODULE DefaultActor ----------------------------
(***************************************************************************)
(* The default actor of stdlib/public/Concurrency/Actor.cpp: one status    *)
(* word that tells whether the actor is idle, scheduled, running or about  *)
(* to be freed, the list of its jobs, and the drain lock.  Tasks hop to    *)
(* the actor, taking its lock when it is idle and queueing themselves      *)
(* otherwise; processing jobs of the global executor drain the queue; and  *)
(* the actor is freed when the last reference to it is gone.               *)
(*                                                                         *)
(* The bit that says the maximum priority was escalated only matters to    *)
(* the kernel's thread override, and is left out.                          *)
(***************************************************************************)
EXTENDS Integers, Sequences, FiniteSets, ListMerger

CONSTANTS      \* and Priority[j], of ListMerger: the priority field of the job
  Jobs,        \* tasks that run on the actor, each holding a reference to it
  Preferring,  \* tasks with a task executor preference, at times
  Threads,     \* threads of the global executor and of task executors
  Escalators,  \* threads that escalate a queued task
  NoJob, NoThread,
  MaxPriority, \* priorities are 1 .. MaxPriority; 0 is Unspecified
  MaxVisits    \* bound: visits of one task to the actor

ASSUME NullAssumption == NoJob \notin Jobs /\ NoThread \notin Threads
ASSUME PriorityAssumption ==
  MaxPriority \in Nat \ {0} /\ Priority \in [Jobs -> 1 .. MaxPriority]
ASSUME FiniteAssumption == IsFiniteSet(Jobs) /\ IsFiniteSet(Threads)

VARIABLES
  status,      \* the atomic word: state, maximum priority, owner of the drain lock
  fresh,       \* the jobs not yet preprocessed, newest first: the head of the queue
  sorted,      \* the preprocessed rest of the queue
  alive, refs, \* the memory of the actor, and the references to it
  processing,  \* processing jobs queued in the global executor
  place,       \* place[j]: where the job is
  holds,       \* holds[j]: the task still has its reference to the actor
  visits,      \* visits[j]: how often it came to the actor
  pc, task,    \* of a thread: what it does, and the task it runs
  nest,        \* nest[t]: is t inside defaultActorDrain, of this or another actor
  owes,        \* owes[t]: what t still does after its compare-exchange
  epc, target, level,  \* of an escalator: its step, its task, the new priority
  arrived      \* history: the queued jobs in the order of their arrival

wordVars   == <<status, fresh, sorted>>
memoryVars == <<alive, refs>>
jobVars    == <<place, holds, visits>>
threadVars == <<pc, task, nest, owes>>
escalVars  == <<epc, target, level>>
vars == <<wordVars, memoryVars, processing, jobVars, threadVars, escalVars, arrived>>

IdleStatus == [state |-> "Idle", priority |-> 0, owner |-> NoThread]

Init ==
  /\ status = IdleStatus /\ fresh = <<>> /\ sorted = <<>>
  /\ alive = TRUE /\ refs = Cardinality(Jobs)
  /\ processing = 0
  /\ place \in [Jobs -> {"global", "suspended"}]
  /\ holds = [j \in Jobs |-> TRUE]
  /\ visits = [j \in Jobs |-> 0]
  /\ pc = [t \in Threads |-> "idle"]
  /\ task = [t \in Threads |-> NoJob]
  /\ nest = [t \in Threads |-> "none"]
  /\ owes = [t \in Threads |-> "nothing"]
  /\ epc = [e \in Escalators |-> "idle"]
  /\ target = [e \in Escalators |-> NoJob]
  /\ level = [e \in Escalators |-> 0]
  /\ arrived = <<>>

Queue   == fresh \o sorted
HasJobs == fresh # <<>> \/ sorted # <<>>

-----------------------------------------------------------------------------
(* Steps of several operations.  Definitions named ...Mutant are the       *)
(* definition that follows them with a plausible bug.                      *)

(* An escalator is working on the dependency record of the task.           *)
RecordLocked(j) == \E e \in Escalators : target[e] = j

At(t, where) == pc[t] = where /\ owes[t] = "nothing"
Goto(t, where) == pc' = [pc EXCEPT ![t] = where]
Owe(t, what) == owes' = [owes EXCEPT ![t] = what]
Take(t, j) == task' = [task EXCEPT ![t] = j]
Put(j, where) == place' = [place EXCEPT ![j] = where]

Without(jobs, j) ==
  LET at == CHOOSE i \in DOMAIN jobs : jobs[i] = j
  IN  SubSeq(jobs, 1, at - 1) \o SubSeq(jobs, at + 1, Len(jobs))

(* Back in the executor's loop: defaultActorDrain finds that the thread is *)
(* on the generic executor now, and ends.                                  *)
Return(t) ==
  /\ Goto(t, IF nest[t] = "this" THEN "leave" ELSE "idle")
  /\ nest' = [nest EXCEPT ![t] = IF @ = "this" THEN @ ELSE "none"]

DeallocateMutant == alive' = FALSE /\ UNCHANGED status    \* even if running

(* destroy and deallocate: freed at once if idle, by the holder of the     *)
(* drain lock if running.                                                  *)
Deallocate ==
  IF status.state = "Running"
  THEN /\ status' = [status EXCEPT !.state = "Zombie"]
       /\ UNCHANGED alive
  ELSE /\ alive' = FALSE
       /\ UNCHANGED status

Release ==
  /\ refs' = refs - 1
  /\ IF refs = 1 THEN Deallocate ELSE UNCHANGED <<status, alive>>

GiveUpActorMutant(t) ==    \* forgets the maximum priority
  \/ /\ status.state = "Zombie"
     /\ alive' = FALSE /\ status' = IdleStatus
     /\ UNCHANGED owes
  \/ /\ status.state = "Running"
     /\ status' = [IdleStatus EXCEPT !.state = IF HasJobs THEN "Scheduled" ELSE @]
     /\ Owe(t, IF HasJobs THEN "process" ELSE "nothing")
     /\ UNCHANGED alive

(* unlock(forceUnlock: true)                                               *)
GiveUpActor(t) ==
  \/ /\ status.state = "Zombie"
     /\ alive' = FALSE /\ status' = IdleStatus
     /\ UNCHANGED owes
  \/ /\ status.state = "Running" /\ HasJobs
     /\ status' = [status EXCEPT !.state = "Scheduled", !.owner = NoThread]
     /\ Owe(t, "process")
     /\ UNCHANGED alive
  \/ /\ status.state = "Running" /\ ~ HasJobs
     /\ status' = IdleStatus
     /\ UNCHANGED <<owes, alive>>

-----------------------------------------------------------------------------
(* Coming to the actor.                                                    *)

(* The global executor runs a task, perhaps on a thread that drains some   *)
(* other actor and has switched to this task.                              *)
RunTask(t, j) ==
  /\ At(t, "idle") /\ place[j] = "global"
  /\ Put(j, "thread") /\ Take(t, j) /\ Goto(t, "generic")
  /\ \E n \in {"none", "other"} : nest' = [nest EXCEPT ![t] = n]
  /\ UNCHANGED <<wordVars, memoryVars, processing, holds, visits, owes, escalVars, arrived>>

MayVisit(j) == j \in Jobs /\ holds[j] /\ visits[j] < MaxVisits
Visit(j) == visits' = [visits EXCEPT ![j] = @ + 1]

(* swift_task_switch, fast path: tryLock(asDrainer: false) of an idle      *)
(* actor, which a task that runs on a task executor does not try.          *)
SwitchFast(t) ==
  /\ At(t, "generic") /\ MayVisit(task[t])
  /\ status.state = "Idle"
  /\ status' = [status EXCEPT !.state = "Running", !.owner = t]
  /\ Visit(task[t])
  /\ Goto(t, "actor")
  /\ UNCHANGED <<fresh, sorted, memoryVars, processing, place, holds, task, nest, owes,
                 escalVars, arrived>>

(* swift_task_switch, slow path: flagAsAndEnqueueOnExecutor has flagged    *)
(* the task, and another thread may escalate it, before it is enqueued.    *)
SwitchSlow(t) ==
  /\ At(t, "generic") /\ MayVisit(task[t])
  /\ status.state # "Idle" \/ task[t] \in Preferring
  /\ Visit(task[t])
  /\ Goto(t, "enqueue")
  /\ UNCHANGED <<wordVars, memoryVars, processing, place, holds, task, nest, owes,
                 escalVars, arrived>>

(* Another thread resumes a task that was suspended on the actor.          *)
ResumeOnActor(t, j) ==
  /\ At(t, "idle") /\ place[j] = "suspended" /\ MayVisit(j)
  /\ Put(j, "thread") /\ Take(t, j) /\ Visit(j)
  /\ Goto(t, "enqueue")
  /\ UNCHANGED <<wordVars, memoryVars, processing, holds, nest, owes, escalVars, arrived>>

(* DefaultActorImpl::enqueue: link the job in front of the head, schedule  *)
(* an idle actor, or raise its maximum priority; then, after the           *)
(* compare-exchange, create the processing job, override the thread that   *)
(* runs the actor, or schedule a stealer.                                  *)
Enqueue(t) ==
  LET p == Priority[task[t]]
      raised == p > status.priority
  IN  /\ At(t, "enqueue")
      /\ fresh' = <<task[t]>> \o fresh
      /\ arrived' = Append(arrived, task[t])
      /\ status' = [status EXCEPT !.state = IF @ = "Idle" THEN "Scheduled" ELSE @,
                                  !.priority = IF raised THEN p ELSE @]
      /\ Owe(t, IF status.state = "Idle" THEN "process"
                ELSE IF ~ raised THEN "nothing"
                ELSE IF status.state = "Running" THEN "override" ELSE "steal")
      /\ Put(task[t], "queued") /\ Take(t, NoJob) /\ Return(t)
      /\ UNCHANGED <<sorted, memoryVars, processing, holds, visits, escalVars>>

(* swift_task_enqueue: a task with an executor preference is handed to     *)
(* that executor, although it hops to a default actor.                     *)
EnqueueOnTaskExecutor(t) ==
  /\ At(t, "enqueue") /\ task[t] \in Preferring
  /\ Put(task[t], "isolated") /\ Take(t, NoJob) /\ Return(t)
  /\ UNCHANGED <<wordVars, memoryVars, processing, holds, visits, owes, escalVars, arrived>>

(* scheduleActorProcessJob                                                 *)
Schedule(t) ==
  /\ owes[t] = "process" /\ Owe(t, "nothing")
  /\ processing' = processing + 1
  /\ UNCHANGED <<wordVars, memoryVars, jobVars, pc, task, nest, escalVars, arrived>>

(* swift_retain and scheduleActorProcessJob: ownership rule (2).  The      *)
(* thread stays here if the last reference is already gone.                *)
Steal(t) ==
  /\ owes[t] = "steal" /\ Owe(t, "nothing")
  /\ refs > 0
  /\ refs' = refs + 1 /\ processing' = processing + 1
  /\ UNCHANGED <<wordVars, alive, jobVars, pc, task, nest, escalVars, arrived>>

(* The override is started on the drain lock inside the actor.             *)
Override(t) ==
  /\ owes[t] = "override" /\ Owe(t, "nothing")
  /\ alive
  /\ UNCHANGED <<wordVars, memoryVars, processing, jobVars, pc, task, nest, escalVars, arrived>>

-----------------------------------------------------------------------------
(* Draining the actor.                                                     *)

(* ProcessOutOfLineJob::process retains the actor for defaultActorDrain.   *)
Process(t) ==
  /\ At(t, "idle") /\ processing > 0
  /\ processing' = processing - 1
  /\ refs' = refs + 1
  /\ nest' = [nest EXCEPT ![t] = "this"]
  /\ Goto(t, "lock")
  /\ UNCHANGED <<wordVars, alive, jobVars, task, owes, escalVars, arrived>>

LockToDrainMutant(t) ==    \* does not see that a stealer was faster
  /\ At(t, "lock") /\ status.state \in {"Scheduled", "Running"}
  /\ status' = [status EXCEPT !.state = "Running", !.owner = t]
  /\ Goto(t, "drain")
  /\ UNCHANGED <<fresh, sorted, memoryVars, processing, jobVars, task, nest, owes,
                 escalVars, arrived>>

(* tryLock(asDrainer: true)                                                *)
LockToDrain(t) ==
  /\ At(t, "lock") /\ status.state = "Scheduled"
  /\ status' = [status EXCEPT !.state = "Running", !.owner = t]
  /\ Goto(t, "drain")
  /\ UNCHANGED <<fresh, sorted, memoryVars, processing, jobVars, task, nest, owes,
                 escalVars, arrived>>

LoseRaceMutant(t) ==       \* keeps the reference of the stealer
  /\ At(t, "lock") /\ status.state # "Scheduled"
  /\ Goto(t, "leave")
  /\ UNCHANGED <<wordVars, memoryVars, processing, jobVars, task, nest, owes, escalVars, arrived>>

(* Another processing job was faster: ownership rule (4).                  *)
LoseRace(t) ==
  /\ At(t, "lock") /\ status.state # "Scheduled"
  /\ Release
  /\ Goto(t, "leave")
  /\ UNCHANGED <<fresh, sorted, processing, jobVars, task, nest, owes, escalVars, arrived>>

(* The end of defaultActorDrain.                                           *)
LeaveDrain(t) ==
  /\ At(t, "leave")
  /\ Release
  /\ Goto(t, "idle") /\ nest' = [nest EXCEPT ![t] = "none"]
  /\ UNCHANGED <<fresh, sorted, processing, jobVars, task, owes, escalVars, arrived>>

(* drainOne: the queue, as it was loaded, is brought into order.           *)
Preprocess(t) ==
  /\ At(t, "drain") /\ HasJobs
  /\ sorted' = Merge(sorted, SortReversed(fresh)) /\ fresh' = <<>>
  /\ Goto(t, "take")
  /\ UNCHANGED <<status, memoryVars, processing, jobVars, task, nest, owes, escalVars, arrived>>

DrainNothing(t) ==
  /\ At(t, "drain") /\ ~ HasJobs
  /\ Goto(t, "unlock")
  /\ UNCHANGED <<wordVars, memoryVars, processing, jobVars, task, nest, owes, escalVars, arrived>>

PreprocessNewMutant(t) ==  \* merges in the wrong order
  /\ At(t, "take") /\ fresh # <<>>
  /\ sorted' = Merge(SortReversed(fresh), sorted) /\ fresh' = <<>>
  /\ UNCHANGED <<status, memoryVars, processing, jobVars, threadVars, escalVars, arrived>>

(* The compare-exchange finds jobs that were enqueued since the load, and  *)
(* they are merged into those that were preprocessed.                      *)
PreprocessNew(t) ==
  /\ At(t, "take") /\ fresh # <<>>
  /\ sorted' = Merge(sorted, SortReversed(fresh)) /\ fresh' = <<>>
  /\ UNCHANGED <<status, memoryVars, processing, jobVars, threadVars, escalVars, arrived>>

DrainOne(t) ==
  /\ At(t, "take") /\ fresh = <<>>
  /\ sorted' = Tail(sorted)
  /\ arrived' = Without(arrived, Head(sorted))
  /\ Put(Head(sorted), "thread") /\ Take(t, Head(sorted)) /\ Goto(t, "start")
  /\ UNCHANGED <<status, fresh, memoryVars, processing, holds, visits, nest, owes, escalVars>>

(* flagAsRunning removes the dependency record of the task and so waits    *)
(* for an escalator that holds its record lock.                            *)
Start(t) ==
  /\ At(t, "start")
  /\ ~ RecordLocked(task[t])
  /\ Goto(t, "actor")
  /\ UNCHANGED <<wordVars, memoryVars, processing, jobVars, task, nest, owes, escalVars, arrived>>

(* unlock(forceUnlock: false) fails if a job has come meanwhile.           *)
UnlockFails(t) ==
  /\ At(t, "unlock") /\ status.state # "Zombie" /\ HasJobs
  /\ Goto(t, "drain")
  /\ UNCHANGED <<wordVars, memoryVars, processing, jobVars, task, nest, owes, escalVars, arrived>>

UnlockIdleMutant(t) ==     \* the jobs that came after the last look are forgotten
  /\ At(t, "unlock")
  /\ status' = IdleStatus
  /\ alive' = (alive /\ status.state # "Zombie")
  /\ Return(t)
  /\ UNCHANGED <<fresh, sorted, refs, processing, jobVars, task, owes, escalVars, arrived>>

UnlockIdle(t) ==
  /\ At(t, "unlock") /\ (status.state = "Zombie" \/ ~ HasJobs)
  /\ GiveUpActor(t)
  /\ Return(t)
  /\ UNCHANGED <<fresh, sorted, refs, processing, jobVars, task, escalVars, arrived>>

-----------------------------------------------------------------------------
(* Running on the actor, and off it.                                       *)

(* swift_task_switch to the generic executor gives up the actor and goes   *)
(* on with the task on this thread.                                        *)
HopOff(t) ==
  /\ At(t, "actor")
  /\ GiveUpActor(t)
  /\ Goto(t, "generic")
  /\ UNCHANGED <<fresh, sorted, refs, processing, jobVars, task, nest, escalVars, arrived>>

(* The task drops its reference to the actor, perhaps the last one.        *)
DropReference(t) ==
  /\ pc[t] \in {"actor", "isolated", "generic"} /\ owes[t] = "nothing" /\ holds[task[t]]
  /\ holds' = [holds EXCEPT ![task[t]] = FALSE]
  /\ Release
  /\ UNCHANGED <<fresh, sorted, processing, place, visits, threadVars, escalVars, arrived>>

(* The task is suspended, is sent to another executor, or has finished;    *)
(* its thread keeps the lock and goes on draining if it is in a drain loop *)
(* (swift_job_run and runOnAssumedThread unlock).                          *)
EndOfStretch(t) ==
  /\ At(t, "actor") \/ At(t, "isolated") \/ At(t, "generic")
  /\ \/ /\ pc[t] # "generic" /\ holds[task[t]]
        /\ \/ Put(task[t], "global")
           \/ visits[task[t]] < MaxVisits /\ Put(task[t], "suspended")
     \/ ~ holds[task[t]] /\ Put(task[t], "done")
  /\ Take(t, NoJob)
  /\ IF pc[t] # "actor" THEN Return(t)
     ELSE Goto(t, IF nest[t] = "none" THEN "giveUp" ELSE "drain") /\ UNCHANGED nest
  /\ UNCHANGED <<wordVars, memoryVars, processing, holds, visits, owes, escalVars, arrived>>

GiveUp(t) ==
  /\ At(t, "giveUp")
  /\ GiveUpActor(t)
  /\ Return(t)
  /\ UNCHANGED <<fresh, sorted, refs, processing, jobVars, task, escalVars, arrived>>

(* swift_job_run_on_task_executor runs the task without the actor's lock.  *)
RunIsolated(t, j) ==
  /\ At(t, "idle") /\ place[j] = "isolated" /\ ~ RecordLocked(j)
  /\ Put(j, "thread") /\ Take(t, j) /\ Goto(t, "isolated")
  /\ UNCHANGED <<wordVars, memoryVars, processing, holds, visits, nest, owes, escalVars, arrived>>

(* Its executor stays the generic one, so that no switch is needed.        *)
LeaveIsolation(t) ==
  /\ At(t, "isolated")
  /\ Goto(t, "generic")
  /\ UNCHANGED <<wordVars, memoryVars, processing, jobVars, task, nest, owes, escalVars, arrived>>

-----------------------------------------------------------------------------
(* Escalating a task that is enqueued on the actor (enqueueStealer).       *)

Enqueued(j) ==
  \/ place[j] \in {"queued", "isolated"}
  \/ \E t \in Threads : pc[t] \in {"enqueue", "start"} /\ task[t] = j

(* swift_task_escalate has found the dependency record of the task and     *)
(* holds the record lock.                                                  *)
LockTask(e, j, p) ==
  /\ epc[e] = "idle"
  /\ Enqueued(j) /\ p > Priority[j]
  /\ ~ RecordLocked(j)
  /\ epc' = [epc EXCEPT ![e] = "raise"]
  /\ target' = [target EXCEPT ![e] = j] /\ level' = [level EXCEPT ![e] = p]
  /\ UNCHANGED <<wordVars, memoryVars, processing, jobVars, threadVars, arrived>>

RaisePriority(e) ==
  /\ epc[e] = "raise" /\ status.state # "Idle" /\ level[e] > status.priority
  /\ status' = [status EXCEPT !.priority = level[e]]
  /\ epc' = [epc EXCEPT ![e] = CASE status.state = "Running" -> "override"
                                 [] status.state = "Scheduled" -> "steal"
                                 [] OTHER -> "raise"]
  /\ UNCHANGED <<fresh, sorted, memoryVars, processing, jobVars, threadVars, target, level,
                 arrived>>

(* Having told the running thread, or scheduled a stealer, it looks again. *)
EscalatorOverrides(e) ==
  /\ epc[e] = "override" /\ alive
  /\ epc' = [epc EXCEPT ![e] = "raise"]
  /\ UNCHANGED <<wordVars, memoryVars, processing, jobVars, threadVars, target, level, arrived>>

EscalatorSteals(e) ==
  /\ epc[e] = "steal" /\ refs > 0
  /\ epc' = [epc EXCEPT ![e] = "raise"]
  /\ refs' = refs + 1 /\ processing' = processing + 1
  /\ UNCHANGED <<wordVars, alive, jobVars, threadVars, target, level, arrived>>

(* An idle actor, or one that runs at that priority, is left alone.        *)
UnlockTask(e) ==
  /\ epc[e] = "raise" /\ (status.state = "Idle" \/ level[e] <= status.priority)
  /\ epc' = [epc EXCEPT ![e] = "done"]
  /\ target' = [target EXCEPT ![e] = NoJob]
  /\ UNCHANGED <<wordVars, memoryVars, processing, jobVars, threadVars, level, arrived>>

-----------------------------------------------------------------------------

ThreadStep(t) ==
  \/ \E j \in Jobs : RunTask(t, j) \/ ResumeOnActor(t, j) \/ RunIsolated(t, j)
  \/ SwitchFast(t) \/ SwitchSlow(t) \/ Enqueue(t) \/ EnqueueOnTaskExecutor(t)
  \/ Schedule(t) \/ Steal(t) \/ Override(t)
  \/ Process(t) \/ LockToDrain(t) \/ LoseRace(t) \/ LeaveDrain(t)
  \/ Preprocess(t) \/ DrainNothing(t) \/ PreprocessNew(t) \/ DrainOne(t) \/ Start(t)
  \/ UnlockFails(t) \/ UnlockIdle(t)
  \/ HopOff(t) \/ DropReference(t) \/ EndOfStretch(t) \/ GiveUp(t) \/ LeaveIsolation(t)

EscalatorStep(e) ==
  \/ \E j \in Jobs, p \in 1 .. MaxPriority : LockTask(e, j, p)
  \/ RaisePriority(e) \/ EscalatorOverrides(e) \/ EscalatorSteals(e) \/ UnlockTask(e)

Next == (\E t \in Threads : ThreadStep(t)) \/ (\E e \in Escalators : EscalatorStep(e))

Spec == Init /\ [][Next]_vars

(* Threads run; an escalator lets go of the record lock.                   *)
Fairness ==
  /\ \A t \in Threads : WF_vars(ThreadStep(t))
  /\ \A e \in Escalators : WF_vars(EscalatorStep(e))

FairSpec == Spec /\ Fairness

-----------------------------------------------------------------------------
(* Properties.                                                             *)

Inside == {"drain", "take", "start", "actor", "unlock", "giveUp"}

(* The thread that drains the actor or runs a task on it is the one that   *)
(* owns the drain lock, through the fast and the slow path of a switch,    *)
(* lost races of processing jobs and the zombie state; so there is at most *)
(* one such thread.                                                        *)
MutualExclusion ==
  \A t \in Threads :
    pc[t] \in Inside <=> status.state \in {"Running", "Zombie"} /\ status.owner = t

Holds(b) == IF b THEN 1 ELSE 0

(* R and N of the ownership rules (Actor.cpp:1011): is a job enqueued or   *)
(* running; how many processing jobs are there, a thread that runs the     *)
(* actor counting as one.                                                  *)
R == Holds(HasJobs \/ \E t \in Threads : pc[t] \in Inside)
N == processing
     + Cardinality({t \in Threads : pc[t] \in Inside \cup {"lock"}})
     + Cardinality({t \in Threads : owes[t] = "process"})

(* The basic invariant of the ownership rules: N >= R, and beside those of *)
(* the tasks and of the drain loops there are exactly N - R references, so *)
(* that the actor is freed neither too early nor never.                    *)
OwnershipBalance ==
  alive => /\ N >= R
           /\ refs = Cardinality({j \in Jobs : holds[j]})
                     + Cardinality({t \in Threads : nest[t] = "this"}) + (N - R)

(* The actor is there while a job is queued, a processing job is to come   *)
(* or a thread works on it.                                                *)
UsersKeepActorAlive ==
  \/ HasJobs \/ processing > 0
  \/ \E t \in Threads : pc[t] \in Inside \cup {"lock", "leave"} \/ owes[t] = "process"
  \/ \E e \in Escalators : epc[e] \in {"raise", "override", "steal"}
  => alive

(* The actor is scheduled and escalated at a priority that no queued job   *)
(* exceeds, whatever was enqueued while it was being drained or unlocked.  *)
MaxPriorityCoversJobs ==
  \A i \in DOMAIN Queue : Priority[Queue[i]] <= status.priority

OnActor == {t \in Threads : pc[t] \in {"start", "actor"}}

(* The actor implements the serial executor: jobs of one priority leave    *)
(* the queue in the order in which they entered it, higher priorities      *)
(* first, and the fast path never overtakes the queue.                     *)
Executor == INSTANCE SerialExecutor WITH
  queue   <- arrived,
  running <- IF OnActor = {} THEN NoJob ELSE task[CHOOSE t \in OnActor : TRUE]

ImplementsExecutor == Executor!Spec

(* The queue is drained again and again: the drainer that finds it empty   *)
(* and a thread that enqueues at that moment cannot leave the job to each  *)
(* other, nor can a stealer and the thread that gives up the actor.  The   *)
(* number of visits is bounded, so that every enqueued job is run.         *)
QueueDrained == HasJobs ~> ~ HasJobs

(* Task+TaskExecutor.swift:70: tasks that use a preferred executor as the  *)
(* source of threads are "isolated on the actor".                          *)
OneTaskOnTheActor ==
  Cardinality({t \in Threads : pc[t] \in {"actor", "isolated"}}) <= 1
=============================================================================
