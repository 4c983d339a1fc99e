# Verification of the Swift concurrency runtime in this repository

## 1. The repository and what is verified

`src/` holds a small iOS application (`TNShareApp`, `DemoWidget`, `MacTermApp`,
`TestOpenCombine`), the pods it uses (`Pods/`), and a full copy of the Swift
compiler and runtime (`swift_src/swift-main/`). The application is a set of
screens that each try one API. The part of the repository with protocols that
can go wrong is the concurrency runtime,
`swift_src/swift-main/stdlib/public/Concurrency/` (about 26 000 lines), on which
every `async` function of the application runs. That runtime is what the modules
here model; paths below are relative to it.

## 2. Inventory

| Part | State | Operations | What is hard |
| --- | --- | --- | --- |
| Task status word and status records (`TaskStatus.cpp`, `TaskPrivate.h`) | one atomic word: priority, flags, list of records, lock record at its head | add and remove records, cancel, escalate, flag as running, suspended, enqueued, complete | the record list is read by cancelling and escalating threads while its owner edits it; handlers run under the lock |
| Continuations (`Task.cpp`) | `AwaitSynchronization` of a `ContinuationAsyncContext` | init, await, resume | the resumer races the suspending task; a handler may resume under the record lock |
| Futures (`Task.cpp`) | wait queue head: status and list of waiters | waitFuture, completeFuture | lock-free push against one exchange by the completer; who frees the task |
| Sleeping (`TaskSleep.swift`) | one word shared by sleeper, wake job and cancellation handler | sleep, onSleepWake, onSleepCancel | three parties, memory freed by whichever is last |
| Streams (`AsyncStreamBuffer.swift`, `AsyncStream.swift`, `AsyncThrowingStream.swift`) | buffer, waiting continuations, terminal flag, termination handler | yield, finish, next, cancel, set onTermination | handlers and continuations run after the lock is released |
| Task groups (`TaskGroup.cpp`, `TaskGroup.swift`, `DiscardingTaskGroup.swift`) | status word of counters, ready queue, wait queue, mutex | add, offer, poll, wait for all, cancel all, destroy | counters change outside the mutex; ready results with and without a waiter |
| Async let (`AsyncLet.cpp`) | result buffer bit, child record | start, get, consume, finish | finish cancels and awaits; buffer initialised once; the child lives in its parent's memory |
| Default actors (`Actor.cpp`, `include/swift/Basic/ListMerger.h`) | status word: scheduling state, priority, owner of the drain lock; job queue | switch, enqueue, drain, tryLock, unlock, steal on escalation, destroy | hand-off of the drain between threads; stealers; ownership without a count per user; order while jobs arrive |
| Checked continuations (`CheckedContinuation.swift`) | the continuation, taken once | resume, deinit | double resume, leak |
| Task locals and task allocator (`TaskLocal.cpp`, `TaskAlloc.cpp`) | linked stack per task | push, pop, copy to child | stack discipline across suspension |
| Global executors (`CooperativeGlobalExecutor.inc`, `DispatchGlobalExecutor.inc`) | priority queue of jobs, delayed jobs | enqueue, enqueue after delay, drain | order and timeouts |
| Async sequence adapters, clocks, tracing, shims | none shared | - | sequential |
| Purchase manager of the application (`src/TNShareApp/Demo/StoreKit2/StoreKit2Tool.swift`) | loaded products, purchased identifiers | load, purchase, refund, observe updates | checks before an await, used after it; death of the application between two awaits |
| Compiler (`lib/`), standard library core, language runtime, pods, other application code | - | - | not modelled, see section 8 |

A task owns its status word. Async let and task groups add child records to the
parent's word; cancelling or escalating the parent walks them. Continuations,
futures, sleeping and streams suspend a task by adding a dependency record and
make it runnable by editing that record and enqueueing the task on an executor.

What makes each part correct:

* status word: a record is never visited after its removal returned;
  cancellation misses no record; the task is made runnable once per suspension.
* futures: every waiter is woken once, with the result stored.
* sleep: the continuation is resumed once, the shared word is freed once and not
  used afterwards, the sleeper returns.
* streams: values reach consumers in order, none is lost but what the policy
  drops, the termination handler runs once, nothing follows the end.
* task groups: every child's result is consumed once or accounted for, and a
  waiter is woken exactly when there is something to report.
* async let: the parent leaves the scope only after the child has ended, and
  destroys the result exactly if there is one.
* default actors: one thread is on the actor; jobs run by priority and, within
  one priority, by arrival; the actor is freed neither early nor never; no job is
  left in the queue of an actor that nobody drains.
* purchase manager: `hasPro` agrees with the purchases; what was bought is
  unlocked in the end.

## 3. Modules

Definitions keep the names of the code where they can. A load and
compare-exchange loop of the code is one action, its last successful iteration,
except where the loop itself is what can go wrong (`TaskSleep`, whose loads and
exchanges are separate steps). A critical section under a mutex is one action
unless it calls something that other threads can observe before it ends.
Definitions named `...Mutant` are never used by a specification: each is the
definition that follows it with a plausible bug, kept to show that a property
can tell the difference.

| Module | Models | State | Actions |
| --- | --- | --- | --- |
| `TaskStatus` | the status word and record list of one task, its continuation (`TaskStatus.cpp`, `TaskPrivate.h`, part of `Task.cpp`) | `status` is `ActiveTaskStatus`, with the lock record as its field `owner`; `sync` is `AwaitSynchronization`; `phase` says which scoped records exist; `queued`, `jobPriority` the job as its executor sees it | the task: add, remove and splice records, suspend, enqueue itself, complete; cancellers and escalators: change the word, lock, visit each record, unlock; resumers: exchange, lock, update, enqueue |
| `MCTaskStatus` | nothing of the code: the symmetry of the `Escalate` run | | |
| `TaskSleep` | `Task.sleep` (`TaskSleep.swift`) | `word[n]` is the `SleepState` in the token of the n-th sleep, or says that it is unallocated or freed | sleeper, wake job, cancellation handler; `Cancel`, `LockAndCallHandler` are what `TaskStatus` does in detail |
| `Channel` | nothing of the code: what a stream promises | buffer, who asks, who got what | send, ask, end |
| `StreamStorage` | what both streams share (`AsyncStreamBuffer.swift`) | the fields of `_Storage.State`; `effects[t]`, what thread t still does after it left the lock; the consumers and the cancellation of their tasks | set and call handlers, resume continuations, cancel, enter and return from `next()`, drop the stream, free the storage |
| `AsyncStream`, `AsyncThrowingStream` | the two `_Storage` classes | as above | `Yield`, `Finish`, `NextContinuation` |
| `TaskGroup` | one accumulating or discarding group (`TaskGroup.cpp`, `TaskGroup.swift`, `DiscardingTaskGroup.swift`, the linking of children in `TaskStatus.cpp`) | `status` is `TaskGroupStatus`; `mutex`; `readyQueue`, `waitQueue`; `children` is the list from `FirstChild` to `LastChild`, `staleNext` the `NextChild` of children no longer in it; `cursor[t]` the child a walk of thread t has reached | the owner: add a child (count, create, link, compute its status, store it), cancel, end the body, poll, wait for all, destroy; a child: offer, store its result or complete the waiter, wake the owner; the canceller: lock, walk, unlock |
| `Future` | `waitFuture` against `completeFuture` (`Task.cpp`), and an async let over them (`AsyncLet.cpp`) | `queue` is `FutureFragment::waitQueue`; `waking` the waiters the completing task has taken; `alive`, `refs` its memory; `buffer`, `hasResult`, `childRecord` the async let; `depends`, `lock` the records a visitor of a waiter follows | waiters: load, suspend, push, retry, resume; the parent: get, consume, finish, remove the record, destroy; the task: complete, fill and enqueue each waiter, end; visitors: lock, visit, unlock |
| `DefaultActor` | the default actor (`Actor.cpp`) | `status` is `ActiveActorStatus` without its queue head; `fresh`, `sorted` the job list before and after preprocessing; `owes[t]` what a thread does after its compare-exchange; `nest[t]` that it is inside `defaultActorDrain`; `processing` the processing jobs and stealers in the global executor | tasks: switch (fast and slow), enqueue, run, hop off, drop references; threads: lock to drain, lose the race, preprocess, take a job, unlock or give up, destroy; escalators: raise, override, steal |
| `ListMerger` | the sorted job lists (`include/swift/Basic/ListMerger.h`) | none: `InsertAtFront`, `SortReversed`, `TakeNext`, `Merge` | |
| `SerialExecutor` | nothing of the code: what an actor promises | jobs that wait, the job that runs | arrive, start, enter, leave |
| `MCDefaultActor` | nothing of the code: priorities for TLC, and `ListMerger` against its reference | | |
| `PurchaseManager` | the purchase manager of the application (`StoreKit2Tool.swift`) | its published fields; `pc[t]` the await each task is at; `store`, `unfinished`, `updates` the App Store, modelled from how the code uses it | load, purchase, finish, read entitlements, refund, observe; deaths and launches; entitlements granted and revoked elsewhere |
| `TaskStatus_proofs`, `TaskSleep_proofs`, `Channel_proofs`, `Stream_proofs`, `TaskGroup_proofs`, `Future_proofs`, `DefaultActor_proofs`, `PurchaseManager_proofs` | theorems, see section 7 | | |

How they fit together. `TaskStatus` is the ground: a continuation, a sleep, a
stream consumer, a group's owner, a waiter of a future is a task that suspends and
is made runnable there. The modules above it keep of it only what they can observe,
the cancelled bit, the record lock, and that a handler runs under that lock, so that
each is small enough to be checked with several threads. `AsyncStream` and
`AsyncThrowingStream` extend `StreamStorage`, which instantiates `Channel` with the
buffer, the terminal flag, the queue of continuations and, as what a consumer
got, what it received and what some thread has taken out of the storage for it.
`DefaultActor` uses `ListMerger` for its queue and instantiates `SerialExecutor`
with the order in which its jobs were published. These refinements are checked as
the properties `ImplementsChannel` and `ImplementsExecutor`, and proved (section 7).

Points that a reader who compares with the code should know:

* `TaskGroup`: `completeFuture` and `offer` are one step with the end of the
  child's body (`Ends`), because nobody waits for the future of a group child.
  `poll` on an empty group inside the body changes nothing, so `PollEmpty` is
  the one that ends an accumulating group. A walk over `children` that comes to
  an unlinked child goes on along `staleNext`, as if the memory of the released
  child had not been reused; section 6 says when that happens.
  A waiting discarding group keeps its waiting bit after the wake-up, as the code
  does. A group whose owner is cancelled already is cancelled from the start
  (`Init`), one whose owner is cancelled later is not (`TaskStatus.cpp:845`
  cancels the children and leaves the group's own bit).
* `StreamStorage`: `FreeStorage` needs every thread outside the lock and out of
  effects, since each of them retains the storage.
* `TaskSleep`: `fatal` control states stand for the `fatalError` branches.
* `TaskStatus`: `SwitchExecutor` covers the task enqueueing itself, with the
  dependency record that names the executor it waits for.
* `Future`: the task is of one of two kinds from the start, a task that its waiters
  hold references to, or the child of an async let, whose only waiter is the parent
  and whose memory goes with the parent's scope. `CheckGroup` is the read of the
  task's flags at `Task.cpp:240`, see section 6.
* `DefaultActor`: the head of the job list and the state are one word in the code
  and are read and written together here. `Steal` and `Override`, which touch the
  actor after the exchange that published a job, wait for a live actor, see
  section 6. The bit that says the maximum priority was escalated is left out: only
  the kernel's thread override reads it.
* `PurchaseManager`: entitlements are read in any order, each when StoreKit
  produces it and acted upon at a later step, when the main actor is free.

## 4. Runs

Every model-checking run uses the configuration file of its name. Deadlock is not
checked in them, for all of the modelled protocols are meant to stop: the task
completes, the group is destroyed, every thread has used up its calls. Where a
thread could hang instead of stopping, a liveness property says that it does not.

| Run | Instance | Shows |
| --- | --- | --- |
| `Cancel` | two handlers, one async let, a pushed and an initial preference, one canceller, one resumer, two awaits | no record is visited after its removal, none is missed by the cancellation, the task is enqueued once per suspension, completes, and every walk ends, even when a handler resumes the task under its record lock |
| `Escalate` | two escalators, one canceller, two async lets, three priorities | the states are well typed; scheduling flags, list and running thread agree; children are escalated |
| `Sleep` | three sleeps of one task, one cancellation | the token is freed once, by the last user; timer and cancellation never both resume; no `fatalError` is reached; a delivered cancellation ends the sleep; each sleep ends |
| `StreamMany` | two producers, two consumers, a canceller, `bufferingNewest(2)`, four values | it implements the channel; each value in one place; each continuation resumed once |
| `StreamThrowing` | two producers, one consumer, a canceller, `bufferingOldest(1)`, two handlers | it implements the channel; handlers run once; the first end decides, and reaches the consumer |
| `Group` | three children, both kinds of group | results in completion order, first error thrown, counters agree with queues, destruction when unused, cancellation reaches every running child, the group ends |
| `Future` | three waiters of a task, or a parent with two gets of its async let; one visitor | each waiter is on one list while it sleeps, is woken once and gets the outcome; the buffer of an async let is sound; the task is alive while used and freed in the end; every wait ends |
| `Actor` | three tasks of two priorities, one of them with an executor preference, two threads, one escalator | one thread has the drain lock; the references balance; the actor is alive while used; its priority covers its jobs; jobs run by priority and arrival; the queue is drained |
| `Purchase` | two products, one of them consumable, two tasks, the observer, two deaths, three events | `hasPro` follows the purchases; a failed load is repeated; what was bought is unlocked, after a death too |
| `ErrorTwice`, `BodyErrorLoses`, `PreferenceBreaksIsolation` | the smallest instance that shows it | a sentence of the repository that the code does not keep, see section 6 |

`MCDefaultActor` also has TLC evaluate `ListsInOrder`: all lists of up to five nodes of
three priorities, in every split into an old and a new part, are sorted and merged
into the reference order.

Why these bounds are enough. The protocols synchronise pairs of parties: who
changed a word, who holds a lock, who is first or last. Two of a kind and one of
each other kind give each race; a third child, sleep, waiter, job or priority is
there so that there is a middle element: a child that is neither first nor last in
the list or the queue, a sleep whose predecessor's wake job is still pending while
its successor runs, a waiter that pushes itself between two others, a priority that
is raised and then raised again. Three children are also the least with which a
discarding group has one stored error, one that arrives later and one child still
pending. Three jobs of two priorities are the least with which the preprocessing of
an actor's queue has both to keep an order and to change one. Buffers of size one
and two with up to four values fill, drop and drain. In `Purchase` three events
suffice for a purchase, its revocation, and another purchase, and two deaths for one
in each half of an update. The counters that are bounded, and the constants that bound
them: awaits and executor switches (`MaxAwaits`), priorities (`MaxPriority`), sleeps
(`MaxSleeps`), values (`MaxYields`), termination handlers (`MaxHandlers`), calls of
`next()` (`MaxNexts`), waits and gets (`MaxWaits`, `MaxGets`), visits to the actor
(`MaxVisits`), deaths and changes of entitlements (`MaxDeaths`, `MaxEvents`).
`TaskGroup` has no bound but its children, each of which is added once.

`EndReachesConsumer` is stated for one consumer. With several, `finish()` wakes
only the first of those that wait; `AsyncStream.swift:360` calls contending calls
of `next()` a programmer error.

## 5. Fairness

Weak fairness is given to threads inside the runtime: a thread that has entered a
function of the runtime is scheduled again, an executor runs the jobs it has, a
timer that was started fires, a task that others wait for ends, the holder of a
continuation resumes it, which its contract demands, whoever has a reference drops
it. Nothing is assumed about what a user does of his own accord: nobody has to
cancel, escalate, yield, finish, add children, call `next()`, cancel a group or
return from its body. So the liveness properties are of the form "once the body has
ended, ..." and "once the stream has ended, ...". Weak fairness is enough: locks are
held for a bounded number of steps, and no liveness property has a thread that must
win a race for one infinitely often. In `PurchaseManager` StoreKit answers every
request but a purchase, which may stay in front of the user, the main actor runs its
tasks, and an application that died is launched again.

## 6. What the code does not keep

Each of these has a run, whose counterexample is a behaviour of the code as it is.

* `ErrorTwice`: a consumer that waits when `finish(throwing:)` is called gets the
  error a second time from its next `next()`.
* `BodyErrorLoses`: in a throwing discarding group the error of the body wins over
  an earlier error of a child only if no child is pending any more.
* `PreferenceBreaksIsolation`: a task with a task executor preference that hops to a
  default actor is handed to its executor (`Actor.cpp:2298`), which runs it without
  the drain lock, at the same time as another task of the actor.

Met while modelling, and without a run:

* Task status. A cancellation handler that is added between the moment the cancelled
  bit is set and the moment the canceller locks the records runs twice, once by the
  task and once by the canceller. A task may be completing while a canceller, which
  saw a record in the word it replaced, installs its lock; `TaskPrivate.h:801`
  asserts that this cannot be. `flagAsAndEnqueueOnExecutor` takes the job priority
  from the status it loaded before it took the record lock, so that an escalation in
  between is in neither. The comment at `TaskStatus.cpp:770` says that a new
  child has not been linked yet when its status is set; that of a group has.
* Task groups. `cancelAll()` of a discarding group walks the list of children without
  the lock (`TaskGroup.cpp:2061`) while a completing child unlinks itself and is
  released. `updateNewChildWithParentAndGroupState` loads the status of a linked
  child, completes it and stores it plainly (`TaskStatus.cpp:771-788`); such a walk
  may cancel the new child in between, and the store takes that back.
  `CancellationReachesChildren` is therefore stated for a canceller that holds the
  lock and for `cancelAll()` of an accumulating group, whose owner does not link
  children meanwhile. `TaskGroup.swift:641` says that cancelling the task also
  cancels the group and is reflected in `isCancelled`; `TaskStatus.cpp:845` cancels
  the children only.
* Streams. `AsyncStream.swift:360` says that contending calls of `next()` end in a
  `fatalError()`; `AsyncStreamBuffer.swift:239` queues them, and `finish()` at
  line 215 wakes one of them. Only the throwing stream does what the comment says.
* Futures. `completeFuture` reads the flags of the task at `Task.cpp:240`, after the
  exchange at line 235 that published its completion. The parent of an async let, if
  it is running, may see that, leave the scope and destroy the child meanwhile.
  `getTaskId` (`Task.cpp:326`) shifts the lower half of the identifier by the upper
  half, where its comment says that it joins the two.
* Default actors. `enqueue` retains the actor for a stealer (`Actor.cpp:1468`), or
  reads its drain lock for the override (line 1455), after the exchange that
  published the job. The job may have run and dropped the last reference by then.
* Purchase manager. `refundLatestTransaction` unwraps a latest entitlement that is
  nil when all of them are unverified (`StoreKit2Tool.swift:283`), and the
  application ends. If it dies between `transaction.finish()` (line 108) and the end
  of the update, what was bought stays locked until another update: the check at
  launch is commented out (`TNShareApp.swift:67-70`). An update that has read a
  product as revoked and acts upon that (line 145) after it was bought again locks
  it. An expired entitlement is no longer in the sequence that is read, so its
  product stays in the set until the next launch. The observer's task refers to the
  manager as `[unowned self]`; nothing in the application lets it go first.

## 7. Proofs

The proofs hold for every value of the constants that the named assumptions of
the modules allow: any finite or infinite sets of records, threads, consumers,
children, waiters, jobs, any bounds.

* `TypeCorrect` and `RecordsLive` (`TaskStatus_proofs`): the states of a task are
  well typed, and whoever walks the record list meets only records that are in
  it. `VisitsOnlyLiveRecords` alone is not inductive: a removal must be known not
  to happen during a walk. `LockInv` adds who may be where while the lock record
  is installed: a thread walks exactly while it owns the lock, so does the task
  while it splices, so does a resumer while it updates. The only steps that shorten
  the list need the lock free or own it, hence nobody walks. Assumptions:
  `ThreadsAssumption`, `RecordsAssumption`, `BoundsAssumption`.
* `MadeRunnableOnce`, `SchedulingStateSound`, `CancellationReaches` and
  `EscalationReaches` (`TaskStatus_proofs`, over the invariant above): the four other
  safety properties of `TaskStatus`. For the first two `SuspInv` says that the duty to
  make a suspended task runnable is in one place, the holder of the continuation or one
  resuming thread or a queue (`DutyInv`), that `AwaitSynchronization` and the flags of
  the word follow the task (`SyncInv`, `FlagInv`), and that the dependency record is in
  the list exactly while the task is suspended, and innermost (`RecordInv`). For the other
  two `ReachInv` says of each live record of a cancelled task that it is reached or that
  some canceller *comes to it*: it has not taken the list yet, or still has the record
  before it (`CancelInv`). `EscalateInv` says the same of the escalator that asked for
  the current priority; an earlier one may overtake it, which harms nobody, because a
  child is only ever raised. A record cannot be added behind the back of a walk, since
  additions wait for the lock and read the cancelled bit in the word they replace, and
  the handler that a late addition owes is the task's own (`Reached`).
* `TokenAliveWhileUsed`, `OneResumption` and `FatalErrorUnreachable`
  (`TaskSleep_proofs`): the three safety properties of `Task.sleep`, for any number of
  consecutive sleeps. None is inductive. `SleepInv` gives each sleep one of seven
  shapes, which say together what the token holds, where the wake job is and how
  often the continuation was resumed, and has the place of the sleeping task determine
  the shape of the current one. `HandlerInv` says why the wake job may free the token
  of a cancelled sleep under the eyes of the handler: only the canceller stores
  `cancelled`, as its last access, and it visits the handler once. Assumption:
  `MaxSleepsAssumption`.
* `SleepEndsForAReason` (`TaskSleep_proofs`): `OutcomeJustified`. `OutcomeInv` adds to
  `SleepInv` that a word is marked as cancelled only in a cancelled task, and that once
  the cancellation has been delivered the current word is no longer one that the timer
  could still resume normally.
* `AnswersInOrder` and `NoStarvation` (`Channel_proofs`): the abstract channel
  gives answers in the order of sending, none after the end. The strengthening
  `BufferInOrder` says that what is still buffered is in order too, and not newer
  than what was sent. Through `ImplementsChannel`, proved below, this is the order
  both streams deliver in.
* The two streams (`Stream_proofs`), for any threads, policy and limit. Their storages
  differ in what a consumer is told at the end and in how the end is stored; what they
  share is the relation `StreamNext`, in which both are left open, and `PlainStep` and
  `ThrowingStep` say that each step of either stream is a step of it. `StreamInv` is
  proved of that relation once. It gives each suspended consumer one place (`WaiterInv`),
  each termination handler one place (`HandlerInv`), each value one place (`ValueInv`),
  and rests on who can still act after a drop or before a cancellation (`LifeInv`,
  `CancelInv`) and on nobody waiting while a value is buffered (`CallInv`). From it
  follow `ContinuationResumedOnce`, `NoValueLost` and `PlainHandlerOnce`, and the three
  theorems named `Throwing...` of the other stream. The lists of things that a thread
  does outside the lock have few forms (`EffectLists`), and what matters of a step is
  whether it adds or takes a wake-up or a call (`WakesMore`, `CallsLess` and the like).
  `View` lists what the user sees of a step; `ChannelStep` turns it into a step of
  `Channel`, which gives the refinements `PlainStreamIsAChannel` and
  `ThrowingStreamIsAChannel`. For the throwing stream `ThrowingInv` adds that at most
  one consumer waits, without which its steps are not of that relation, and
  `NilUntold`, from which `FirstEndingDecides` follows. Assumptions:
  `StreamThreadsAssumption`, `StreamBoundsAssumption`.
* `ResultsInOrder` (`TaskGroup_proofs`): an accumulating group hands out every
  completed child once and in completion order. A result moves from the child that
  holds the mutex to the ready queue, or straight to the waiting owner, and from
  either to what `next()` returns. The equation `offered = consumed \o Delivered
  \o readyQueue \o Settling` survives the direct hand-over only if the ready queue is
  empty and nothing else is being delivered: that is `WaiterInv`, and it needs
  `ReadyInv` (the ready count is the length of the queue, plus the child under the
  mutex) and `MutexInv` (who holds the mutex). The pending count takes no part in it.
  Assumption: `ChildrenAssumption`.
* `StatusWordAgrees`, `DestroyedAfterTheLastUse`, `FirstErrorIsThrown` and
  `EveryChildIsCancelled` (`TaskGroup_proofs`), of both kinds of group. `CountInv` says
  that the pending count is the number of children that were added and have not offered
  their result, plus the results not yet taken from an accumulating group; the lemmas
  below it say what adding and taking one child does to that cardinality. The end of the
  group follows, because a pending count of zero leaves nobody who could still touch it.
  `LinkInv` says that who is running is linked, and that an unlinked child still leads
  back into the list; `WalkInv`, built on it, says of each child of a cancelled group
  that it is cancelled or still ahead of a walk. `ErrorInv` follows the first failure
  from the child that holds the mutex to the ready queue, to the owner, to the caller.
  Assumptions: `ChildrenAssumption`, `FiniteAssumption`.
* `WaitersParkedOnce` and `EveryoneGetsOutcome` (`Future_proofs`): a waiter is on
  exactly one list, once, exactly while it sleeps, and whoever goes on has the outcome
  of the task. `ListInv` says that the list of the future is in use until the task has
  ended and that of the waiters to be woken after that, and that neither repeats a
  waiter; `SeenInv` that a waiter about to push saw the task executing, so that its
  exchange fails if the task ended; `OutcomeInv` that the waiter about to be enqueued
  has been filled. Two lemmas say what pushing and popping do to a list without
  repetition.
* `TaskOutlivesItsUsers` and `BufferInitialisedOnce` (`Future_proofs`, over the invariant
  above): `HandleInv` counts the references to a task that handles wait for, one for
  each that has not finished and one for the task itself; `ScopeInv` says that an async
  let is used by its parent only and that the parent leaves after the child has ended;
  `BufferInv` follows the content of the result buffer through `get`, `finish` and
  `consume`. Assumptions: `ParentAssumption`, `WaitersAssumption`.
* `OneThreadOnTheActor` (`DefaultActor_proofs`): the thread that drains an actor or runs
  a task on it is the owner of its drain lock, so that there is one. `MutualExclusion`
  is an equivalence and inductive together with the type of the word and of the
  threads' places (`LockInv`); the lemmas `StaysOut`, `TakesLock` and the like reduce
  each step to what it does to the word and to one thread.
* `RulesOfOwnership`, `UsersKeepTheActor` and `PriorityCoversJobs`
  (`DefaultActor_proofs`), over `ActorInv`. A job is in the queue, once, or on one
  thread, or elsewhere (`QueueInv`, `JobsInv`); a thread is in the drain loop of this
  actor when it must be (`NestInv`); a task whose record an escalator has locked is still
  enqueued (`EscalatorInv`); there is a job or a running thread exactly if the word is not
  idle (`WordInv`). The references are those that tasks hold, one for each drain loop, and
  N - R (`Balanced`), counted by lemmas that say what a step does to each cardinality; the
  actor is freed only by the step that takes the last of them while nobody runs it, or by
  the thread that gives up a zombie (`LifeInv`). That a job is neither lost nor doubled
  needs the list merger: `SortReversedLists` and `MergeLists` say that it keeps every node
  it is given, once. Assumptions: `NullAssumption`, `PriorityAssumption`,
  `FiniteAssumption`.
* `ActorIsAnExecutor` (`DefaultActor_proofs`): the refinement `ImplementsExecutor`.
  `ArrivalInv` adds to `ActorInv` that the history `arrived` lists the queued jobs; that
  the preprocessed list is ranked, by priority and then by arrival; and that the jobs not
  yet preprocessed came after all of those, the newest in front. Preprocessing keeps it by
  `SortReversedRanked` and `MergeRanked`: inserting in front of equals turns the reversed
  list round, wherever the search starts (`StartRanked` is about the last insertion
  point), and in a merge whatever was taken stays ahead of the rest of both lists
  (`Behind`). So the head of the list is what the executor would choose (`HeadIsAhead`).
  A switch on the fast path is the executor's `Enter`, a job taken by the drainer its
  `Start`, a thread that hops off or ends a stretch its `Leave`; every other step changes
  neither the queue nor who has the actor.
  The merger's functions are recursive. Since the library's induction theorems cannot be
  used, their recursion is unfolded once (`SortSteps`, `MergeSteps`), and a set of numbers
  that contains 0 and the successor of each of its members is shown to contain the whole
  interval (`InductionUpTo`, from the least element of the complement).
* `HasProAgrees` (`PurchaseManager_proofs`): when no update is under way `hasPro` agrees
  with the set it is computed from, but for a launch that kept it. `PurchaseInv` adds that
  an application that does not run has died.
* `LoadedListIsShown` (`PurchaseManager_proofs`): the products shown and the flag that
  says they were loaded are set by one answer and reset by one launch, so that
  `LoadedMeansShown` is inductive as it stands (`NextKeepsLoaded`); that the store has
  something to show makes it true at the start. Assumption: `ProductsAssumption`.

Only model-checked: the liveness properties, for the provers know neither fairness nor
ENABLED. Every safety property of the passing runs, and the three refinements, are
theorems. `ListsInOrder`, which compares the merger with its reference for TLC, is not
needed by any of them.

## 8. What is not modelled

* Inside the modelled parts: memory orderings (each atomic operation is
  sequentially consistent here), the task-to-thread and embedded builds, task
  creation options, nested groups, the overflow checks of the 31-bit counters of a
  group, which abort the process at 2^31 pending children; the deprecated
  `Task.sleep(_:)`; streams built with `unfolding:`; the main actor, custom
  executors and actors as locks; the old entry point `swift_asyncLet_end`; the
  server validation of the purchase manager, which nothing calls.
* Checked continuations: one atomic exchange over an unsafe continuation. Whether
  it is resumed never, once or twice is up to the caller; a property would restate
  the exchange.
* Task-local values and the task allocator: a stack per task, used by that task only.
* Global executors: the Dispatch queues are outside the repository, and the
  cooperative executor is one thread with two sorted lists. The list merger that
  keeps the first of them sorted is modelled in `ListMerger`.
* Adapters of async sequences, clocks, tracing, shims: sequential code without
  shared state.
* The compiler, the standard library core, the language runtime, `Distributed`,
  `Observation`: large, and apart from the reference count word not protocols.
* The screens of the application, its widget and the macOS tool: they display, and
  keep no state that threads share. The vendored pods are third-party code.

## 9. Plan

Done, in this order: `TaskStatus` (everything rests on it), its first proofs;
`TaskSleep`; `Channel` with `StreamStorage` and the two streams; `TaskGroup` and the
proof of its order; `DefaultActor` with `ListMerger` and `SerialExecutor`; `Future`
with async let; `PurchaseManager`; proofs of `DefaultActor`, `Future`, `TaskSleep`
and `PurchaseManager`, and of every safety property of `TaskStatus`; then the proofs of
every safety property of `TaskSleep`, `TaskGroup`, `Future`, `PurchaseManager`, the
streams and `DefaultActor`, and of the refinements of `Channel` and `SerialExecutor`.

To come, in this order:

1. `TaskStatus` and `Future` composed: a waiter of a future suspends in one and is
   made runnable in the other; each module now keeps of the other what it observes.
2. The main actor and task creation, which start what the modules above assume.
3. The cooperative executor's delayed jobs by deadline.
