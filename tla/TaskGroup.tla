----------------------------- MODULE TaskGroup -----------------------------
(***************************************************************************)
(* One task group, accumulating or discarding, from its creation to its    *)
(* destruction: stdlib/public/Concurrency/TaskGroup.cpp, the functions     *)
(* with...TaskGroup of TaskGroup.swift and DiscardingTaskGroup.swift, and  *)
(* the linking of children in TaskStatus.cpp.                              *)
(*                                                                         *)
(* The task that owns the group adds children and takes their results, the *)
(* children complete on threads of their own and offer themselves, another *)
(* thread may cancel the owner.  The status word is atomic; poll, offer    *)
(* and waitAll hold the mutex of the group; the list of children is edited *)
(* under the status record lock of the owner, but not always walked so.    *)
(***************************************************************************)
EXTENDS Naturals, Sequences, FiniteSets

CONSTANT Children   \* the child tasks the body may add

(* The other threads, and what is not a child.                             *)
Owner     == "owner"
Canceller == "canceller"
NoThread  == "noThread"
NoChild   == "noChild"
BodyError == "bodyError"   \* ReadyStatus::RawError: the error of the body
Void      == "void"        \* resumed without an error
Threads   == Children \cup {Owner, Canceller}

ASSUME ChildrenAssumption ==
  Children \cap {Owner, Canceller, NoThread, NoChild, BodyError, Void} = {}
ASSUME FiniteAssumption == IsFiniteSet(Children)

VARIABLES
  kind,           \* "accumulating" or "discarding"
  status,         \* TaskGroupStatus
  mutex,          \* who holds the lock of the group
  readyQueue,     \* completed children to be taken, or a stored error
  waitQueue,      \* is the owner in the wait queue?
  children,       \* the list from FirstChild to LastChild in the group record
  staleNext,      \* NextChild of children that were unlinked
  recordLock,     \* who holds the status record lock of the owner
  ownerCancelled, \* the cancelled bit of the owner
  opc,            \* control state of the owner
  closing,        \* has the body returned or thrown?
  bodyError,      \* ... thrown
  adding, fresh,  \* the child being added, and the cancelled bit computed for it
  delivered,      \* whose result the owner gets next
  thrown,         \* what the with...TaskGroup function throws, at its end
  cpc,            \* control state of each child
  failed,         \* did it throw?
  cancelled,      \* its cancelled bit
  cursor,         \* cursor[t]: the child a cancellation walk of t has reached
  kpc,            \* control state of the canceller
  offered,        \* the children in the order in which they were offered
  consumed        \* the children whose results next() returned, in order

lists     == <<children, staleNext, recordLock>>
bodyVars  == <<closing, bodyError, thrown>>
addVars   == <<adding, fresh>>
history   == <<offered, consumed>>
queues    == <<readyQueue, waitQueue>>
vars == <<kind, status, mutex, queues, lists, ownerCancelled, opc, bodyVars,
          addVars, delivered, cpc, failed, cancelled, cursor, kpc, history>>

Accumulating == kind = "accumulating"
Discarding   == kind = "discarding"

Init ==
  /\ kind \in {"accumulating", "discarding"}
  /\ ownerCancelled \in BOOLEAN
  /\ status = [cancelled |-> ownerCancelled, waiting |-> FALSE,
               ready |-> 0, pending |-> 0]
  /\ mutex = NoThread /\ readyQueue = <<>> /\ waitQueue = FALSE
  /\ children = <<>> /\ staleNext = [c \in Children |-> NoChild]
  /\ recordLock = NoThread
  /\ opc = "run" /\ closing = FALSE /\ bodyError = FALSE /\ thrown = Void
  /\ adding = NoChild /\ fresh = FALSE /\ delivered = NoChild
  /\ cpc = [c \in Children |-> "unborn"]
  /\ failed = [c \in Children |-> FALSE]
  /\ cancelled = [c \in Children |-> FALSE]
  /\ cursor = [t \in Threads |-> NoChild]
  /\ kpc = IF ownerCancelled THEN "done" ELSE "idle"
  /\ offered = <<>> /\ consumed = <<>>

-----------------------------------------------------------------------------
(* The status word and the list of children.  Definitions named ...Mutant  *)
(* are the definition that follows them with a plausible bug.              *)

AddPending == status' = [status EXCEPT !.pending = @ + 1]

CompletingMutant(s) == [s EXCEPT !.ready = @ - 1, !.pending = @ - 1]
(* completingPendingReadyWaiting.                                          *)
Completing(s) ==
  [s EXCEPT !.ready = @ - 1, !.pending = @ - 1, !.waiting = FALSE]

IsEmptyMutant == status.ready = 0
IsEmpty == status.pending = 0

FirstChild == IF children = <<>> THEN NoChild ELSE Head(children)
Linked(c)  == \E i \in 1 .. Len(children) : children[i] = c
Position(c) == CHOOSE i \in 1 .. Len(children) : children[i] = c

(* NextChild of a child, which unlinking it leaves alone.                  *)
NextChild(c) ==
  IF ~ Linked(c) THEN staleNext[c]
  ELSE IF Position(c) = Len(children) THEN NoChild
  ELSE children[Position(c) + 1]

(* detachChild: the list without a child, if it was linked.                *)
Without(list, c) ==
  IF \E i \in 1 .. Len(list) : list[i] = c
  THEN LET p == CHOOSE i \in 1 .. Len(list) : list[i] = c
       IN  SubSeq(list, 1, p - 1) \o SubSeq(list, p + 1, Len(list))
  ELSE list

(* _swift_taskGroup_detachChild, for one child and then for another.       *)
Detach(c, d) ==
  /\ recordLock = NoThread
  /\ children' = Without(Without(children, c), d)
  /\ staleNext' = [x \in Children |->
       IF x \in {c, d} /\ Linked(x) THEN NextChild(x) ELSE staleNext[x]]
  /\ UNCHANGED recordLock

(* statusCancel, and the start of the walk unless somebody did it before.  *)
StartCancelAll(t) ==
  /\ status' = [status EXCEPT !.cancelled = TRUE]
  /\ cursor' = [cursor EXCEPT ![t] = IF status.cancelled THEN NoChild
                                     ELSE FirstChild]

(* _swift_taskGroup_cancelAllChildren: cancel one child, go to the next.   *)
Walk(t) ==
  /\ cursor[t] # NoChild
  /\ cancelled' = [cancelled EXCEPT ![cursor[t]] = TRUE]
  /\ cursor' = [cursor EXCEPT ![t] = NextChild(cursor[t])]
  /\ UNCHANGED <<kind, status, mutex, queues, lists, ownerCancelled, opc,
                 bodyVars, addVars, delivered, cpc, failed, kpc, history>>

-----------------------------------------------------------------------------
(* The owner adds children.                                                *)

AtRun == opc = "run" /\ cursor[Owner] = NoChild
InBody == AtRun /\ ~ closing

(* addTask: count the child as pending whether or not cancelled ...        *)
AddTask(c) ==
  /\ InBody /\ cpc[c] = "unborn"
  /\ AddPending
  /\ adding' = c /\ opc' = "create"
  /\ UNCHANGED <<kind, mutex, queues, lists, ownerCancelled, bodyVars, fresh,
                 delivered, cpc, failed, cancelled, cursor, kpc, history>>

(* ... addTaskUnlessCancelled: take it back if cancelled.                  *)
AddTaskUnlessCancelled(c) ==
  /\ InBody /\ cpc[c] = "unborn"
  /\ AddPending
  /\ adding' = c
  /\ opc' = IF status.cancelled THEN "revert" ELSE "create"
  /\ UNCHANGED <<kind, mutex, queues, lists, ownerCancelled, bodyVars, fresh,
                 delivered, cpc, failed, cancelled, cursor, kpc, history>>

RevertPending ==
  /\ opc = "revert"
  /\ status' = [status EXCEPT !.pending = @ - 1]
  /\ opc' = "run" /\ adding' = NoChild
  /\ UNCHANGED <<kind, mutex, queues, lists, ownerCancelled, bodyVars, fresh,
                 delivered, cpc, failed, cancelled, cursor, kpc, history>>

(* swift_task_create: a child of a cancelled task or group is cancelled.   *)
CreateChild ==
  /\ opc = "create"
  /\ cancelled' = [cancelled EXCEPT ![adding] = ownerCancelled \/ status.cancelled]
  /\ opc' = "link"
  /\ UNCHANGED <<kind, status, mutex, queues, lists, ownerCancelled, bodyVars,
                 addVars, delivered, cpc, failed, cursor, kpc, history>>

(* swift_taskGroup_attachChild: append it under the record lock ...        *)
LinkChild ==
  /\ opc = "link" /\ recordLock = NoThread
  /\ recordLock' = Owner
  /\ children' = Append(children, adding)
  /\ fresh' = ownerCancelled
  /\ opc' = "update"
  /\ UNCHANGED <<kind, status, mutex, queues, staleNext, ownerCancelled,
                 bodyVars, adding, delivered, cpc, failed, cancelled, cursor,
                 kpc, history>>

UpdateChildMutant ==     \* forgets the cancelled bit of the parent
  /\ opc = "update"
  /\ fresh' = status.cancelled
  /\ opc' = "store"
  /\ UNCHANGED <<kind, status, mutex, queues, lists, ownerCancelled, bodyVars,
                 adding, delivered, cpc, failed, cancelled, cursor, kpc, history>>

(* ... updateNewChildWithParentAndGroupState: compute its status ...       *)
UpdateChild ==
  /\ opc = "update"
  /\ fresh' = (fresh \/ cancelled[adding] \/ status.cancelled)
  /\ opc' = "store"
  /\ UNCHANGED <<kind, status, mutex, queues, lists, ownerCancelled, bodyVars,
                 adding, delivered, cpc, failed, cancelled, cursor, kpc, history>>

(* ... and store it, over whatever the child's status is by now; unlock,   *)
(* and enqueue the child on its executor.                                  *)
StoreChild ==
  /\ opc = "store"
  /\ cancelled' = [cancelled EXCEPT ![adding] = fresh]
  /\ recordLock' = NoThread
  /\ cpc' = [cpc EXCEPT ![adding] = "running"]
  /\ adding' = NoChild /\ fresh' = FALSE /\ opc' = "run"
  /\ UNCHANGED <<kind, status, mutex, queues, children, staleNext,
                 ownerCancelled, bodyVars, delivered, failed, cursor, kpc,
                 history>>

-----------------------------------------------------------------------------
(* The owner cancels the group, and its body ends.                         *)

CancelAll ==
  /\ InBody /\ ~ status.cancelled
  /\ StartCancelAll(Owner)
  /\ UNCHANGED <<kind, mutex, queues, lists, ownerCancelled, opc, bodyVars,
                 addVars, delivered, cpc, failed, cancelled, kpc, history>>

BodyReturns ==
  /\ InBody
  /\ closing' = TRUE
  /\ UNCHANGED <<kind, status, mutex, queues, lists, ownerCancelled, opc,
                 bodyError, thrown, addVars, delivered, cpc, failed, cancelled,
                 cursor, kpc, history>>

(* The catch clause cancels the group before it awaits the children.       *)
BodyThrows ==
  /\ InBody
  /\ closing' = TRUE /\ bodyError' = TRUE /\ thrown' = BodyError
  /\ StartCancelAll(Owner)
  /\ UNCHANGED <<kind, mutex, queues, lists, ownerCancelled, opc, addVars,
                 delivered, cpc, failed, cancelled, kpc, history>>

-----------------------------------------------------------------------------
(* next() of an accumulating group: AccumulatingTaskGroup::poll, which the *)
(* body calls, and awaitAllRemainingTasks until there is nothing left.     *)

PollEmpty ==
  /\ Accumulating /\ AtRun /\ closing /\ mutex = NoThread
  /\ IsEmpty
  /\ opc' = "destroy"
  /\ UNCHANGED <<kind, status, mutex, queues, lists, ownerCancelled, bodyVars,
                 addVars, delivered, cpc, failed, cancelled, cursor, kpc, history>>

PollReadyMutant ==         \* takes the latest result
  /\ Accumulating /\ AtRun /\ mutex = NoThread
  /\ ~ IsEmpty /\ status.ready > 0
  /\ status' = Completing(status)
  /\ delivered' = readyQueue[Len(readyQueue)]
  /\ readyQueue' = SubSeq(readyQueue, 1, Len(readyQueue) - 1)
  /\ opc' = "detach"
  /\ UNCHANGED <<kind, mutex, waitQueue, lists, ownerCancelled, bodyVars, addVars,
                 cpc, failed, cancelled, cursor, kpc, history>>

PollReady ==
  /\ Accumulating /\ AtRun /\ mutex = NoThread
  /\ ~ IsEmpty /\ status.ready > 0
  /\ status' = Completing(status)
  /\ delivered' = Head(readyQueue) /\ readyQueue' = Tail(readyQueue)
  /\ opc' = "detach"
  /\ UNCHANGED <<kind, mutex, waitQueue, lists, ownerCancelled, bodyVars, addVars,
                 cpc, failed, cancelled, cursor, kpc, history>>

PollWaitMutant ==          \* does not mark the group as waiting
  /\ Accumulating /\ AtRun /\ mutex = NoThread /\ recordLock = NoThread
  /\ ~ IsEmpty /\ status.ready = 0
  /\ waitQueue' = TRUE
  /\ opc' = "parked"
  /\ UNCHANGED <<kind, status, mutex, readyQueue, lists, ownerCancelled, bodyVars,
                 addVars, delivered, cpc, failed, cancelled, cursor, kpc, history>>

(* The owner is flagged as suspended, which waits for the record lock,     *)
(* while it holds the mutex.                                               *)
PollWait ==
  /\ Accumulating /\ AtRun /\ mutex = NoThread /\ recordLock = NoThread
  /\ ~ IsEmpty /\ status.ready = 0
  /\ status' = [status EXCEPT !.waiting = TRUE]
  /\ waitQueue' = TRUE
  /\ opc' = "parked"
  /\ UNCHANGED <<kind, mutex, readyQueue, lists, ownerCancelled, bodyVars,
                 addVars, delivered, cpc, failed, cancelled, cursor, kpc, history>>

(* The caller of poll unlinks the child it got; next() returns.            *)
DetachPolled ==
  /\ opc = "detach"
  /\ Detach(delivered, NoChild)
  /\ consumed' = Append(consumed, delivered)
  /\ delivered' = NoChild /\ opc' = "run"
  /\ UNCHANGED <<kind, status, mutex, queues, ownerCancelled, bodyVars, addVars,
                 cpc, failed, cancelled, cursor, kpc, offered>>

-----------------------------------------------------------------------------
(* TaskGroupBase::waitAll, which ends a discarding group.                  *)

(* What it throws: the error of the body wins over a stored one.           *)
WaitAllEmpty ==
  /\ Discarding /\ AtRun /\ closing /\ mutex = NoThread
  /\ IsEmpty
  /\ thrown' = IF bodyError THEN BodyError
               ELSE IF readyQueue = <<>> THEN Void ELSE Head(readyQueue)
  /\ Detach(IF readyQueue = <<>> THEN NoChild ELSE Head(readyQueue), NoChild)
  /\ readyQueue' = <<>>
  /\ opc' = "destroy"
  /\ UNCHANGED <<kind, status, mutex, waitQueue, ownerCancelled, closing,
                 bodyError, addVars, delivered, cpc, failed, cancelled, cursor,
                 kpc, history>>

WaitAllPark ==
  /\ Discarding /\ AtRun /\ closing /\ mutex = NoThread /\ recordLock = NoThread
  /\ ~ IsEmpty
  /\ readyQueue' = IF bodyError /\ readyQueue = <<>> THEN <<BodyError>>
                   ELSE readyQueue
  /\ waitQueue' = TRUE
  /\ status' = [status EXCEPT !.waiting = TRUE]
  /\ opc' = "parked"
  /\ UNCHANGED <<kind, mutex, lists, ownerCancelled, bodyVars, addVars,
                 delivered, cpc, failed, cancelled, cursor, kpc, history>>

-----------------------------------------------------------------------------
(* A child ends, with a result or an error, and completeFuture offers it   *)
(* to the group.                                                           *)

Ends(c) ==
  /\ cpc[c] = "running" /\ mutex = NoThread
  /\ mutex' = c
  /\ failed' \in {failed, [failed EXCEPT ![c] = TRUE]}
  /\ offered' = Append(offered, c)

(* AccumulatingTaskGroup::offer: lock, count the child as ready ...        *)
OfferReady(c) ==
  /\ Accumulating /\ Ends(c)
  /\ status' = [status EXCEPT !.ready = @ + 1]
  /\ cpc' = [cpc EXCEPT ![c] = IF status.waiting THEN "complete" ELSE "store"]
  /\ UNCHANGED <<kind, queues, lists, ownerCancelled, opc, bodyVars, addVars,
                 delivered, cancelled, cursor, kpc, consumed>>

(* DiscardingTaskGroup::offer: lock, count it as not pending; a failure    *)
(* cancels the group, in this thread, under the mutex.                     *)
OfferDiscarding(c) ==
  /\ Discarding /\ Ends(c)
  /\ status' = [status EXCEPT !.pending = @ - 1, !.cancelled = @ \/ failed'[c]]
  /\ cursor' = IF failed'[c] /\ ~ status.cancelled
               THEN [cursor EXCEPT ![c] = FirstChild] ELSE cursor
  /\ cpc' = [cpc EXCEPT ![c] =
               IF status.waiting /\ status.pending = 1 THEN "complete" ELSE "store"]
  /\ UNCHANGED <<kind, queues, lists, ownerCancelled, opc, bodyVars, addVars,
                 delivered, cancelled, kpc, consumed>>

Settles(c, at) == cpc[c] = at /\ mutex = c /\ cursor[c] = NoChild

Leave(c, next) ==
  /\ mutex' = NoThread
  /\ cpc' = [cpc EXCEPT ![c] = next]
  /\ UNCHANGED <<kind, ownerCancelled, opc, bodyVars, addVars, failed, cancelled,
                 cursor, kpc, history>>

(* Nobody waits: enqueue the child.                                        *)
StoreResult(c) ==
  /\ Accumulating /\ Settles(c, "store")
  /\ readyQueue' = Append(readyQueue, c)
  /\ Leave(c, "done")
  /\ UNCHANGED <<status, waitQueue, lists, delivered>>

StoresErrorMutant(c) == failed[c]
StoresError(c) == failed[c] /\ readyQueue = <<>>

(* A discarding group keeps the child with the first error only.           *)
StoreFirstError(c) ==
  /\ Discarding /\ Settles(c, "store")
  /\ IF StoresError(c)
     THEN /\ readyQueue' = <<c>> /\ UNCHANGED lists
     ELSE /\ Detach(c, NoChild) /\ UNCHANGED readyQueue
  /\ Leave(c, "done")
  /\ UNCHANGED <<status, waitQueue, delivered>>

(* The owner waits: prepareWaitingTaskWithTask, with the child ...         *)
CompleteWaiter(c) ==
  /\ Accumulating /\ Settles(c, "complete")
  /\ status' = Completing(status)
  /\ waitQueue' = FALSE
  /\ delivered' = c
  /\ Detach(c, NoChild)
  /\ Leave(c, "wake")
  /\ UNCHANGED readyQueue

(* ... or, in a discarding group, with the error stored earlier, its own   *)
(* error, or no error.  The status keeps its waiting bit.                  *)
CompleteGroup(c) ==
  /\ Discarding /\ Settles(c, "complete")
  /\ waitQueue' = FALSE
  /\ delivered' = IF readyQueue # <<>> THEN Head(readyQueue)
                  ELSE IF failed[c] THEN c ELSE Void
  /\ readyQueue' = <<>>
  /\ Detach(c, delivered')
  /\ Leave(c, "wake")
  /\ UNCHANGED status

(* runWaitingTask, after the unlock: enqueue the owner.                    *)
Wake(c) ==
  /\ cpc[c] = "wake" /\ recordLock = NoThread
  /\ cpc' = [cpc EXCEPT ![c] = "done"]
  /\ opc' = "resumed"
  /\ UNCHANGED <<kind, status, mutex, queues, lists, ownerCancelled, bodyVars,
                 addVars, delivered, failed, cancelled, cursor, kpc, history>>

(* The owner runs again: next() returns, or waitAll ends the group.        *)
Resume ==
  /\ opc = "resumed" /\ recordLock = NoThread
  /\ delivered' = NoChild
  /\ \/ /\ Accumulating
        /\ consumed' = Append(consumed, delivered)
        /\ opc' = "run" /\ UNCHANGED thrown
     \/ /\ Discarding
        /\ thrown' = IF delivered = Void THEN thrown ELSE delivered
        /\ opc' = "destroy" /\ UNCHANGED consumed
  /\ UNCHANGED <<kind, status, mutex, queues, lists, ownerCancelled, closing,
                 bodyError, addVars, cpc, failed, cancelled, cursor, kpc, offered>>

(* destroy: the record leaves the status word of the owner.                *)
Destroy ==
  /\ opc = "destroy" /\ recordLock = NoThread
  /\ opc' = "done"
  /\ UNCHANGED <<kind, status, mutex, queues, lists, ownerCancelled, bodyVars,
                 addVars, delivered, cpc, failed, cancelled, cursor, kpc, history>>

-----------------------------------------------------------------------------
(* swift_task_cancel of the owner, by another thread: set the bit ...      *)
CancelOwner ==
  /\ kpc = "idle"
  /\ ownerCancelled' = TRUE
  /\ kpc' = IF opc = "done" THEN "done" ELSE "lock"
  /\ UNCHANGED <<kind, status, mutex, queues, lists, opc, bodyVars, addVars,
                 delivered, cpc, failed, cancelled, cursor, history>>

(* ... lock the records and walk the children of the group record, if it   *)
(* is still there, without cancelling the group itself ...                 *)
LockRecords ==
  /\ kpc = "lock" /\ recordLock = NoThread
  /\ recordLock' = Canceller
  /\ cursor' = [cursor EXCEPT ![Canceller] =
                  IF opc = "done" THEN NoChild ELSE FirstChild]
  /\ kpc' = "walk"
  /\ UNCHANGED <<kind, status, mutex, queues, children, staleNext,
                 ownerCancelled, opc, bodyVars, addVars, delivered, cpc, failed,
                 cancelled, history>>

(* ... and unlock them.                                                    *)
UnlockRecords ==
  /\ kpc = "walk" /\ cursor[Canceller] = NoChild
  /\ recordLock' = NoThread /\ kpc' = "done"
  /\ UNCHANGED <<kind, status, mutex, queues, children, staleNext,
                 ownerCancelled, opc, bodyVars, addVars, delivered, cpc, failed,
                 cancelled, cursor, history>>

-----------------------------------------------------------------------------
OwnerStep ==
  \/ \E c \in Children : AddTask(c) \/ AddTaskUnlessCancelled(c)
  \/ CancelAll \/ BodyReturns \/ BodyThrows
  \/ PollReady \/ PollWait

(* What the owner does once it has begun, or its body has ended.           *)
OwnerProgress ==
  \/ RevertPending \/ CreateChild \/ LinkChild \/ UpdateChild \/ StoreChild
  \/ PollEmpty \/ DetachPolled \/ WaitAllEmpty \/ WaitAllPark \/ Resume \/ Destroy
  \/ closing /\ (PollReady \/ PollWait)
  \/ Walk(Owner)

ChildStep(c) ==
  \/ OfferReady(c) \/ OfferDiscarding(c)
  \/ StoreResult(c) \/ StoreFirstError(c) \/ CompleteWaiter(c) \/ CompleteGroup(c)
  \/ Wake(c) \/ Walk(c)

CancellerStep == LockRecords \/ Walk(Canceller) \/ UnlockRecords

Next ==
  \/ OwnerStep \/ OwnerProgress
  \/ \E c \in Children : ChildStep(c)
  \/ CancelOwner \/ CancellerStep

Spec == Init /\ [][Next]_vars

(* Liveness assumes that the executors run whoever is runnable and that    *)
(* every child ends; not that the body adds, takes or cancels anything.    *)
FairSpec ==
  /\ Spec
  /\ WF_vars(OwnerProgress)
  /\ \A c \in Children : WF_vars(ChildStep(c))
  /\ WF_vars(CancellerStep)

-----------------------------------------------------------------------------
(* Properties.                                                             *)

Delivered == IF delivered = NoChild THEN <<>> ELSE <<delivered>>
Settling  == IF mutex = NoThread THEN <<>> ELSE <<mutex>>

(* next() hands out the children of an accumulating group exactly once     *)
(* each, in the order in which they completed, whether it found them in    *)
(* the ready queue or was woken by offer; none is lost in between.         *)
ResultsInCompletionOrder ==
  Accumulating => offered = consumed \o Delivered \o readyQueue \o Settling

(* While nobody holds the mutex the status word says what the queues and   *)
(* the list of children say: the owner is in the wait queue iff the group  *)
(* is marked as waiting (a discarding one keeps the mark afterwards),      *)
(* never while results are ready, never with nothing pending.              *)
StatusAgreesWithQueues ==
  mutex = NoThread =>
    /\ waitQueue => status.waiting /\ status.pending > 0
    /\ Accumulating => /\ status.waiting => waitQueue /\ readyQueue = <<>>
                       /\ status.ready = Len(readyQueue)
    /\ Discarding => Len(readyQueue) <= 1
    /\ IsEmpty => \A c \in Children : cpc[c] # "running"

(* The owner destroys the group, whose memory is on its stack, only when   *)
(* no child and no thread will touch it again and no child is linked: what *)
(* destroy() asserts, and why offer unlocks before it wakes the owner.     *)
DestroyedWhenUnused ==
  /\ opc = "destroy" => IsEmpty /\ children = <<>> /\ readyQueue = <<>>
  /\ opc \in {"destroy", "done"} =>
       mutex = NoThread /\ \A c \in Children : cpc[c] \in {"unborn", "done"}

FirstFailure ==
  LET failures == {i \in 1 .. Len(offered) : failed[offered[i]]}
  IN  IF failures = {} THEN Void
      ELSE offered[CHOOSE i \in failures : \A j \in failures : i <= j]

(* A discarding group whose body returned throws the error of the child    *)
(* that failed first, and only then; after a body that threw, that error   *)
(* or the body's.                                                          *)
ThrowsFirstError ==
  Discarding /\ opc \in {"destroy", "done"} =>
    IF bodyError THEN thrown \in {BodyError, FirstFailure} ELSE thrown = FirstFailure

(* Once the thread that cancels the task has unlocked its records, every   *)
(* child of the group that runs is cancelled, those added later included;  *)
(* so it is when cancelAll() of an accumulating group returned.            *)
CancellationReachesChildren ==
  \/ ownerCancelled /\ kpc = "done"
  \/ Accumulating /\ status.cancelled /\ cursor[Owner] = NoChild
  => \A c \in Children : cpc[c] = "running" => cancelled[c]

(* When the body has ended and the children end, the group ends: whoever   *)
(* waits for the last child is woken by it.                                *)
GroupEnds == closing ~> opc = "done"

-----------------------------------------------------------------------------
(* What comments of the source say, and the code does not do.              *)

(* TaskGroup.cpp:87: the error thrown out of the body always wins.         *)
BodyErrorWins ==
  Discarding /\ bodyError /\ opc = "done" => thrown = BodyError
=============================================================================
