-------------------------- MODULE TaskStatus_proofs --------------------------
(***************************************************************************)
(* Theorems about TaskStatus, for any set of handlers, children, threads   *)
(* and priorities: its record list, how a task is suspended and made       *)
(* runnable, and what its cancellation and its escalation reach.           *)
(***************************************************************************)
EXTENDS TaskStatus, SequenceTheorems, TLAPS

(* The record list changes only while it is unlocked or locked by the task *)
(* itself, so what a canceller or an escalator still has to visit stays in *)
(* the list.  LockInv says who holds the lock at which point of its code.  *)
Scanning(t) == cpc[t] \in {"scan", "handler"}

LockInv ==
  /\ \A t \in Cancellers \cup Escalators :
       /\ Scanning(t) <=> status.owner = t
       /\ cpc[t] = "handler" => todo[t] # <<>>
  /\ tpc = "splice" <=> status.owner = Task
  /\ tpc = "splice" => InList(op)
  /\ \A r \in Resumers : rpc[r] = "update" <=> status.owner = r
  /\ \A c \in Cancellers : rpc[c] # "lock"

IInv == TypeOK /\ LockInv /\ VisitsOnlyLiveRecords

-----------------------------------------------------------------------------
(* What the helpers return.                                                *)

LEMMA DowngradeType ==
  ASSUME NEW p \in Priorities
  PROVE  Downgrade(p) \in Priorities
BY BoundsAssumption DEF Downgrade, Priorities

LEMMA PushType ==
  ASSUME NEW s \in Status, NEW r \in Records
  PROVE  Push(s, r) \in Status
<1>1. s.records \in Seq(Records)
  BY DEF Status
<1>2. <<r>> \in Seq(Records)
  OBVIOUS
<1>3. <<r>> \o s.records \in Seq(Records)
  BY <1>1, <1>2, ConcatProperties
<1>4. Push(s, r) = [s EXCEPT !.records = <<r>> \o s.records]
  BY DEF Push
<1> DEFINE list == <<r>> \o s.records
<1>5. list \in Seq(Records) /\ Push(s, r) = [s EXCEPT !.records = list]
  BY <1>3, <1>4
<1> HIDE DEF Records, Threads, Priorities, list
<1> QED BY <1>5 DEF Status

LEMMA PopType ==
  ASSUME NEW s \in Status, s.records # <<>>
  PROVE  Pop(s) \in Status
<1> DEFINE list == Tail(s.records)
<1>1. s.records \in Seq(Records)
  BY DEF Status
<1>2. list \in Seq(Records) /\ Pop(s) = [s EXCEPT !.records = list]
  BY <1>1, HeadTailProperties DEF Pop
<1> HIDE DEF Records, Threads, Priorities, list
<1> QED BY <1>2 DEF Status

LEMMA SpliceType ==
  ASSUME NEW seq \in Seq(Records), NEW r, \E i \in 1 .. Len(seq) : seq[i] = r
  PROVE  Splice(seq, r) \in Seq(Records)
<1> DEFINE i == CHOOSE k \in 1 .. Len(seq) : seq[k] = r
<1>1. i \in 1 .. Len(seq)
  OBVIOUS
<1>2. SubSeq(seq, 1, i - 1) \in Seq(Records)
  BY <1>1, SubSeqProperties
<1>3. SubSeq(seq, i + 1, Len(seq)) \in Seq(Records)
  BY <1>1, SubSeqProperties
<1> QED BY <1>2, <1>3 DEF Splice

(* A sequence without its first element has the other elements.            *)
LEMMA TailElements ==
  ASSUME NEW S, NEW seq \in Seq(S), seq # <<>>
  PROVE  /\ Tail(seq) \in Seq(S)
         /\ \A i \in 1 .. Len(Tail(seq)) :
              i + 1 \in 1 .. Len(seq) /\ Tail(seq)[i] = seq[i + 1]
OBVIOUS

-----------------------------------------------------------------------------
LEMMA InitInv == Init => IInv
<1> SUFFICES ASSUME Init PROVE IInv
  OBVIOUS
<1>1. status \in Status
  <2>1. status.records \in Seq(Records)
    <3>1. CASE InitialPreference
      BY <3>1 DEF Init, Records
    <3>2. CASE ~ InitialPreference
      BY <3>2 DEF Init
    <3> QED BY <3>1, <3>2
  <2>2. status.preference \in BOOLEAN /\ status.priority \in Priorities
    BY BoundsAssumption, RecordsAssumption DEF Init, Priorities
  <2> QED BY <2>1, <2>2 DEF Init, Status
<1>2. TypeOK
  <2>1. 1 \in Priorities /\ 0 \in 0 .. MaxAwaits /\ Dependency \in Records
    BY BoundsAssumption DEF Priorities, Records
  <2>2. child \in [AsyncLets -> [cancelled: BOOLEAN, priority: Priorities]]
    BY <2>1 DEF Init
  <2>3. todo \in [Cancellers \cup Escalators -> Seq(Records)]
    BY DEF Init
  <2> QED BY <1>1, <2>1, <2>2, <2>3 DEF Init, TypeOK
<1>3. LockInv
  BY ThreadsAssumption DEF Init, LockInv, Scanning, Threads
<1>4. VisitsOnlyLiveRecords
  BY DEF Init, VisitsOnlyLiveRecords
<1> QED BY <1>2, <1>3, <1>4 DEF IInv

-----------------------------------------------------------------------------
(* Every step preserves the types.                                         *)

LEMMA StatusFields ==
  ASSUME status \in Status
  PROVE  /\ status.priority \in Priorities
         /\ status.cancelled \in BOOLEAN
         /\ status.records \in Seq(Records)
BY DEF Status

LEMMA FlagTypes ==
  ASSUME NEW s \in Status
  PROVE  /\ AsRunning(s) \in Status
         /\ AsSuspended(s) \in Status
         /\ AsEnqueued(s) \in Status
         /\ AsComplete(s) \in Status
BY DEF Status, AsRunning, AsSuspended, AsEnqueued, AsComplete

LEMMA CancelledChildType ==
  ASSUME NEW f \in [AsyncLets -> [cancelled: BOOLEAN, priority: Priorities]],
         NEW a \in AsyncLets
  PROVE  [f EXCEPT ![a].cancelled = TRUE]
           \in [AsyncLets -> [cancelled: BOOLEAN, priority: Priorities]]
<1>1. [f[a] EXCEPT !.cancelled = TRUE] \in [cancelled: BOOLEAN, priority: Priorities]
  OBVIOUS
<1> DEFINE g == [f[a] EXCEPT !.cancelled = TRUE]
<1>2. [f EXCEPT ![a] = g] \in [AsyncLets -> [cancelled: BOOLEAN, priority: Priorities]]
  <2> HIDE DEF g
  <2>1. g \in [cancelled: BOOLEAN, priority: Priorities]
    BY <1>1 DEF g
  <2> QED BY <2>1
<1>3. [f EXCEPT ![a].cancelled = TRUE] = [f EXCEPT ![a] = g]
  OBVIOUS
<1> QED BY <1>2, <1>3

LEMMA TaskTypeStep == TypeOK /\ LockInv /\ TaskStep => TypeOK'
<1> SUFFICES ASSUME TypeOK, LockInv, TaskStep PROVE TypeOK'
  OBVIOUS
<1> USE DEF taskVars, waitVars, cancelVars
<1>0. status \in Status
  BY DEF TypeOK
<1>1. ASSUME NEW h \in Handlers, AddHandler(h) PROVE TypeOK'
  <2>1. Push(status, h) \in Status
    BY <1>0, PushType DEF Records
  <2> QED BY <1>1, <2>1 DEF AddHandler, TypeOK, Records
<1>2. CASE FireHandlerNow
  <2>1. calls' \in [Handlers -> Nat]
    <3>1. calls \in [Handlers -> Nat] /\ calls' = [calls EXCEPT ![op] = @ + 1]
      BY <1>2 DEF FireHandlerNow, TypeOK
    <3>2. CASE op \in Handlers
      BY <3>1, <3>2
    <3>3. CASE op \notin Handlers
      BY <3>1, <3>3
    <3> QED BY <3>2, <3>3
  <2> QED BY <1>2, <2>1 DEF FireHandlerNow, TypeOK
<1>3. ASSUME NEW a \in AsyncLets, StartAsyncLet(a) PROVE TypeOK'
  <2>1. Push(status, a) \in Status
    BY <1>0, PushType DEF Records
  <2>2. Downgrade(status.priority) \in Priorities /\ status.cancelled \in BOOLEAN
    BY <1>0, StatusFields, DowngradeType
  <2> QED BY <1>3, <2>1, <2>2 DEF StartAsyncLet, TypeOK
<1>4. ASSUME NEW p \in Preferences, PushPreference(p) PROVE TypeOK'
  <2>1. Push(status, p) \in Status
    BY <1>0, PushType DEF Records
  <2>2. status' \in Status
    BY <1>4, <2>1 DEF PushPreference, Status
  <2> QED BY <1>4, <2>2 DEF PushPreference, TypeOK
<1>5. ASSUME NEW r \in Handlers \cup AsyncLets, LeaveScope(r) PROVE TypeOK'
  <2>1. child \in [AsyncLets -> [cancelled: BOOLEAN, priority: Priorities]]
    BY DEF TypeOK
  <2>2. \/ child' = child
        \/ r \in AsyncLets /\ child' = [child EXCEPT ![r].cancelled = TRUE]
    BY <1>5 DEF LeaveScope
  <2>3. child' \in [AsyncLets -> [cancelled: BOOLEAN, priority: Priorities]]
    BY <2>1, <2>2, CancelledChildType
  <2> QED BY <1>5, <2>3 DEF LeaveScope, TypeOK, Records
<1>6. CASE RemoveInnermost
  <2>1. Pop(status) \in Status
    BY <1>0, <1>6, PopType DEF RemoveInnermost, Innermost
  <2> QED BY <1>6, <2>1 DEF RemoveInnermost, TypeOK
<1>7. ASSUME NEW r \in Preferences \cup {InitialPref}, LockToSplice(r) PROVE TypeOK'
  <2>1. status' \in Status
    BY <1>0, <1>7 DEF LockToSplice, Lock, Status, Threads
  <2> QED BY <1>7, <2>1 DEF LockToSplice, TypeOK, Records
<1>8. CASE SpliceAndUnlock
  <2>1. Splice(status.records, op) \in Seq(Records)
    BY <1>0, <1>8, SpliceType, StatusFields DEF SpliceAndUnlock, LockInv, InList
  <2> DEFINE keep == status.preference /\ (op = InitialPref \/ PreferenceCount # 1)
  <2>2. keep \in BOOLEAN
    OBVIOUS
  <2>3. status' = [status EXCEPT !.records = Splice(status.records, op),
                                 !.owner = NoThread, !.preference = keep]
    BY <1>8 DEF SpliceAndUnlock
  <2> HIDE DEF keep
  <2>4. status' \in Status
    BY <1>0, <2>1, <2>2, <2>3 DEF Status
  <2> QED BY <1>8, <2>4 DEF SpliceAndUnlock, TypeOK
<1>9. CASE InitContinuation
  BY <1>9, BoundsAssumption DEF InitContinuation, TypeOK
<1>10. Push(status, Dependency) \in Status
  BY <1>0, PushType DEF Records
<1>11. CASE InitPreawaited
  BY <1>10, <1>11, FlagTypes, BoundsAssumption DEF InitPreawaited, TypeOK
<1>12. CASE AwaitResumed
  BY <1>12 DEF AwaitResumed, TypeOK
<1>13. CASE SuspendOnContinuation
  BY <1>10, <1>13, FlagTypes DEF SuspendOnContinuation, TypeOK
<1>14. CASE PublishAwait
  BY <1>14 DEF PublishAwait, TypeOK
<1>15. ASSUME FlagAsRunning PROVE TypeOK'
  <2>1. Pop(status) \in Status
    BY <1>0, <1>15, PopType DEF FlagAsRunning, Innermost
  <2> QED BY <1>15, <2>1, FlagTypes DEF FlagAsRunning, TypeOK
<1>16. CASE SwitchExecutor
  <2>1. status' \in Status
    BY <1>10, <1>16, FlagTypes DEF SwitchExecutor
  <2>2. seen' \in [Threads -> Priorities]
    BY <1>0, <1>16, StatusFields DEF SwitchExecutor, TypeOK
  <2>3. awaits' \in 0 .. MaxAwaits
    BY <1>16, BoundsAssumption DEF SwitchExecutor, TypeOK
  <2> QED BY <1>16, <2>1, <2>2, <2>3 DEF SwitchExecutor, TypeOK
<1>17. CASE EnqueueSelf
  BY <1>17 DEF EnqueueSelf, TypeOK, Threads
<1>18. CASE Dequeue
  BY <1>18 DEF Dequeue, TypeOK
<1>19. CASE Return
  BY <1>19 DEF Return, TypeOK
<1>20. CASE Complete
  BY <1>0, <1>20, FlagTypes DEF Complete, TypeOK
<1> QED
  BY <1>1, <1>2, <1>3, <1>4, <1>5, <1>6, <1>7, <1>8, <1>9, <1>11, <1>12, <1>13,
     <1>14, <1>15, <1>16, <1>17, <1>18, <1>19, <1>20
  DEF TaskStep, ResumeWithoutEnqueue, Start

LEMMA ResumeTypeStep ==
  ASSUME TypeOK, NEW t \in Cancellers \cup Resumers, ResumeStep(t)
  PROVE  TypeOK'
<1> USE DEF taskVars, waitVars, cancelVars
<1>0. status \in Status /\ t \in Threads
  BY DEF TypeOK, Threads
<1>1. CASE ResumePending(t)
  BY <1>1 DEF ResumePending, TypeOK
<1>2. CASE ResumeAwaited(t)
  <2>1. status.priority \in Priorities
    BY <1>0, StatusFields
  <2> QED BY <1>2, <2>1 DEF ResumeAwaited, TypeOK
<1>3. CASE ResumeLock(t)
  <2>1. status' \in Status
    BY <1>0, <1>3 DEF ResumeLock, Lock, Status
  <2> QED BY <1>3, <2>1 DEF ResumeLock, TypeOK
<1>4. CASE ResumeUpdate(t)
  <2>1. AsEnqueued(status) \in Status
    BY <1>0, FlagTypes
  <2>2. status' \in Status
    BY <1>4, <2>1 DEF ResumeUpdate, Status
  <2> QED BY <1>4, <2>2 DEF ResumeUpdate, TypeOK
<1>5. CASE ResumeEnqueue(t)
  BY <1>0, <1>5 DEF ResumeEnqueue, TypeOK
<1> QED BY <1>1, <1>2, <1>3, <1>4, <1>5 DEF ResumeStep

LEMMA CancelTypeStep ==
  ASSUME TypeOK, NEW c \in Cancellers, Cancel(c)
  PROVE  TypeOK'
<1> USE DEF taskVars, waitVars
<1>1. status' \in Status
  BY DEF Cancel, TypeOK, Status
<1>2. cpc' \in [Cancellers \cup Escalators -> {"idle", "lock", "scan", "handler"}]
  BY DEF Cancel, TypeOK
<1> QED BY <1>1, <1>2 DEF Cancel, TypeOK

LEMMA EscalateTypeStep ==
  ASSUME TypeOK, NEW e \in Escalators, NEW p \in Priorities, Escalate(e, p)
  PROVE  TypeOK'
<1> USE DEF taskVars, waitVars
<1>1. status' \in Status
  <2> DEFINE mark == status.escalated \/ status.running \/ status.enqueued
  <2>1. mark \in BOOLEAN
    OBVIOUS
  <2>2. status' = [status EXCEPT !.priority = p, !.escalated = mark]
    BY DEF Escalate
  <2> HIDE DEF mark
  <2> QED BY <2>1, <2>2 DEF TypeOK, Status
<1>2. cpc' \in [Cancellers \cup Escalators -> {"idle", "lock", "scan", "handler"}]
  BY DEF Escalate, TypeOK
<1> QED BY <1>1, <1>2 DEF Escalate, TypeOK

LEMMA PropagateTypeStep ==
  ASSUME TypeOK, LockInv, NEW t \in Cancellers \cup Escalators, Propagate(t)
  PROVE  TypeOK'
<1> USE DEF taskVars, waitVars
<1>0. status \in Status /\ t \in Threads
  BY DEF TypeOK, Threads
<1>1. CASE LockToPropagate(t)
  <2>1. status' \in Status
    BY <1>0, <1>1 DEF LockToPropagate, Lock, Status
  <2>2. status.records \in Seq(Records)
    BY <1>0, StatusFields
  <2> QED BY <1>1, <2>1, <2>2 DEF LockToPropagate, TypeOK
<1>2. CASE Unlock(t)
  <2>1. status' \in Status
    BY <1>0, <1>2 DEF Unlock, Status
  <2> QED BY <1>2, <2>1 DEF Unlock, TypeOK
<1>3. ASSUME todo[t] # <<>>, VisitNext(t)
      PROVE  todo' \in [Cancellers \cup Escalators -> Seq(Records)]
  <2>1. todo[t] \in Seq(Records)
    BY DEF TypeOK
  <2>2. Tail(todo[t]) \in Seq(Records)
    BY <1>3, <2>1, TailElements
  <2> QED BY <1>3, <2>2 DEF VisitNext, TypeOK
<1>4. CASE t \in Cancellers /\ CancelCallHandler(t)
  BY <1>4 DEF CancelCallHandler, TypeOK
<1>5. CASE t \in Cancellers /\ HandlerReturns(t)
  <2>1. todo[t] # <<>>
    BY <1>5 DEF HandlerReturns, LockInv
  <2> QED BY <1>3, <1>5, <2>1 DEF HandlerReturns, TypeOK
<1>6. CASE t \in Cancellers /\ CancelVisit(t)
  <2>1. child' \in [AsyncLets -> [cancelled: BOOLEAN, priority: Priorities]]
    BY <1>6 DEF CancelVisit, TypeOK
  <2> QED BY <1>3, <1>6, <2>1 DEF CancelVisit, Visiting, TypeOK
<1>7. CASE t \in Escalators /\ EscalateVisit(t)
  <2>1. child' \in [AsyncLets -> [cancelled: BOOLEAN, priority: Priorities]]
    BY <1>7 DEF EscalateVisit, TypeOK
  <2> QED BY <1>3, <1>7, <2>1 DEF EscalateVisit, Visiting, TypeOK
<1> QED BY <1>1, <1>2, <1>4, <1>5, <1>6, <1>7 DEF Propagate

LEMMA TypeStep == TypeOK /\ LockInv /\ [Next]_vars => TypeOK'
<1> SUFFICES ASSUME TypeOK, LockInv, [Next]_vars PROVE TypeOK'
  OBVIOUS
<1>1. CASE UNCHANGED vars
  BY <1>1 DEF vars, taskVars, waitVars, cancelVars, TypeOK
<1>2. CASE Next
  BY <1>2, TaskTypeStep, ResumeTypeStep, CancelTypeStep, EscalateTypeStep,
     PropagateTypeStep DEF Next
<1> QED BY <1>1, <1>2

-----------------------------------------------------------------------------
(* Every step preserves who holds the lock and what is still in the list.  *)

LEMMA HelperFields ==
  ASSUME NEW s \in Status
  PROVE  /\ \A r : Push(s, r).owner = s.owner
         /\ Pop(s).owner = s.owner
         /\ AsRunning(s).owner = s.owner
         /\ AsSuspended(s).owner = s.owner
         /\ AsEnqueued(s).owner = s.owner
         /\ AsComplete(s).owner = s.owner
         /\ AsEnqueued(s).records = s.records
         /\ AsComplete(s).records = s.records
BY DEF Status, Push, Pop, AsRunning, AsSuspended, AsEnqueued, AsComplete

(* While the list is unlocked, or locked by the task, nobody walks it.     *)
LEMMA NobodyScans ==
  ASSUME LockInv, status.owner \in {NoThread, Task}
  PROVE  \A t \in Cancellers \cup Escalators : ~ Scanning(t)
BY ThreadsAssumption DEF LockInv, Threads

LEMMA VisitsFrame ==
  ASSUME VisitsOnlyLiveRecords, UNCHANGED <<cpc, todo>>,
         status'.records = status.records
  PROVE  VisitsOnlyLiveRecords'
BY DEF VisitsOnlyLiveRecords, InList

LEMMA VisitsNobody ==
  ASSUME UNCHANGED cpc, \A t \in Cancellers \cup Escalators : ~ Scanning(t)
  PROVE  VisitsOnlyLiveRecords'
BY DEF VisitsOnlyLiveRecords, Scanning

(* A step of the task that keeps the lock as it is.                        *)
LEMMA LockFrame ==
  ASSUME LockInv, UNCHANGED <<cpc, todo, rpc>>, status'.owner = status.owner,
         tpc # "splice", tpc' # "splice"
  PROVE  LockInv'
BY DEF LockInv, Scanning

LEMMA TaskLockStep ==
  ASSUME IInv, TaskStep
  PROVE  LockInv' /\ VisitsOnlyLiveRecords'
<1> USE DEF taskVars, waitVars, cancelVars
<1>0. status \in Status /\ LockInv /\ VisitsOnlyLiveRecords
  BY DEF IInv, TypeOK
<1>1. ASSUME UNCHANGED <<cpc, todo, rpc>>, ~ Locked, status'.owner = status.owner,
             tpc # "splice", tpc' # "splice"
      PROVE  LockInv' /\ VisitsOnlyLiveRecords'
  BY <1>0, <1>1, NobodyScans, VisitsNobody, LockFrame DEF Locked
<1>2. ASSUME UNCHANGED <<status, cpc, todo, rpc>>, tpc # "splice", tpc' # "splice"
      PROVE  LockInv' /\ VisitsOnlyLiveRecords'
  BY <1>0, <1>2, VisitsFrame, LockFrame
<1>3. ASSUME NEW h \in Handlers, AddHandler(h) PROVE LockInv' /\ VisitsOnlyLiveRecords'
  BY <1>0, <1>1, <1>3, HelperFields DEF AddHandler, InBody
<1>4. CASE FireHandlerNow
  BY <1>2, <1>4 DEF FireHandlerNow
<1>5. ASSUME NEW a \in AsyncLets, StartAsyncLet(a) PROVE LockInv' /\ VisitsOnlyLiveRecords'
  BY <1>0, <1>1, <1>5, HelperFields DEF StartAsyncLet, InBody
<1>6. ASSUME NEW p \in Preferences, PushPreference(p)
      PROVE  LockInv' /\ VisitsOnlyLiveRecords'
  <2>1. Push(status, p) \in Status
    BY <1>0, PushType DEF Records
  <2>2. status'.owner = status.owner
    BY <1>0, <1>6, <2>1, HelperFields DEF PushPreference, Status
  <2> QED BY <1>1, <1>6, <2>2 DEF PushPreference, InBody
<1>7. ASSUME NEW r \in Handlers \cup AsyncLets, LeaveScope(r)
      PROVE  LockInv' /\ VisitsOnlyLiveRecords'
  BY <1>2, <1>7 DEF LeaveScope, InBody
<1>8. CASE RemoveInnermost
  BY <1>0, <1>1, <1>8, HelperFields DEF RemoveInnermost
<1>9. ASSUME NEW r \in Preferences \cup {InitialPref}, LockToSplice(r)
      PROVE  LockInv' /\ VisitsOnlyLiveRecords'
  <2>1. /\ status'.owner = Task /\ status'.records = status.records
        /\ status.owner = NoThread
    BY <1>0, <1>9 DEF LockToSplice, Lock, Locked, Status
  <2>2. status.records \in Seq(Records) /\ status.records # <<>> /\ op' = status.records[1]
    BY <1>0, <1>9, StatusFields DEF LockToSplice, Innermost
  <2>3. InList(op)'
    BY <2>1, <2>2 DEF InList
  <2>4. tpc' = "splice" /\ UNCHANGED <<cpc, todo, rpc>>
    BY <1>9 DEF LockToSplice
  <2>5. LockInv'
    BY <1>0, <2>1, <2>3, <2>4, ThreadsAssumption, NobodyScans
    DEF LockInv, Scanning, Threads
  <2> QED BY <1>0, <2>1, <2>4, <2>5, VisitsFrame
<1>10. CASE SpliceAndUnlock
  <2>1. status.owner = Task /\ status'.owner = NoThread
    BY <1>0, <1>10 DEF SpliceAndUnlock, LockInv, Status
  <2>2. tpc' # "splice" /\ UNCHANGED <<cpc, todo, rpc>>
    BY <1>10 DEF SpliceAndUnlock
  <2>3. LockInv'
    BY <1>0, <2>1, <2>2, ThreadsAssumption, NobodyScans DEF LockInv, Scanning, Threads
  <2> QED BY <1>0, <2>1, <2>2, <2>3, NobodyScans, VisitsNobody
<1>11. CASE InitContinuation
  BY <1>2, <1>11 DEF InitContinuation, InBody
<1>12. Push(status, Dependency) \in Status
  BY <1>0, PushType DEF Records
<1>13. /\ AsSuspended(Push(status, Dependency)).owner = status.owner
       /\ AsEnqueued(AsSuspended(Push(status, Dependency))).owner = status.owner
  BY <1>0, <1>12, HelperFields, FlagTypes
<1>14. CASE InitPreawaited
  BY <1>1, <1>13, <1>14 DEF InitPreawaited, InBody
<1>15. CASE AwaitResumed
  BY <1>2, <1>15 DEF AwaitResumed
<1>16. CASE SuspendOnContinuation
  BY <1>1, <1>13, <1>16 DEF SuspendOnContinuation
<1>17. CASE PublishAwait
  BY <1>2, <1>17 DEF PublishAwait
<1>18. ASSUME FlagAsRunning, tpc # "splice" PROVE LockInv' /\ VisitsOnlyLiveRecords'
  <2>1. Pop(status) \in Status
    BY <1>0, <1>18, PopType DEF FlagAsRunning, Innermost
  <2> QED BY <1>0, <1>1, <1>18, <2>1, HelperFields DEF FlagAsRunning
<1>19. CASE SwitchExecutor
  BY <1>1, <1>13, <1>19 DEF SwitchExecutor, InBody
<1>20. CASE EnqueueSelf
  BY <1>2, <1>20 DEF EnqueueSelf
<1>21. CASE Dequeue
  BY <1>2, <1>21 DEF Dequeue
<1>22. CASE Return
  BY <1>2, <1>22 DEF Return, InBody
<1>23. CASE Complete
  BY <1>0, <1>23, HelperFields, VisitsFrame, LockFrame DEF Complete
<1> QED
  BY <1>3, <1>4, <1>5, <1>6, <1>7, <1>8, <1>9, <1>10, <1>11, <1>14, <1>15, <1>16,
     <1>17, <1>18, <1>19, <1>20, <1>21, <1>22, <1>23
  DEF TaskStep, ResumeWithoutEnqueue, Start

LEMMA ResumeLockStep ==
  ASSUME IInv, NEW t \in Cancellers \cup Resumers, ResumeStep(t)
  PROVE  LockInv' /\ VisitsOnlyLiveRecords'
<1> USE DEF taskVars, waitVars, cancelVars
<1>0. /\ status \in Status /\ LockInv /\ VisitsOnlyLiveRecords
      /\ rpc \in [Cancellers \cup Resumers -> {"idle", "lock", "update", "enqueue"}]
  BY DEF IInv, TypeOK
<1>1. CASE ResumePending(t)
  BY <1>0, <1>1, VisitsFrame DEF ResumePending, LockInv, Scanning, InList
<1>2. CASE ResumeAwaited(t)
  <2>1. t \in Cancellers => status.owner = t
    BY <1>0, <1>2 DEF ResumeAwaited, MayResume, LockInv, Scanning
  <2>2. t \in Resumers => status.owner # t
    BY <1>0, <1>2 DEF ResumeAwaited, MayResume, LockInv
  <2>3. LockInv'
    BY <1>0, <1>2, <2>1, <2>2 DEF ResumeAwaited, LockInv, Scanning, InList
  <2> QED BY <1>0, <1>2, <2>3, VisitsFrame DEF ResumeAwaited
<1>3. CASE ResumeLock(t)
  <2>1. /\ status'.owner = t /\ status'.records = status.records
        /\ status.owner = NoThread
    BY <1>0, <1>3 DEF ResumeLock, Lock, Locked, Status
  <2>2. t \in Resumers
    BY <1>0, <1>3 DEF ResumeLock, LockInv
  <2>3. LockInv'
    BY <1>0, <1>3, <2>1, <2>2, ThreadsAssumption
    DEF ResumeLock, LockInv, Scanning, InList, Threads
  <2> QED BY <1>0, <1>3, <2>1, <2>3, VisitsFrame DEF ResumeLock
<1>4. CASE ResumeUpdate(t)
  <2>1. AsEnqueued(status) \in Status
    BY <1>0, FlagTypes
  <2>2. status'.records = status.records
    BY <1>0, <1>4, <2>1, HelperFields DEF ResumeUpdate, Status
  <2>3. status'.owner = IF t \in Resumers THEN NoThread ELSE status.owner
    BY <1>0, <1>4, <2>1, HelperFields DEF ResumeUpdate, Status
  <2>4. t \in Resumers => status.owner = t
    BY <1>0, <1>4 DEF ResumeUpdate, LockInv
  <2>5. LockInv'
    BY <1>0, <1>4, <2>2, <2>3, <2>4, ThreadsAssumption
    DEF ResumeUpdate, LockInv, Scanning, InList, Threads
  <2> QED BY <1>0, <1>4, <2>2, <2>5, VisitsFrame DEF ResumeUpdate
<1>5. CASE ResumeEnqueue(t)
  BY <1>0, <1>5, VisitsFrame DEF ResumeEnqueue, LockInv, Scanning, InList
<1> QED BY <1>1, <1>2, <1>3, <1>4, <1>5 DEF ResumeStep

LEMMA CancelLockStep ==
  ASSUME IInv, NEW c \in Cancellers, Cancel(c)
  PROVE  LockInv' /\ VisitsOnlyLiveRecords'
<1>1. /\ status'.owner = status.owner /\ status'.records = status.records
      /\ cpc' = [cpc EXCEPT ![c] = IF HasRecord THEN "lock" ELSE "idle"]
      /\ cpc[c] = "idle" /\ UNCHANGED <<tpc, op, rpc, todo>>
  BY DEF IInv, TypeOK, Status, Cancel, taskVars, waitVars
<1>2. cpc \in [Cancellers \cup Escalators -> {"idle", "lock", "scan", "handler"}]
  BY DEF IInv, TypeOK
<1>3. \A t \in Cancellers \cup Escalators :
        (Scanning(t)' <=> Scanning(t)) /\ (cpc'[t] = "handler" <=> cpc[t] = "handler")
  BY <1>1, <1>2 DEF Scanning
<1> QED BY <1>1, <1>3 DEF IInv, LockInv, VisitsOnlyLiveRecords, InList, Scanning

LEMMA EscalateLockStep ==
  ASSUME IInv, NEW e \in Escalators, NEW p \in Priorities, Escalate(e, p)
  PROVE  LockInv' /\ VisitsOnlyLiveRecords'
<1>1. /\ status'.owner = status.owner /\ status'.records = status.records
      /\ cpc' = [cpc EXCEPT ![e] = IF HasRecord THEN "lock" ELSE "idle"]
      /\ cpc[e] = "idle" /\ UNCHANGED <<tpc, op, rpc, todo>>
  BY DEF IInv, TypeOK, Status, Escalate, taskVars, waitVars
<1>2. cpc \in [Cancellers \cup Escalators -> {"idle", "lock", "scan", "handler"}]
  BY DEF IInv, TypeOK
<1>3. \A t \in Cancellers \cup Escalators :
        (Scanning(t)' <=> Scanning(t)) /\ (cpc'[t] = "handler" <=> cpc[t] = "handler")
  BY <1>1, <1>2 DEF Scanning
<1> QED BY <1>1, <1>3 DEF IInv, LockInv, VisitsOnlyLiveRecords, InList, Scanning

LEMMA PropagateLockStep ==
  ASSUME IInv, NEW t \in Cancellers \cup Escalators, Propagate(t)
  PROVE  LockInv' /\ VisitsOnlyLiveRecords'
<1> USE DEF taskVars, waitVars
<1>0. /\ status \in Status /\ LockInv /\ VisitsOnlyLiveRecords
      /\ cpc \in [Cancellers \cup Escalators -> {"idle", "lock", "scan", "handler"}]
      /\ todo \in [Cancellers \cup Escalators -> Seq(Records)]
  BY DEF IInv, TypeOK
<1>1. CASE LockToPropagate(t)
  <2>1. /\ status'.owner = t /\ status'.records = status.records
        /\ status.owner = NoThread
    BY <1>0, <1>1 DEF LockToPropagate, Lock, Locked, Status
  <2>2. \A u \in Cancellers \cup Escalators : ~ Scanning(u)
    BY <1>0, <2>1, NobodyScans
  <2>3. /\ cpc' = [cpc EXCEPT ![t] = "scan"]
        /\ todo' = [todo EXCEPT ![t] = status.records]
        /\ UNCHANGED <<tpc, op, rpc>>
    BY <1>1 DEF LockToPropagate
  <2>4. LockInv'
    BY <1>0, <2>1, <2>2, <2>3, ThreadsAssumption DEF LockInv, Scanning, InList, Threads
  <2>5. VisitsOnlyLiveRecords'
    BY <1>0, <2>1, <2>2, <2>3 DEF VisitsOnlyLiveRecords, InList, Scanning
  <2> QED BY <2>4, <2>5
<1>2. CASE Unlock(t)
  <2>1. status'.owner = NoThread /\ status'.records = status.records
    BY <1>0, <1>2 DEF Unlock, Status
  <2>2. status.owner = t
    BY <1>0, <1>2 DEF Unlock, LockInv, Scanning
  <2>3. cpc' = [cpc EXCEPT ![t] = "idle"] /\ UNCHANGED <<tpc, op, rpc, todo>>
    BY <1>2 DEF Unlock
  <2>4. LockInv'
    BY <1>0, <2>1, <2>2, <2>3, ThreadsAssumption DEF LockInv, Scanning, InList, Threads
  <2>5. \A u \in Cancellers \cup Escalators : Scanning(u)' => Scanning(u)
    BY <1>0, <2>3 DEF Scanning
  <2>6. VisitsOnlyLiveRecords'
    BY <1>0, <2>1, <2>3, <2>5 DEF VisitsOnlyLiveRecords, InList, Scanning
  <2> QED BY <2>4, <2>6
<1>3. ASSUME Scanning(t), todo[t] # <<>>, VisitNext(t),
             cpc' = [cpc EXCEPT ![t] = "scan"], UNCHANGED <<status, tpc, op, rpc>>
      PROVE  LockInv' /\ VisitsOnlyLiveRecords'
  <2>1. LockInv'
    BY <1>0, <1>3 DEF LockInv, Scanning, VisitNext, InList
  <2>2. /\ Tail(todo[t]) \in Seq(Records)
        /\ \A i \in 1 .. Len(Tail(todo[t])) :
             i + 1 \in 1 .. Len(todo[t]) /\ Tail(todo[t])[i] = todo[t][i + 1]
    BY <1>0, <1>3, TailElements
  <2>3. \A i \in 1 .. Len(Tail(todo[t])) : InList(Tail(todo[t])[i])
    BY <1>0, <1>3, <2>2 DEF VisitsOnlyLiveRecords, Scanning
  <2>4. todo'[t] = Tail(todo[t]) /\ \A u \in Cancellers \cup Escalators :
          u # t => todo'[u] = todo[u] /\ cpc'[u] = cpc[u]
    BY <1>0, <1>3 DEF VisitNext
  <2>5. \A r : InList(r)' <=> InList(r)
    BY <1>3 DEF InList
  <2>6. ASSUME NEW u \in Cancellers \cup Escalators, cpc'[u] \in {"scan", "handler"}
        PROVE  \A i \in 1 .. Len(todo'[u]) : InList(todo'[u][i])
    <3>1. CASE u = t
      BY <2>3, <2>4, <3>1
    <3>2. CASE u # t
      BY <1>0, <2>4, <2>6, <3>2 DEF VisitsOnlyLiveRecords
    <3> QED BY <3>1, <3>2
  <2>7. VisitsOnlyLiveRecords'
    BY <2>5, <2>6 DEF VisitsOnlyLiveRecords
  <2> QED BY <2>1, <2>7
<1>4. CASE t \in Cancellers /\ CancelCallHandler(t)
  <2>1. cpc' = [cpc EXCEPT ![t] = "handler"] /\ UNCHANGED <<status, tpc, op, rpc, todo>>
    BY <1>4 DEF CancelCallHandler
  <2>2. cpc[t] = "scan" /\ todo[t] # <<>>
    BY <1>4 DEF CancelCallHandler, Visiting
  <2>3. LockInv'
    BY <1>0, <2>1, <2>2 DEF LockInv, Scanning, InList
  <2>4. VisitsOnlyLiveRecords'
    BY <1>0, <2>1, <2>2 DEF VisitsOnlyLiveRecords, InList
  <2> QED BY <2>3, <2>4
<1>5. CASE t \in Cancellers /\ HandlerReturns(t)
  BY <1>0, <1>3, <1>5 DEF HandlerReturns, LockInv, Scanning
<1>6. ASSUME Visiting(t), VisitNext(t), UNCHANGED <<status, tpc, op, rpc, cpc>>
      PROVE  LockInv' /\ VisitsOnlyLiveRecords'
  <2>1. cpc' = [cpc EXCEPT ![t] = "scan"]
    BY <1>0, <1>6 DEF Visiting
  <2> QED BY <1>3, <1>6, <2>1 DEF Visiting, Scanning
<1>7. CASE t \in Cancellers /\ CancelVisit(t)
  BY <1>6, <1>7 DEF CancelVisit
<1>8. CASE t \in Escalators /\ EscalateVisit(t)
  BY <1>6, <1>8 DEF EscalateVisit
<1> QED BY <1>1, <1>2, <1>4, <1>5, <1>7, <1>8 DEF Propagate

LEMMA StepInv == IInv /\ [Next]_vars => IInv'
<1> SUFFICES ASSUME IInv, [Next]_vars PROVE IInv'
  OBVIOUS
<1>1. TypeOK'
  BY TypeStep DEF IInv
<1>2. LockInv' /\ VisitsOnlyLiveRecords'
  <2>1. CASE UNCHANGED vars
    BY <2>1 DEF vars, taskVars, waitVars, cancelVars, IInv, LockInv, Scanning,
       VisitsOnlyLiveRecords, InList
  <2>2. CASE Next
    BY <2>2, TaskLockStep, ResumeLockStep, CancelLockStep, EscalateLockStep,
       PropagateLockStep DEF Next
  <2> QED BY <2>1, <2>2
<1> QED BY <1>1, <1>2 DEF IInv

-----------------------------------------------------------------------------
(* Every value of every variable is one the code can produce.              *)
THEOREM TypeCorrect == Spec => []TypeOK
<1>1. IInv => TypeOK
  BY DEF IInv
<1> QED BY <1>1, InitInv, StepInv, PTL DEF Spec

(* Cancellation and escalation never touch a record that was removed, with *)
(* any number of handlers, children, cancellers, escalators and resumers:  *)
(* the lock that withStatusRecordLock installs keeps the list as it is     *)
(* while anyone else walks it.                                             *)
THEOREM RecordsLive == Spec => []VisitsOnlyLiveRecords
<1>1. IInv => VisitsOnlyLiveRecords
  BY DEF IInv
<1> QED BY <1>1, InitInv, StepInv, PTL DEF Spec

-----------------------------------------------------------------------------
Quiet == \A t \in Cancellers \cup Resumers : rpc[t] = "idle"

(* The duty to make a suspended task runnable is in one place: with the    *)
(* holder of the continuation, with one thread that resumes the task, or   *)
(* done, with the job in a queue.                                          *)
DutyInv ==
  /\ tpc # "parked" => ~ queued /\ Quiet
  /\ held => Quiet /\ ~ queued /\ sync \in {"Pending", "Awaited"} /\ tpc # "start"
  /\ queued => Quiet
  /\ \A s, t \in Cancellers \cup Resumers : rpc[s] # "idle" /\ rpc[t] # "idle" => s = t

(* AwaitSynchronization follows the task.                                  *)
SyncInv ==
  /\ tpc = "body" => sync # "Awaited"
  /\ tpc \in {"fire", "remove", "splice", "completing", "done", "enqueue"} => sync = "none"
  /\ tpc = "suspended" => sync \in {"Pending", "Resumed"}
  /\ tpc \in {"parked", "start"} => sync \in {"none", "Awaited"}

(* The flags of the word follow the task.                                  *)
Suspended == tpc \in {"suspended", "enqueue", "parked", "start"}

FlagInv ==
  /\ status.running <=> tpc \in {"body", "fire", "remove", "splice", "completing"}
  /\ status.complete <=> tpc = "done"
  /\ status.dependency <=> Suspended
  /\ Suspended => wait # "nothing"
  /\ status.enqueued => tpc \in {"enqueue", "parked", "start"}
  /\ tpc = "enqueue" \/ queued => status.enqueued
  /\ \A t \in Cancellers \cup Resumers : rpc[t] = "enqueue" => status.enqueued

(* The dependency record is the innermost one, and is there while needed.  *)
NoDependency(list) == \A i \in 1 .. Len(list) : list[i] # Dependency

RecordInv ==
  IF Suspended
  THEN Innermost(Dependency) /\ NoDependency(Tail(status.records))
  ELSE NoDependency(status.records)

SuspInv == DutyInv /\ SyncInv /\ FlagInv /\ RecordInv
-----------------------------------------------------------------------------
(* The duty and the synchronisation word.                                  *)

PlaceType ==
  /\ rpc \in [Cancellers \cup Resumers -> {"idle", "lock", "update", "enqueue"}]
  /\ tpc \in {"body", "fire", "remove", "splice", "suspended", "enqueue",
               "parked", "start", "completing", "done"}

LEMMA TaskStepDuty ==
  ASSUME DutyInv, SyncInv, TaskStep
  PROVE  DutyInv' /\ SyncInv'
<1> USE DEF taskVars, waitVars, cancelVars
<1>1. Quiet' <=> Quiet
  BY DEF Quiet, TaskStep, AddHandler, FireHandlerNow, StartAsyncLet, PushPreference,
     LeaveScope, RemoveInnermost, LockToSplice, SpliceAndUnlock, InitContinuation,
     InitPreawaited, AwaitResumed, SuspendOnContinuation, PublishAwait,
     ResumeWithoutEnqueue, SwitchExecutor, EnqueueSelf, Dequeue, Start, Return, Complete,
     FlagAsRunning
<1>2. UNCHANGED rpc
  BY DEF TaskStep, AddHandler, FireHandlerNow, StartAsyncLet, PushPreference,
     LeaveScope, RemoveInnermost, LockToSplice, SpliceAndUnlock, InitContinuation,
     InitPreawaited, AwaitResumed, SuspendOnContinuation, PublishAwait,
     ResumeWithoutEnqueue, SwitchExecutor, EnqueueSelf, Dequeue, Start, Return, Complete,
     FlagAsRunning
<1> USE <1>1, <1>2 DEF DutyInv, SyncInv
<1>3. ASSUME UNCHANGED <<sync, held, queued>>, sync = "none",
             tpc \in {"body", "fire", "remove", "splice", "completing"},
             tpc' \in {"body", "fire", "remove", "splice", "completing", "done"}
      PROVE  DutyInv' /\ SyncInv'
  BY <1>3
<1>4. ASSUME NEW h \in Handlers, AddHandler(h) PROVE DutyInv' /\ SyncInv'
  BY <1>3, <1>4 DEF AddHandler, InBody
<1>5. CASE FireHandlerNow
  BY <1>3, <1>5 DEF FireHandlerNow
<1>6. ASSUME NEW a \in AsyncLets, StartAsyncLet(a) PROVE DutyInv' /\ SyncInv'
  BY <1>3, <1>6 DEF StartAsyncLet, InBody
<1>7. ASSUME NEW q \in Preferences, PushPreference(q) PROVE DutyInv' /\ SyncInv'
  BY <1>3, <1>7 DEF PushPreference, InBody
<1>8. ASSUME NEW r \in Handlers \cup AsyncLets, LeaveScope(r) PROVE DutyInv' /\ SyncInv'
  BY <1>3, <1>8 DEF LeaveScope, InBody
<1>9. CASE RemoveInnermost
  BY <1>3, <1>9 DEF RemoveInnermost
<1>10. ASSUME NEW r \in Preferences \cup {InitialPref}, LockToSplice(r)
       PROVE  DutyInv' /\ SyncInv'
  BY <1>3, <1>10 DEF LockToSplice, InBody
<1>11. CASE SpliceAndUnlock
  BY <1>3, <1>11 DEF SpliceAndUnlock
<1>12. CASE InitContinuation \/ InitPreawaited
  BY <1>12 DEF InitContinuation, InitPreawaited, InBody
<1>13. CASE AwaitResumed
  BY <1>13 DEF AwaitResumed
<1>14. CASE SuspendOnContinuation
  BY <1>14 DEF SuspendOnContinuation
<1>15. CASE PublishAwait
  BY <1>15 DEF PublishAwait
<1>16. CASE ResumeWithoutEnqueue \/ Start
  BY <1>16 DEF ResumeWithoutEnqueue, Start, FlagAsRunning
<1>17. CASE SwitchExecutor
  BY <1>17 DEF SwitchExecutor, InBody
<1>18. CASE EnqueueSelf
  BY <1>18 DEF EnqueueSelf
<1>19. CASE Dequeue
  BY <1>19 DEF Dequeue
<1>20. CASE Return \/ Complete
  BY <1>3, <1>20 DEF Return, Complete, InBody
<1> QED
  BY <1>4, <1>5, <1>6, <1>7, <1>8, <1>9, <1>10, <1>11, <1>12, <1>13, <1>14, <1>15, <1>16,
     <1>17, <1>18, <1>19, <1>20 DEF TaskStep

LEMMA ResumeStepDuty ==
  ASSUME DutyInv, SyncInv, PlaceType, NEW t \in Cancellers \cup Resumers, ResumeStep(t)
  PROVE  DutyInv' /\ SyncInv'
<1> USE DEF taskVars, waitVars, cancelVars, DutyInv, SyncInv, PlaceType, Quiet
<1>1. CASE ResumePending(t)
  BY <1>1 DEF ResumePending
<1>2. CASE ResumeAwaited(t)
  <2>1. held /\ sync = "Awaited" /\ tpc = "parked"
    BY <1>2 DEF ResumeAwaited, MayResume
  <2>2. \A s \in Cancellers \cup Resumers : s # t => rpc'[s] = "idle"
    BY <1>2, <2>1 DEF ResumeAwaited
  <2> QED  BY <1>2, <2>1, <2>2 DEF ResumeAwaited
<1>3. CASE ResumeLock(t)
  BY <1>3 DEF ResumeLock
<1>4. CASE ResumeUpdate(t)
  BY <1>4 DEF ResumeUpdate
<1>5. CASE ResumeEnqueue(t)
  BY <1>5 DEF ResumeEnqueue
<1> QED  BY <1>1, <1>2, <1>3, <1>4, <1>5 DEF ResumeStep
-----------------------------------------------------------------------------
(* The flags and the record list.                                          *)

Flags(s) == <<s.running, s.complete, s.dependency, s.enqueued>>

LEMMA HelperFlags ==
  ASSUME NEW s \in Status
  PROVE  /\ \A r : Flags(Push(s, r)) = Flags(s) /\ Push(s, r).records = <<r>> \o s.records
         /\ Flags(Pop(s)) = Flags(s) /\ Pop(s).records = Tail(s.records)
         /\ Flags(AsRunning(s)) = <<TRUE, s.complete, FALSE, FALSE>>
         /\ Flags(AsSuspended(s)) = <<FALSE, s.complete, TRUE, s.enqueued>>
         /\ Flags(AsEnqueued(s)) = <<s.running, s.complete, s.dependency, TRUE>>
         /\ Flags(AsComplete(s)) = <<FALSE, TRUE, s.dependency, FALSE>>
         /\ AsRunning(s).records = s.records
         /\ AsSuspended(s).records = s.records
         /\ AsEnqueued(s).records = s.records
         /\ AsComplete(s).records = s.records
BY DEF Status, Flags, Push, Pop, AsRunning, AsSuspended, AsEnqueued, AsComplete

(* Cutting an element out of a sequence adds none.                         *)
LEMMA SpliceElements ==
  ASSUME NEW seq \in Seq(Records), NEW r, \E i \in 1 .. Len(seq) : seq[i] = r
  PROVE  \A j \in 1 .. Len(Splice(seq, r)) :
           \E k \in 1 .. Len(seq) : Splice(seq, r)[j] = seq[k]
<1> DEFINE i == CHOOSE k \in 1 .. Len(seq) : seq[k] = r
<1> DEFINE before == SubSeq(seq, 1, i - 1)
<1> DEFINE after == SubSeq(seq, i + 1, Len(seq))
<1>1. i \in 1 .. Len(seq) /\ Len(seq) \in Nat
  OBVIOUS
<1>2. Splice(seq, r) = before \o after
  BY DEF Splice
<1> HIDE DEF i
<1>3. /\ before \in Seq(Records) /\ Len(before) = i - 1
      /\ \A j \in 1 .. i - 1 : before[j] = seq[j]
  BY <1>1, SubSeqProperties
<1>4. /\ after \in Seq(Records) /\ Len(after) = Len(seq) - i
      /\ \A j \in 1 .. Len(seq) - i : after[j] = seq[i + j]
  BY <1>1, SubSeqProperties
<1> HIDE DEF before, after
<1>5. /\ Len(before \o after) = Len(before) + Len(after)
      /\ \A j \in 1 .. Len(before) + Len(after) :
           (before \o after)[j] =
             IF j <= Len(before) THEN before[j] ELSE after[j - Len(before)]
  BY <1>3, <1>4, ConcatProperties
<1>6. /\ Len(before \o after) = i - 1 + (Len(seq) - i)
      /\ \A j \in 1 .. i - 1 + (Len(seq) - i) :
           (before \o after)[j] = IF j <= i - 1 THEN before[j] ELSE after[j - (i - 1)]
  BY <1>3, <1>4, <1>5
<1>7. ASSUME NEW j \in 1 .. i - 1 + (Len(seq) - i)
      PROVE  \E k \in 1 .. Len(seq) : (before \o after)[j] = seq[k]
  <2>1. CASE j <= i - 1
    BY <1>1, <1>3, <1>6, <2>1
  <2>2. CASE ~ (j <= i - 1)
    <3>1. j - (i - 1) \in 1 .. Len(seq) - i /\ i + (j - (i - 1)) \in 1 .. Len(seq)
      BY <1>1, <2>2
    <3> QED  BY <1>4, <1>6, <2>2, <3>1
  <2> QED  BY <2>1, <2>2
<1> QED  BY <1>2, <1>6, <1>7

LEMMA PushedRecords ==
  ASSUME NEW list \in Seq(Records), NEW r \in Records
  PROVE  /\ Head(<<r>> \o list) = r /\ Tail(<<r>> \o list) = list
         /\ <<r>> \o list # <<>>
         /\ NoDependency(list) /\ r # Dependency => NoDependency(<<r>> \o list)
<1> DEFINE longer == <<r>> \o list
<1>1. Head(longer) = r /\ Tail(longer) = list /\ longer # <<>>
  OBVIOUS
<1>2. /\ Len(longer) = Len(list) + 1 /\ longer[1] = r /\ Len(list) \in Nat
      /\ \A i \in 1 .. Len(list) : longer[i + 1] = list[i]
  OBVIOUS
<1> HIDE DEF longer
<1>3. ASSUME NoDependency(list), r # Dependency, NEW i \in 1 .. Len(longer)
      PROVE  longer[i] # Dependency
  <2>1. CASE i = 1
    BY <1>2, <1>3, <2>1
  <2>2. CASE i # 1
    <3>1. i - 1 \in 1 .. Len(list) /\ longer[i] = list[i - 1]
      BY <1>2, <2>2
    <3> QED  BY <1>3, <3>1 DEF NoDependency
  <2> QED  BY <2>1, <2>2
<1>4. NoDependency(list) /\ r # Dependency => NoDependency(longer)
  BY <1>3 DEF NoDependency
<1> QED  BY <1>1, <1>4 DEF longer

LEMMA TailNoDependency ==
  ASSUME NEW list \in Seq(Records), list # <<>>, NoDependency(list)
  PROVE  NoDependency(Tail(list))
<1>1. /\ Len(Tail(list)) = Len(list) - 1 /\ Len(list) \in Nat \ {0}
      /\ \A i \in 1 .. Len(list) - 1 : Tail(list)[i] = list[i + 1]
  OBVIOUS
<1>2. \A i \in 1 .. Len(list) - 1 : i + 1 \in 1 .. Len(list)
  BY <1>1
<1> QED  BY <1>1, <1>2 DEF NoDependency

(* The steps of a running task that keeps running, and of a suspended one  *)
(* that stays suspended.                                                   *)
Running == tpc \in {"body", "fire", "remove", "splice", "completing"}

LEMMA RunningFlags ==
  ASSUME FlagInv, Running, Running', Flags(status') = Flags(status),
         UNCHANGED <<wait, queued, rpc>>
  PROVE  FlagInv'
BY DEF FlagInv, Running, Suspended, Flags

LEMMA SameRecords ==
  ASSUME RecordInv, Suspended' <=> Suspended, status'.records = status.records
  PROVE  RecordInv'
BY DEF RecordInv, Innermost, NoDependency

(* A running task adds a record that is not a dependency, or begins to be  *)
(* suspended.                                                              *)
LEMMA PushRecords ==
  ASSUME status \in Status, RecordInv, Running, NEW r \in Records,
         status'.records = <<r>> \o status.records,
         IF r = Dependency THEN Suspended' ELSE Running'
  PROVE  RecordInv'
<1>1. status.records \in Seq(Records) /\ NoDependency(status.records)
  BY StatusFields DEF RecordInv, Running, Suspended
<1>2. CASE r = Dependency
  BY <1>1, <1>2, PushedRecords DEF RecordInv, Innermost
<1>3. CASE r # Dependency
  <2>1. NoDependency(status'.records)
    BY <1>1, <1>3, PushedRecords
  <2> QED  BY <1>3, <2>1 DEF RecordInv, Running, Suspended
<1> QED  BY <1>2, <1>3

LEMMA TaskStepFlags ==
  ASSUME TypeOK, LockInv, SuspInv, TaskStep
  PROVE  FlagInv' /\ RecordInv'
<1> USE DEF taskVars, waitVars, cancelVars
<1>0. status \in Status /\ status.records \in Seq(Records) /\ FlagInv /\ RecordInv
  BY StatusFields DEF TypeOK, SuspInv
<1>1. Handlers \cup AsyncLets \cup Preferences \cup {Dependency, InitialPref} = Records
  BY DEF Records
<1>2. ASSUME NEW r \in Handlers \cup AsyncLets \cup Preferences, Running, Running',
             Flags(status') = Flags(status), status'.records = <<r>> \o status.records,
             UNCHANGED <<wait, queued, rpc>>
      PROVE  FlagInv' /\ RecordInv'
  <2>1. r # Dependency
    BY RecordsAssumption
  <2> QED  BY <1>0, <1>1, <1>2, <2>1, RunningFlags, PushRecords
<1>3. ASSUME Running, Running', Flags(status') = Flags(status),
             status'.records = status.records, UNCHANGED <<wait, queued, rpc>>
      PROVE  FlagInv' /\ RecordInv'
  BY <1>0, <1>3, RunningFlags, SameRecords DEF Running, Suspended
<1>4. ASSUME NEW h \in Handlers, AddHandler(h) PROVE FlagInv' /\ RecordInv'
  <2>1. Running /\ Running' /\ UNCHANGED <<wait, queued, rpc>> /\ status' = Push(status, h)
    BY <1>4 DEF AddHandler, InBody, Running
  <2> QED  BY <1>0, <1>2, <2>1, HelperFlags
<1>5. CASE FireHandlerNow
  BY <1>3, <1>5 DEF FireHandlerNow, Running
<1>6. ASSUME NEW a \in AsyncLets, StartAsyncLet(a) PROVE FlagInv' /\ RecordInv'
  <2>1. Running /\ Running' /\ UNCHANGED <<wait, queued, rpc>> /\ status' = Push(status, a)
    BY <1>6 DEF StartAsyncLet, InBody, Running
  <2> QED  BY <1>0, <1>2, <2>1, HelperFlags
<1>7. ASSUME NEW q \in Preferences, PushPreference(q) PROVE FlagInv' /\ RecordInv'
  <2>1. Running /\ Running' /\ UNCHANGED <<wait, queued, rpc>>
    BY <1>7 DEF PushPreference, InBody, Running
  <2>2. Push(status, q) \in Status
    BY <1>0, <1>1, PushType
  <2>3. /\ Flags(status') = Flags(Push(status, q))
        /\ status'.records = Push(status, q).records
    BY <1>7, <2>2 DEF PushPreference, Flags, Status
  <2> QED  BY <1>0, <1>2, <2>1, <2>3, HelperFlags
<1>8. ASSUME NEW r \in Handlers \cup AsyncLets, LeaveScope(r) PROVE FlagInv' /\ RecordInv'
  BY <1>3, <1>8 DEF LeaveScope, InBody, Running
<1>9. CASE RemoveInnermost
  <2>1. /\ Running /\ Running' /\ ~ Suspended /\ ~ Suspended'
        /\ UNCHANGED <<wait, queued, rpc>> /\ status' = Pop(status) /\ status.records # <<>>
    BY <1>9 DEF RemoveInnermost, Running, Suspended, Innermost
  <2>2. NoDependency(status'.records)
    BY <1>0, <2>1, HelperFlags, TailNoDependency DEF RecordInv
  <2>3. FlagInv'
    BY <1>0, <2>1, HelperFlags, RunningFlags
  <2> QED  BY <2>1, <2>2, <2>3 DEF RecordInv
<1>10. ASSUME NEW r \in Preferences \cup {InitialPref}, LockToSplice(r)
       PROVE  FlagInv' /\ RecordInv'
  <2>1. Running /\ Running' /\ UNCHANGED <<wait, queued, rpc>>
    BY <1>10 DEF LockToSplice, InBody, Running
  <2>2. Flags(status') = Flags(status) /\ status'.records = status.records
    BY <1>0, <1>10 DEF LockToSplice, Lock, Flags, Status
  <2> QED  BY <1>3, <2>1, <2>2
<1>11. CASE SpliceAndUnlock
  <2>1. /\ Running /\ Running' /\ ~ Suspended /\ ~ Suspended'
        /\ UNCHANGED <<wait, queued, rpc>>
    BY <1>11 DEF SpliceAndUnlock, Running, Suspended
  <2>2. Flags(status') = Flags(status) /\ status'.records = Splice(status.records, op)
    BY <1>0, <1>11 DEF SpliceAndUnlock, Flags, Status
  <2>3. \E i \in 1 .. Len(status.records) : status.records[i] = op
    BY <1>11 DEF SpliceAndUnlock, LockInv, InList
  <2>4. NoDependency(status'.records)
    BY <1>0, <2>1, <2>2, <2>3, SpliceElements DEF RecordInv, NoDependency
  <2>5. FlagInv'
    BY <1>0, <2>1, <2>2, RunningFlags
  <2> QED  BY <2>1, <2>4, <2>5 DEF RecordInv
<1>12. CASE InitContinuation \/ AwaitResumed \/ Return
  BY <1>3, <1>12 DEF InitContinuation, AwaitResumed, Return, InBody, Running
<1> DEFINE pushed == Push(status, Dependency)
<1>13. /\ pushed \in Status /\ pushed.records = <<Dependency>> \o status.records
       /\ Flags(pushed) = Flags(status) /\ AsSuspended(pushed) \in Status
       /\ AsSuspended(pushed).records = pushed.records
       /\ Flags(AsSuspended(pushed)) = <<FALSE, pushed.complete, TRUE, pushed.enqueued>>
       /\ AsEnqueued(AsSuspended(pushed)).records = pushed.records
       /\ Flags(AsEnqueued(AsSuspended(pushed)))
            = <<FALSE, AsSuspended(pushed).complete, TRUE, TRUE>>
  <2>1. pushed \in Status /\ AsSuspended(pushed) \in Status
    BY <1>0, <1>1, PushType, FlagTypes
  <2>2. /\ pushed.records = <<Dependency>> \o status.records /\ Flags(pushed) = Flags(status)
        /\ AsSuspended(pushed).records = pushed.records
        /\ Flags(AsSuspended(pushed)) = <<FALSE, pushed.complete, TRUE, pushed.enqueued>>
    BY <1>0, <2>1, HelperFlags
  <2>3. /\ AsEnqueued(AsSuspended(pushed)).records = AsSuspended(pushed).records
        /\ Flags(AsEnqueued(AsSuspended(pushed)))
            = <<AsSuspended(pushed).running, AsSuspended(pushed).complete,
                AsSuspended(pushed).dependency, TRUE>>
    BY <2>1, HelperFlags
  <2> HIDE DEF pushed
  <2> QED  BY <2>1, <2>2, <2>3 DEF Flags
<1> HIDE DEF pushed
<1>14. CASE InitPreawaited \/ SuspendOnContinuation
  <2>1. /\ status' = AsSuspended(pushed) /\ Running /\ tpc = "body"
        /\ tpc' \in {"parked", "suspended"}
        /\ wait' = "continuation" /\ UNCHANGED <<queued, rpc>>
    BY <1>14 DEF InitPreawaited, SuspendOnContinuation, InBody, Running, pushed
  <2>2. RecordInv'
    BY <1>0, <1>1, <1>13, <2>1, PushRecords DEF Suspended
  <2>3. ~ queued /\ Quiet
    BY <2>1 DEF SuspInv, DutyInv
  <2>4. FlagInv'
    BY <1>0, <1>13, <2>1, <2>3 DEF FlagInv, Flags, Suspended, Quiet
  <2> QED  BY <2>2, <2>4
<1>15. CASE PublishAwait
  <2>1. Suspended' /\ Suspended /\ tpc' = "parked" /\ UNCHANGED <<status, wait, queued, rpc>>
    BY <1>15 DEF PublishAwait, Suspended
  <2>2. FlagInv'
    BY <1>0, <1>15, <2>1 DEF PublishAwait, FlagInv, Suspended
  <2> QED  BY <1>0, <2>1, <2>2, SameRecords
<1>16. ASSUME FlagAsRunning, tpc \in {"suspended", "start"} PROVE FlagInv' /\ RecordInv'
  <2>1. status.records # <<>> /\ Pop(status) \in Status
    BY <1>0, <1>16, PopType DEF FlagAsRunning, Innermost
  <2>2. /\ status' = AsRunning(Pop(status)) /\ tpc' = "body"
        /\ UNCHANGED <<queued, rpc>>
    BY <1>16 DEF FlagAsRunning
  <2>3. /\ status'.records = Tail(status.records) /\ Flags(Pop(status)) = Flags(status)
        /\ Flags(status') = <<TRUE, Pop(status).complete, FALSE, FALSE>>
    BY <1>0, <2>1, <2>2, HelperFlags
  <2>4. RecordInv'
    BY <1>0, <1>16, <2>2, <2>3 DEF RecordInv, Suspended
  <2>5. ~ queued /\ Quiet
    BY <1>16 DEF SuspInv, DutyInv
  <2>6. FlagInv'
    BY <1>0, <1>16, <2>2, <2>3, <2>5 DEF FlagInv, Flags, Suspended, Quiet
  <2> QED  BY <2>4, <2>6
<1>17. CASE SwitchExecutor
  <2>1. /\ status' = AsEnqueued(AsSuspended(pushed)) /\ Running /\ tpc = "body"
        /\ tpc' = "enqueue" /\ wait' = "executor" /\ UNCHANGED <<queued, rpc>>
    BY <1>17 DEF SwitchExecutor, InBody, Running, pushed
  <2>2. RecordInv'
    BY <1>0, <1>1, <1>13, <2>1, PushRecords DEF Suspended
  <2>3. FlagInv'
    BY <1>0, <1>13, <2>1 DEF FlagInv, Flags, Suspended
  <2> QED  BY <2>2, <2>3
<1>18. CASE EnqueueSelf
  BY <1>0, <1>18, SameRecords DEF EnqueueSelf, FlagInv, Suspended
<1>19. CASE Dequeue
  BY <1>0, <1>19, SameRecords DEF Dequeue, FlagInv, Suspended
<1>20. CASE Complete
  <2>1. /\ status' = AsComplete(status) /\ tpc = "completing" /\ tpc' = "done"
        /\ UNCHANGED <<wait, queued, rpc>>
    BY <1>20 DEF Complete
  <2>2. ~ queued /\ Quiet
    BY <2>1 DEF SuspInv, DutyInv
  <2>3. /\ Flags(status') = <<FALSE, TRUE, status.dependency, FALSE>>
        /\ status'.records = status.records
    BY <1>0, <2>1, HelperFlags
  <2>4. FlagInv'
    BY <1>0, <2>1, <2>2, <2>3 DEF FlagInv, Flags, Suspended, Quiet
  <2> QED  BY <1>0, <2>1, <2>3, <2>4, SameRecords DEF Suspended
<1> QED
  BY <1>4, <1>5, <1>6, <1>7, <1>8, <1>9, <1>10, <1>11, <1>12, <1>14, <1>15, <1>16, <1>17,
     <1>18, <1>19, <1>20
  DEF TaskStep, ResumeWithoutEnqueue, Start

(* The steps of other threads: none but the update of a resumer changes a  *)
(* flag that is spoken of here.                                            *)
LEMMA OtherSteps ==
  ASSUME SuspInv, UNCHANGED <<tpc, sync, held, wait, queued, rpc>>,
         Flags(status') = Flags(status), status'.records = status.records
  PROVE  SuspInv'
<1>1. DutyInv' /\ SyncInv'
  BY DEF SuspInv, DutyInv, SyncInv, Quiet
<1>2. FlagInv'
  BY DEF SuspInv, FlagInv, Flags, Suspended
<1>3. RecordInv'
  BY SameRecords DEF SuspInv, Suspended
<1> QED  BY <1>1, <1>2, <1>3 DEF SuspInv

LEMMA ResumeStepFlags ==
  ASSUME TypeOK, SuspInv, NEW t \in Cancellers \cup Resumers, ResumeStep(t)
  PROVE  FlagInv' /\ RecordInv'
<1> USE DEF taskVars, waitVars, cancelVars
<1>0. /\ status \in Status /\ FlagInv /\ RecordInv /\ DutyInv /\ PlaceType
  BY DEF TypeOK, SuspInv, PlaceType
<1>1. CASE ResumePending(t)
  BY <1>0, <1>1, SameRecords DEF ResumePending, FlagInv, Suspended
<1>2. CASE ResumeAwaited(t)
  <2>1. FlagInv'
    BY <1>0, <1>2 DEF ResumeAwaited, FlagInv, Suspended, PlaceType
  <2> QED  BY <1>0, <1>2, <2>1, SameRecords DEF ResumeAwaited, Suspended
<1>3. CASE ResumeLock(t)
  <2>1. Flags(status') = Flags(status) /\ status'.records = status.records
    BY <1>0, <1>3 DEF ResumeLock, Lock, Flags, Status
  <2>2. FlagInv'
    BY <1>0, <1>3, <2>1 DEF ResumeLock, FlagInv, Flags, Suspended, PlaceType
  <2> QED  BY <1>0, <1>3, <2>1, <2>2, SameRecords DEF ResumeLock, Suspended
<1>4. CASE ResumeUpdate(t)
  <2>1. tpc = "parked" /\ tpc' = tpc /\ wait' = "executor" /\ UNCHANGED queued
    BY <1>0, <1>4 DEF ResumeUpdate, DutyInv, Quiet
  <2>2. AsEnqueued(status) \in Status
    BY <1>0, FlagTypes
  <2>3. /\ Flags(status') = Flags(AsEnqueued(status))
        /\ status'.records = AsEnqueued(status).records
    BY <1>4, <2>2 DEF ResumeUpdate, Flags, Status
  <2>4. /\ Flags(status') = <<status.running, status.complete, status.dependency, TRUE>>
        /\ status'.records = status.records
    BY <1>0, <2>3, HelperFlags
  <2>5. FlagInv'
    BY <1>0, <2>1, <2>4 DEF FlagInv, Flags, Suspended
  <2> QED  BY <1>0, <2>1, <2>4, <2>5, SameRecords DEF Suspended
<1>5. CASE ResumeEnqueue(t)
  <2>1. status.enqueued
    BY <1>0, <1>5 DEF ResumeEnqueue, FlagInv
  <2>2. FlagInv'
    BY <1>0, <1>5, <2>1 DEF ResumeEnqueue, FlagInv, Suspended, PlaceType
  <2> QED  BY <1>0, <1>5, <2>2, SameRecords DEF ResumeEnqueue, Suspended
<1> QED  BY <1>1, <1>2, <1>3, <1>4, <1>5 DEF ResumeStep

LEMMA PropagateStep ==
  ASSUME TypeOK, SuspInv,
         \/ \E c \in Cancellers : Cancel(c)
         \/ \E e \in Escalators, q \in Priorities : Escalate(e, q)
         \/ \E t \in Cancellers \cup Escalators : Propagate(t)
  PROVE  SuspInv'
<1> USE DEF taskVars, waitVars
<1>0. status \in Status
  BY DEF TypeOK
<1>1. UNCHANGED <<tpc, sync, held, wait, queued, rpc>>
  BY DEF Cancel, Escalate, Propagate, LockToPropagate, Unlock, CancelCallHandler,
     HandlerReturns, CancelVisit, EscalateVisit
<1>2. Flags(status') = Flags(status) /\ status'.records = status.records
  <2>1. ASSUME NEW c \in Cancellers, Cancel(c)
        PROVE  Flags(status') = Flags(status) /\ status'.records = status.records
    BY <1>0, <2>1 DEF Cancel, Flags, Status
  <2>2. ASSUME NEW e \in Escalators, NEW q \in Priorities, Escalate(e, q)
        PROVE  Flags(status') = Flags(status) /\ status'.records = status.records
    <3> DEFINE mark == status.escalated \/ status.running \/ status.enqueued
    <3>1. status' = [status EXCEPT !.priority = q, !.escalated = mark]
      BY <2>2 DEF Escalate
    <3> HIDE DEF mark
    <3> QED  BY <1>0, <3>1 DEF Flags, Status
  <2>3. ASSUME NEW t \in Cancellers \cup Escalators, Propagate(t)
        PROVE  Flags(status') = Flags(status) /\ status'.records = status.records
    <3>1. CASE LockToPropagate(t)
      BY <1>0, <3>1 DEF LockToPropagate, Lock, Flags, Status
    <3>2. CASE Unlock(t)
      BY <1>0, <3>2 DEF Unlock, Flags, Status
    <3>3. CASE CancelCallHandler(t) \/ HandlerReturns(t) \/ CancelVisit(t) \/ EscalateVisit(t)
      BY <3>3 DEF CancelCallHandler, HandlerReturns, CancelVisit, EscalateVisit
    <3> QED  BY <2>3, <3>1, <3>2, <3>3 DEF Propagate
  <2> QED  BY <2>1, <2>2, <2>3
<1> QED  BY <1>1, <1>2, OtherSteps

-----------------------------------------------------------------------------
LEMMA InitSusp == Init => SuspInv
<1> SUFFICES ASSUME Init PROVE SuspInv
  OBVIOUS
<1>1. DutyInv /\ SyncInv
  BY DEF Init, DutyInv, SyncInv, Quiet
<1>2. FlagInv
  BY DEF Init, FlagInv, Suspended
<1>3. RecordInv
  BY DEF Init, RecordInv, Suspended, NoDependency, Dependency, InitialPref
<1> QED  BY <1>1, <1>2, <1>3 DEF SuspInv

LEMMA StepSusp == IInv /\ SuspInv /\ [Next]_vars => SuspInv'
<1> SUFFICES ASSUME IInv, SuspInv, [Next]_vars PROVE SuspInv'
  OBVIOUS
<1>1. TypeOK /\ LockInv /\ DutyInv /\ SyncInv /\ PlaceType
  BY DEF IInv, SuspInv, TypeOK, PlaceType
<1>2. CASE TaskStep
  BY <1>1, <1>2, TaskStepDuty, TaskStepFlags DEF SuspInv
<1>3. CASE \E t \in Cancellers \cup Resumers : ResumeStep(t)
  BY <1>1, <1>3, ResumeStepDuty, ResumeStepFlags DEF SuspInv
<1>4. CASE \/ \E c \in Cancellers : Cancel(c)
           \/ \E e \in Escalators, q \in Priorities : Escalate(e, q)
           \/ \E t \in Cancellers \cup Escalators : Propagate(t)
  BY <1>1, <1>4, PropagateStep
<1>5. CASE UNCHANGED vars
  BY <1>5, OtherSteps DEF vars, taskVars, waitVars, Flags
<1> QED  BY <1>2, <1>3, <1>4, <1>5 DEF Next

LEMMA SuspInvariant == Spec => [](IInv /\ SuspInv)
  BY InitInv, InitSusp, StepInv, StepSusp, PTL DEF Spec

-----------------------------------------------------------------------------
(* However many resumers and cancellation handlers race for a continuation *)
(* of the task, one of them enqueues it, once, and none while it is        *)
(* queued, about to run or running.                                        *)
THEOREM MadeRunnableOnce == Spec => []EnqueuedOnce
<1>1. ASSUME IInv, SuspInv PROVE EnqueuedOnce
  <2>1. DutyInv /\ FlagInv /\ PlaceType
    BY <1>1 DEF IInv, SuspInv, TypeOK, PlaceType
  <2>2. \A t \in Enqueuing : \/ t = Task /\ tpc = "enqueue"
                             \/ /\ t \in Cancellers \cup Resumers /\ rpc[t] # "idle"
                                /\ tpc = "parked"
    BY <2>1 DEF Enqueuing, DutyInv, Quiet
  <2>3. \A s, t \in Enqueuing : s = t
    BY <2>1, <2>2 DEF DutyInv
  <2>4. Enqueuing # {} => ~ queued /\ ~ status.running /\ tpc # "start"
    BY <2>1, <2>2 DEF DutyInv, FlagInv, Quiet
  <2>5. queued => tpc = "parked"
    BY <2>1 DEF DutyInv
  <2> QED  BY <2>3, <2>4, <2>5 DEF EnqueuedOnce
<1> QED  BY SuspInvariant, <1>1, PTL

(* The flags of the status word, its record list and the thread that runs  *)
(* the task agree; in particular the dependency record is innermost when   *)
(* flagAsRunning pops it without the lock.                                 *)
THEOREM SchedulingStateSound == Spec => []SchedulingStateConsistent
<1>1. ASSUME IInv, SuspInv PROVE SchedulingStateConsistent
  <2>1. FlagInv /\ RecordInv /\ PlaceType /\ status.records \in Seq(Records)
    BY <1>1, StatusFields DEF IInv, SuspInv, TypeOK, PlaceType
  <2>2. InList(Dependency) <=> Suspended
    <3>1. CASE Suspended
      <4>1. status.records # <<>> /\ Head(status.records) = Dependency
        BY <2>1, <3>1 DEF RecordInv, Innermost
      <4>2. 1 \in 1 .. Len(status.records) /\ status.records[1] = Dependency
        BY <2>1, <4>1
      <4> QED  BY <3>1, <4>2 DEF InList
    <3>2. CASE ~ Suspended
      BY <2>1, <3>2 DEF RecordInv, NoDependency, InList
    <3> QED  BY <3>1, <3>2
  <2>3. Suspended => Innermost(Dependency) /\ wait # "nothing"
    BY <2>1 DEF RecordInv, FlagInv
  <2>4. status.dependency <=> ~ status.running /\ ~ status.complete
    BY <2>1 DEF FlagInv, Suspended, PlaceType
  <2>5. /\ ~ (status.running /\ status.enqueued) /\ (queued => status.enqueued)
        /\ status.complete => ~ status.running /\ ~ status.enqueued
    BY <2>1 DEF FlagInv
  <2> QED  BY <2>1, <2>2, <2>3, <2>4, <2>5 DEF SchedulingStateConsistent, FlagInv
<1> QED  BY SuspInvariant, <1>1, PTL
-----------------------------------------------------------------------------
(* What cancellation and escalation reach.                                 *)

In(list, r) == \E i \in 1 .. Len(list) : list[i] = r

Visited == Handlers \cup AsyncLets

(* A thread will still come to the record: it has not taken the list yet,  *)
(* or it has it before it.                                                 *)
ComesTo(t, r) ==
  \/ cpc[t] = "lock"
  \/ cpc[t] = "scan" /\ In(todo[t], r)
  \/ cpc[t] = "handler" /\ In(Tail(todo[t]), r)

Reached(r) ==
  IF r \in Handlers THEN calls[r] > 0 \/ (tpc = "fire" /\ op = r)
                    ELSE child[r].cancelled

LiveInv == \A r \in Visited : phase[r] = "live" => In(status.records, r)

CancelInv ==
  status.cancelled =>
    \A r \in Visited : phase[r] = "live" =>
      Reached(r) \/ \E c \in Cancellers : ComesTo(c, r)

(* The escalator of the highest priority so far is the one that counts.    *)
EscalateInv ==
  \A a \in AsyncLets : phase[a] = "live" =>
    \/ child[a].priority >= Downgrade(status.priority)
    \/ \E e \in Escalators : want[e] = status.priority /\ ComesTo(e, a)

ReachInv == LiveInv /\ CancelInv /\ EscalateInv
-----------------------------------------------------------------------------
(* What stays in a list.                                                   *)

LEMMA StaysPushed ==
  ASSUME NEW list \in Seq(Records), NEW q \in Records
  PROVE  In(<<q>> \o list, q) /\ \A r : In(list, r) => In(<<q>> \o list, r)
<1> DEFINE longer == <<q>> \o list
<1>1. /\ Len(longer) = Len(list) + 1 /\ longer[1] = q /\ Len(list) \in Nat
      /\ \A i \in 1 .. Len(list) : longer[i + 1] = list[i]
  OBVIOUS
<1> HIDE DEF longer
<1>2. In(longer, q)
  BY <1>1 DEF In
<1>3. ASSUME NEW r, NEW i \in 1 .. Len(list), list[i] = r PROVE In(longer, r)
  <2>1. i + 1 \in 1 .. Len(longer) /\ longer[i + 1] = r
    BY <1>1, <1>3
  <2> QED  BY <2>1 DEF In
<1>4. \A r : In(list, r) => In(longer, r)
  BY <1>3 DEF In
<1> QED  BY <1>2, <1>4 DEF longer

LEMMA StaysInTail ==
  ASSUME NEW list \in Seq(Records), NEW r, In(list, r), r # Head(list)
  PROVE  In(Tail(list), r)
<1>1. PICK i \in 1 .. Len(list) : list[i] = r
  BY DEF In
<1>2. /\ Len(Tail(list)) = Len(list) - 1 /\ Len(list) \in Nat \ {0} /\ Head(list) = list[1]
      /\ \A j \in 1 .. Len(list) - 1 : Tail(list)[j] = list[j + 1]
  BY <1>1
<1>3. i - 1 \in 1 .. Len(Tail(list)) /\ Tail(list)[i - 1] = r
  BY <1>1, <1>2
<1> QED  BY <1>3 DEF In

LEMMA StaysSpliced ==
  ASSUME NEW seq \in Seq(Records), NEW r, In(seq, r), NEW q, In(seq, q), q # r
  PROVE  In(Splice(seq, r), q)
<1> DEFINE i == CHOOSE k \in 1 .. Len(seq) : seq[k] = r
<1> DEFINE before == SubSeq(seq, 1, i - 1)
<1> DEFINE after == SubSeq(seq, i + 1, Len(seq))
<1>1. i \in 1 .. Len(seq) /\ seq[i] = r /\ Len(seq) \in Nat
  BY DEF In
<1>2. Splice(seq, r) = before \o after
  BY DEF Splice
<1> HIDE DEF i
<1>3. /\ before \in Seq(Records) /\ Len(before) = i - 1
      /\ \A j \in 1 .. i - 1 : before[j] = seq[j]
  BY <1>1, SubSeqProperties
<1>4. /\ after \in Seq(Records) /\ Len(after) = Len(seq) - i
      /\ \A j \in 1 .. Len(seq) - i : after[j] = seq[i + j]
  BY <1>1, SubSeqProperties
<1> HIDE DEF before, after
<1>5. /\ Len(before \o after) = Len(before) + Len(after)
      /\ \A j \in 1 .. Len(before) + Len(after) :
           (before \o after)[j] =
             IF j <= Len(before) THEN before[j] ELSE after[j - Len(before)]
  BY <1>3, <1>4, ConcatProperties
<1>6. PICK k \in 1 .. Len(seq) : seq[k] = q
  BY DEF In
<1>7. CASE k < i
  <2>1. k \in 1 .. i - 1 /\ k \in 1 .. Len(before) + Len(after) /\ k <= Len(before)
    BY <1>1, <1>3, <1>4, <1>7
  <2>2. (before \o after)[k] = q
    BY <1>3, <1>5, <1>6, <2>1
  <2> QED  BY <1>2, <1>5, <2>1, <2>2 DEF In
<1>8. CASE k > i
  <2>1. /\ k - i \in 1 .. Len(seq) - i /\ k - 1 \in 1 .. Len(before) + Len(after)
        /\ ~ (k - 1 <= Len(before)) /\ (k - 1) - Len(before) = k - i /\ i + (k - i) = k
    BY <1>1, <1>3, <1>4, <1>8
  <2>2. (before \o after)[k - 1] = q
    BY <1>4, <1>5, <1>6, <2>1
  <2> QED  BY <1>2, <1>5, <2>1, <2>2 DEF In
<1>9. k # i
  BY <1>1, <1>6
<1> QED  BY <1>1, <1>7, <1>8, <1>9

-----------------------------------------------------------------------------
ChildrenKept ==
  \A a \in AsyncLets :
    /\ child'[a].priority = child[a].priority
    /\ child[a].cancelled => child'[a].cancelled

(* Steps that take nothing back: no record becomes live or leaves the list *)
(* while live, no call and no cancellation of a child is undone.           *)
LEMMA ReachFrame ==
  ASSUME ReachInv, TypeOK, UNCHANGED <<cpc, todo, want, calls>>,
         tpc # "fire" \/ UNCHANGED <<tpc, op>>,
         status'.cancelled = status.cancelled, status'.priority = status.priority,
         \A r \in Visited : phase'[r] = "live" => phase[r] = "live" /\ In(status'.records, r),
         child' = child \/ ChildrenKept
  PROVE  ReachInv'
<1>1. LiveInv'
  BY DEF ReachInv, LiveInv
<1>2. \A t, r : ComesTo(t, r)' <=> ComesTo(t, r)
  BY DEF ComesTo, In
<1>3. ASSUME NEW r \in Visited, Reached(r) PROVE Reached(r)'
  <2>1. CASE r \in Handlers
    BY <1>3, <2>1 DEF Reached
  <2>2. CASE r \notin Handlers
    <3>1. r \in AsyncLets /\ child[r].cancelled
      BY <1>3, <2>2 DEF Reached, Visited
    <3>2. child'[r].cancelled
      BY <3>1 DEF ChildrenKept
    <3> QED  BY <2>2, <3>2 DEF Reached
  <2> QED  BY <2>1, <2>2
<1>4. CancelInv'
  BY <1>2, <1>3 DEF ReachInv, CancelInv
<1>5. EscalateInv'
  <2>1. \A a \in AsyncLets : child'[a].priority = child[a].priority
    BY DEF ChildrenKept
  <2>2. \A a \in AsyncLets : phase'[a] = "live" => phase[a] = "live"
    BY DEF Visited
  <2> QED  BY <1>2, <2>1, <2>2 DEF ReachInv, EscalateInv
<1> QED  BY <1>1, <1>4, <1>5 DEF ReachInv

(* A handler is added, or a child started.                                 *)
LEMMA AddReach ==
  ASSUME ReachInv, TypeOK, NEW q \in Visited, InBody, phase[q] = "unused",
         status' = Push(status, q), phase' = [phase EXCEPT ![q] = "live"],
         UNCHANGED <<cpc, todo, want, calls>>,
         status.cancelled => Reached(q)',
         \A a \in AsyncLets : IF a = q
                              THEN child'[a].priority >= Downgrade(status.priority)
                              ELSE child'[a] = child[a]
  PROVE  ReachInv'
<1>0. /\ status \in Status /\ status.records \in Seq(Records) /\ q \in Records
      /\ phase \in [Handlers \cup AsyncLets \cup Preferences -> {"unused", "live", "removed"}]
  BY StatusFields DEF TypeOK, Visited, Records
<1>1. /\ status'.records = <<q>> \o status.records
      /\ status'.cancelled = status.cancelled /\ status'.priority = status.priority
  BY <1>0 DEF Push, Status
<1>2. \A r \in Visited : phase'[r] = "live" <=> r = q \/ phase[r] = "live"
  BY <1>0 DEF Visited
<1>3. LiveInv'
  <2>1. In(status'.records, q)
    BY <1>0, <1>1, StaysPushed
  <2>2. \A r : In(status.records, r) => In(status'.records, r)
    BY <1>0, <1>1, StaysPushed
  <2> QED  BY <1>2, <2>1, <2>2 DEF ReachInv, LiveInv
<1>4. \A t, r : ComesTo(t, r)' <=> ComesTo(t, r)
  BY DEF ComesTo, In
<1>5. \A r \in Visited : r # q /\ Reached(r) => Reached(r)'
  BY DEF Reached, Visited, InBody
<1>6. CancelInv'
  BY <1>1, <1>2, <1>4, <1>5 DEF ReachInv, CancelInv
<1>7. EscalateInv'
  <2>1. ASSUME NEW a \in AsyncLets, phase'[a] = "live"
        PROVE  \/ child'[a].priority >= Downgrade(status'.priority)
               \/ \E e \in Escalators : want'[e] = status'.priority /\ ComesTo(e, a)'
    <3>1. CASE a = q
      BY <1>1, <3>1
    <3>2. CASE a # q
      <4>1. phase[a] = "live" /\ child'[a] = child[a]
        BY <1>2, <2>1, <3>2 DEF Visited
      <4> QED  BY <1>1, <1>4, <4>1 DEF ReachInv, EscalateInv
    <3> QED  BY <3>1, <3>2
  <2> QED  BY <2>1 DEF EscalateInv
<1> QED  BY <1>3, <1>4, <1>6, <1>7 DEF ReachInv

LEMMA HelperCancelled ==
  ASSUME NEW s \in Status
  PROVE  /\ \A r : Push(s, r).cancelled = s.cancelled /\ Push(s, r).priority = s.priority
         /\ Pop(s).cancelled = s.cancelled /\ Pop(s).priority = s.priority
         /\ AsRunning(s).cancelled = s.cancelled /\ AsRunning(s).priority = s.priority
         /\ AsSuspended(s).cancelled = s.cancelled /\ AsSuspended(s).priority = s.priority
         /\ AsEnqueued(s).cancelled = s.cancelled /\ AsEnqueued(s).priority = s.priority
         /\ AsComplete(s).cancelled = s.cancelled /\ AsComplete(s).priority = s.priority
BY DEF Status, Push, Pop, AsRunning, AsSuspended, AsEnqueued, AsComplete

LEMMA TaskStepReach ==
  ASSUME ReachInv, TypeOK, LockInv, TaskStep
  PROVE  ReachInv'
<1> USE DEF taskVars, waitVars, cancelVars
<1>0. /\ status \in Status /\ status.records \in Seq(Records) /\ LiveInv
      /\ phase \in [Handlers \cup AsyncLets \cup Preferences -> {"unused", "live", "removed"}]
  BY StatusFields DEF TypeOK, ReachInv
<1> DEFINE SameBits == /\ status'.cancelled = status.cancelled
                       /\ status'.priority = status.priority
<1>1. ASSUME UNCHANGED <<cpc, todo, want, calls, child>>, tpc # "fire", SameBits,
             \A r \in Visited : phase'[r] = phase[r],
             \A r \in Visited : In(status.records, r) => In(status'.records, r)
      PROVE  ReachInv'
  BY <1>0, <1>1, ReachFrame DEF LiveInv
<1>2. ASSUME UNCHANGED <<cpc, todo, want, calls, child, status, phase>>, tpc # "fire"
      PROVE  ReachInv'
  BY <1>1, <1>2
<1>3. ASSUME NEW h \in Handlers, AddHandler(h) PROVE ReachInv'
  <2>1. h \in Visited /\ h \notin AsyncLets /\ InBody /\ phase[h] = "unused"
    BY <1>3, RecordsAssumption DEF AddHandler, Visited
  <2>2. /\ status' = Push(status, h) /\ phase' = [phase EXCEPT ![h] = "live"]
        /\ UNCHANGED <<cpc, todo, want, calls, child>>
        /\ op' = h
        /\ status.cancelled => tpc' = "fire"
    BY <1>3 DEF AddHandler
  <2>3. status.cancelled => Reached(h)'
    BY <2>2 DEF Reached
  <2> QED  BY <2>1, <2>2, <2>3, AddReach
<1>4. CASE FireHandlerNow
  <2>1. /\ tpc = "fire" /\ calls' = [calls EXCEPT ![op] = @ + 1]
        /\ UNCHANGED <<status, phase, op, cpc, todo, want, child>>
    BY <1>4 DEF FireHandlerNow
  <2>2. calls \in [Handlers -> Nat]
    BY DEF TypeOK
  <2>3. \A h \in Handlers : (calls[h] > 0 \/ op = h) => calls'[h] > 0
    BY <2>1, <2>2
  <2>4. \A t, r : ComesTo(t, r)' <=> ComesTo(t, r)
    BY <2>1 DEF ComesTo, In
  <2>5. \A r \in Visited : Reached(r) => Reached(r)'
    BY <2>1, <2>3 DEF Reached
  <2>6. LiveInv'
    BY <2>1 DEF ReachInv, LiveInv
  <2>7. CancelInv'
    BY <2>1, <2>4, <2>5 DEF ReachInv, CancelInv
  <2>8. EscalateInv'
    BY <2>1, <2>4 DEF ReachInv, EscalateInv
  <2> QED  BY <2>6, <2>7, <2>8 DEF ReachInv
<1>5. ASSUME NEW a \in AsyncLets, StartAsyncLet(a) PROVE ReachInv'
  <2>1. a \in Visited /\ a \notin Handlers /\ InBody /\ phase[a] = "unused"
    BY <1>5, RecordsAssumption DEF StartAsyncLet, Visited
  <2>2. /\ status' = Push(status, a) /\ phase' = [phase EXCEPT ![a] = "live"]
        /\ UNCHANGED <<cpc, todo, want, calls>>
        /\ child' = [child EXCEPT ![a] = [cancelled |-> status.cancelled,
                                        priority  |-> Downgrade(status.priority)]]
    BY <1>5 DEF StartAsyncLet
  <2>3. child \in [AsyncLets -> [cancelled: BOOLEAN, priority: Priorities]]
    BY DEF TypeOK
  <2>4. /\ child'[a].cancelled = status.cancelled
        /\ child'[a].priority = Downgrade(status.priority)
        /\ \A b \in AsyncLets : b # a => child'[b] = child[b]
    BY <2>2, <2>3
  <2>5. child'[a].priority >= Downgrade(status.priority)
    <3>1. Downgrade(status.priority) \in Priorities
      BY <1>0, StatusFields, DowngradeType
    <3> QED  BY <2>4, <3>1 DEF Priorities
  <2>6. status.cancelled => Reached(a)'
    BY <2>1, <2>4 DEF Reached
  <2> QED  BY <2>1, <2>2, <2>4, <2>5, <2>6, AddReach
<1>6. ASSUME NEW q \in Preferences, PushPreference(q) PROVE ReachInv'
  <2>1. q \in Records /\ q \notin Visited
    BY RecordsAssumption DEF Records, Visited
  <2>2. Push(status, q) \in Status
    BY <1>0, <2>1, PushType
  <2>3. SameBits /\ status'.records = <<q>> \o status.records
    <3>1. /\ status'.cancelled = Push(status, q).cancelled
          /\ status'.priority = Push(status, q).priority
          /\ status'.records = Push(status, q).records
      BY <1>6, <2>2 DEF PushPreference, Status
    <3> QED  BY <1>0, <3>1, HelperCancelled, HelperFlags
  <2>4. \A r \in Visited : phase'[r] = phase[r]
    BY <1>0, <1>6, <2>1 DEF PushPreference, Visited
  <2>5. \A r : In(status.records, r) => In(status'.records, r)
    BY <1>0, <2>1, <2>3, StaysPushed
  <2> QED  BY <1>1, <1>6, <2>3, <2>4, <2>5 DEF PushPreference, InBody
<1>7. ASSUME NEW q \in Handlers \cup AsyncLets, LeaveScope(q) PROVE ReachInv'
  <2>1. child \in [AsyncLets -> [cancelled: BOOLEAN, priority: Priorities]]
    BY DEF TypeOK
  <2>2. \/ child' = child
        \/ q \in AsyncLets /\ child' = [child EXCEPT ![q].cancelled = TRUE]
    BY <1>7 DEF LeaveScope
  <2>3. ChildrenKept
    BY <2>1, <2>2 DEF ChildrenKept
  <2>4. tpc # "fire" /\ UNCHANGED <<status, phase, cpc, todo, want, calls>>
    BY <1>7 DEF LeaveScope, InBody
  <2>5. \A r \in Visited : phase'[r] = "live" => phase[r] = "live" /\ In(status'.records, r)
    BY <1>0, <2>4 DEF LiveInv
  <2>6. UNCHANGED <<cpc, todo, want, calls>> /\ SameBits
    BY <2>4
  <2> QED  BY <2>3, <2>4, <2>5, <2>6, ReachFrame
<1>8. CASE RemoveInnermost
  <2>1. /\ tpc = "remove" /\ status.records # <<>> /\ Head(status.records) = op
        /\ status' = Pop(status) /\ phase' = [phase EXCEPT ![op] = "removed"]
        /\ UNCHANGED <<cpc, todo, want, calls, child>>
    BY <1>8 DEF RemoveInnermost, Innermost
  <2>2. SameBits /\ status'.records = Tail(status.records)
    BY <1>0, <2>1, HelperCancelled, HelperFlags
  <2>3. ASSUME NEW r \in Visited, phase'[r] = "live"
        PROVE  phase[r] = "live" /\ In(status'.records, r)
    <3>1. r # op /\ phase[r] = "live"
      BY <1>0, <2>1, <2>3 DEF Visited
    <3>2. In(status.records, r)
      BY <1>0, <3>1 DEF LiveInv
    <3> QED  BY <1>0, <2>1, <2>2, <3>1, <3>2, StaysInTail
  <2> QED  BY <2>1, <2>2, <2>3, ReachFrame
<1>9. ASSUME NEW q \in Preferences \cup {InitialPref}, LockToSplice(q) PROVE ReachInv'
  <2>1. SameBits /\ status'.records = status.records
    BY <1>0, <1>9 DEF LockToSplice, Lock, Status
  <2> QED  BY <1>1, <1>9, <2>1 DEF LockToSplice, InBody
<1>10. CASE SpliceAndUnlock
  <2>1. SameBits /\ status'.records = Splice(status.records, op)
    BY <1>0, <1>10 DEF SpliceAndUnlock, Status
  <2>2. In(status.records, op)
    BY <1>10 DEF SpliceAndUnlock, LockInv, InList, In
  <2>3. /\ tpc = "splice" /\ UNCHANGED <<cpc, todo, want, calls, child>>
        /\ \/ phase' = phase /\ op = InitialPref
           \/ phase' = [phase EXCEPT ![op] = "removed"]
    BY <1>10 DEF SpliceAndUnlock
  <2>4. ASSUME NEW r \in Visited, phase'[r] = "live"
        PROVE  phase[r] = "live" /\ In(status'.records, r)
    <3>1. r # op /\ phase[r] = "live"
      <4>1. CASE phase' = phase /\ op = InitialPref
        BY <2>4, <4>1, RecordsAssumption DEF Visited
      <4>2. CASE phase' = [phase EXCEPT ![op] = "removed"]
        BY <1>0, <2>4, <4>2 DEF Visited
      <4> QED  BY <2>3, <4>1, <4>2
    <3>2. In(status.records, r)
      BY <1>0, <3>1 DEF LiveInv
    <3> QED  BY <1>0, <2>1, <2>2, <3>1, <3>2, StaysSpliced
  <2> QED  BY <2>1, <2>3, <2>4, ReachFrame
<1>11. CASE \/ InitContinuation \/ AwaitResumed \/ PublishAwait
            \/ EnqueueSelf \/ Dequeue \/ Return
  BY <1>2, <1>11
  DEF InitContinuation, AwaitResumed, PublishAwait, EnqueueSelf, Dequeue, Return, InBody
<1>12. CASE InitPreawaited \/ SuspendOnContinuation \/ SwitchExecutor
  <2> DEFINE pushed == Push(status, Dependency)
  <2>1. /\ \/ status' = AsSuspended(pushed)
           \/ status' = AsEnqueued(AsSuspended(pushed))
        /\ tpc = "body" /\ UNCHANGED <<phase, cpc, todo, want, calls, child>>
    BY <1>12 DEF InitPreawaited, SuspendOnContinuation, SwitchExecutor, InBody
  <2>2. Dependency \in Records
    BY DEF Records
  <2>3. /\ pushed \in Status /\ pushed.records = <<Dependency>> \o status.records
        /\ pushed.cancelled = status.cancelled /\ pushed.priority = status.priority
    BY <1>0, <2>2, PushType, HelperFlags, HelperCancelled
  <2> HIDE DEF pushed
  <2>4. AsSuspended(pushed) \in Status
    BY <2>3, FlagTypes
  <2>5. SameBits /\ status'.records = pushed.records
    <3>1. CASE status' = AsSuspended(pushed)
      BY <2>3, <3>1, HelperFlags, HelperCancelled
    <3>2. CASE status' = AsEnqueued(AsSuspended(pushed))
      BY <2>3, <2>4, <3>2, HelperFlags, HelperCancelled
    <3> QED  BY <2>1, <3>1, <3>2
  <2>6. \A r : In(status.records, r) => In(status'.records, r)
    BY <1>0, <2>2, <2>3, <2>5, StaysPushed
  <2> QED  BY <1>1, <2>1, <2>5, <2>6
<1>13. ASSUME FlagAsRunning, tpc # "fire" PROVE ReachInv'
  <2>1. /\ status.records # <<>> /\ Head(status.records) = Dependency
        /\ status' = AsRunning(Pop(status))
        /\ UNCHANGED <<phase, cpc, todo, want, calls, child>>
    BY <1>13 DEF FlagAsRunning, Innermost
  <2>2. Pop(status) \in Status
    BY <1>0, <2>1, PopType
  <2>3. SameBits /\ status'.records = Tail(status.records)
    BY <1>0, <2>1, <2>2, HelperFlags, HelperCancelled
  <2>4. \A r \in Visited : In(status.records, r) => In(status'.records, r)
    BY <1>0, <2>1, <2>3, StaysInTail, RecordsAssumption DEF Visited
  <2> QED  BY <1>1, <1>13, <2>1, <2>3, <2>4
<1>14. CASE Complete
  <2>1. SameBits /\ status'.records = status.records
    BY <1>0, <1>14, HelperFlags, HelperCancelled DEF Complete
  <2> QED  BY <1>1, <1>14, <2>1 DEF Complete
<1> QED
  BY <1>3, <1>4, <1>5, <1>6, <1>7, <1>8, <1>9, <1>10, <1>11, <1>12, <1>13, <1>14
  DEF TaskStep, ResumeWithoutEnqueue, Start

LEMMA ResumeStepReach ==
  ASSUME ReachInv, TypeOK, NEW t \in Cancellers \cup Resumers, ResumeStep(t)
  PROVE  ReachInv'
<1> USE DEF taskVars, waitVars, cancelVars
<1>1. status \in Status
  BY DEF TypeOK
<1>2. UNCHANGED <<phase, tpc, op, cpc, todo, want, calls, child>>
  BY DEF ResumeStep, ResumePending, ResumeAwaited, ResumeLock, ResumeUpdate, ResumeEnqueue
<1>3. /\ status'.cancelled = status.cancelled /\ status'.priority = status.priority
      /\ status'.records = status.records
  <2>1. CASE ResumeLock(t)
    BY <1>1, <2>1 DEF ResumeLock, Lock, Status
  <2>2. CASE ResumeUpdate(t)
    <3> DEFINE newOwner == IF t \in Resumers THEN NoThread ELSE AsEnqueued(status).owner
    <3>1. status' = [AsEnqueued(status) EXCEPT !.owner = newOwner]
      BY <2>2 DEF ResumeUpdate
    <3>2. AsEnqueued(status) \in Status
      BY <1>1, FlagTypes
    <3> HIDE DEF newOwner
    <3>3. /\ status'.cancelled = AsEnqueued(status).cancelled
          /\ status'.priority = AsEnqueued(status).priority
          /\ status'.records = AsEnqueued(status).records
      BY <3>1, <3>2 DEF Status
    <3> QED  BY <1>1, <3>3, HelperCancelled, HelperFlags
  <2>3. CASE ResumePending(t) \/ ResumeAwaited(t) \/ ResumeEnqueue(t)
    BY <2>3 DEF ResumePending, ResumeAwaited, ResumeEnqueue
  <2> QED  BY <2>1, <2>2, <2>3 DEF ResumeStep
<1>4. \A r \in Visited : phase'[r] = "live" => phase[r] = "live" /\ In(status'.records, r)
  BY <1>2, <1>3 DEF ReachInv, LiveInv
<1> QED  BY <1>2, <1>3, <1>4, ReachFrame

(* The word is marked: the thread that did it comes to every live record.  *)
LEMMA EmptyList ==
  ASSUME LiveInv, ~ HasRecord
  PROVE  \A r \in Visited : phase[r] # "live"
BY DEF LiveInv, HasRecord, In

LEMMA CancelReach ==
  ASSUME ReachInv, TypeOK, NEW c \in Cancellers, Cancel(c)
  PROVE  ReachInv'
<1> USE DEF taskVars, waitVars, cancelVars
<1>1. /\ status'.priority = status.priority /\ status'.records = status.records
      /\ UNCHANGED <<phase, todo, want, child>>
  BY DEF Cancel, TypeOK, Status
<1>2. /\ cpc' = [cpc EXCEPT ![c] = IF HasRecord THEN "lock" ELSE "idle"]
      /\ cpc \in [Cancellers \cup Escalators -> {"idle", "lock", "scan", "handler"}]
      /\ cpc[c] = "idle"
  BY DEF Cancel, TypeOK
<1>3. LiveInv'
  BY <1>1 DEF ReachInv, LiveInv
<1>4. CancelInv'
  <2>1. CASE HasRecord
    <3>1. cpc'[c] = "lock"
      BY <1>2, <2>1
    <3> QED  BY <3>1 DEF CancelInv, ComesTo
  <2>2. CASE ~ HasRecord
    BY <1>1, <2>2, EmptyList DEF ReachInv, CancelInv
  <2> QED  BY <2>1, <2>2
<1>5. EscalateInv'
  <2>1. \A e \in Escalators, r \in Visited : ComesTo(e, r)' <=> ComesTo(e, r)
    <3>1. \A e \in Escalators : cpc'[e] = cpc[e]
      BY <1>2, ThreadsAssumption
    <3> QED  BY <1>1, <3>1 DEF ComesTo, In
  <2> QED  BY <1>1, <2>1 DEF ReachInv, EscalateInv, Visited
<1> QED  BY <1>3, <1>4, <1>5 DEF ReachInv

LEMMA EscalateReach ==
  ASSUME ReachInv, TypeOK, NEW e \in Escalators, NEW p \in Priorities, Escalate(e, p)
  PROVE  ReachInv'
<1> USE DEF taskVars, waitVars, cancelVars
<1> DEFINE mark == status.escalated \/ status.running \/ status.enqueued
<1>1. /\ status' = [status EXCEPT !.priority = p, !.escalated = mark] /\ status \in Status
      /\ want' = [want EXCEPT ![e] = p] /\ want \in [Escalators -> Priorities]
      /\ UNCHANGED <<phase, tpc, op, todo, calls, child>>
      /\ cpc' = [cpc EXCEPT ![e] = IF HasRecord THEN "lock" ELSE "idle"]
      /\ cpc \in [Cancellers \cup Escalators -> {"idle", "lock", "scan", "handler"}]
      /\ cpc[e] = "idle"
  BY DEF Escalate, TypeOK
<1> HIDE DEF mark
<1>2. /\ status'.cancelled = status.cancelled /\ status'.priority = p
      /\ status'.records = status.records /\ want'[e] = p
  BY <1>1 DEF Status
<1>3. LiveInv'
  BY <1>1, <1>2 DEF ReachInv, LiveInv
<1>4. CancelInv'
  <2>1. \A c \in Cancellers, r \in Visited : ComesTo(c, r)' <=> ComesTo(c, r)
    <3>1. \A c \in Cancellers : cpc'[c] = cpc[c]
      BY <1>1, ThreadsAssumption
    <3> QED  BY <1>1, <3>1 DEF ComesTo, In
  <2>2. \A r \in Visited : Reached(r)' <=> Reached(r)
    BY <1>1 DEF Reached
  <2> QED  BY <1>1, <1>2, <2>1, <2>2 DEF ReachInv, CancelInv
<1>5. EscalateInv'
  <2>1. CASE HasRecord
    <3>1. cpc'[e] = "lock"
      BY <1>1, <2>1
    <3> QED  BY <1>2, <3>1 DEF EscalateInv, ComesTo
  <2>2. CASE ~ HasRecord
    BY <1>1, <2>2, EmptyList DEF ReachInv, EscalateInv, Visited
  <2> QED  BY <2>1, <2>2
<1> QED  BY <1>3, <1>4, <1>5 DEF ReachInv

(* A step of a propagation: a record that its thread would have come to is *)
(* reached, or the thread still comes to it.                               *)
LEMMA PropagationFrame ==
  ASSUME ReachInv, TypeOK, TypeOK', UNCHANGED <<phase, tpc, op, want>>,
         status'.cancelled = status.cancelled, status'.priority = status.priority,
         status'.records = status.records,
         \A h \in Handlers : calls[h] > 0 => calls'[h] > 0,
         \A a \in AsyncLets : child[a].cancelled => child'[a].cancelled,
         \A a \in AsyncLets : child'[a].priority >= child[a].priority,
         \A c \in Cancellers, r \in Visited :
           phase[r] = "live" /\ ComesTo(c, r) => Reached(r)' \/ ComesTo(c, r)',
         \A e \in Escalators, a \in AsyncLets :
           phase[a] = "live" /\ ComesTo(e, a) =>
             child'[a].priority >= want[e] \/ ComesTo(e, a)'
  PROVE  ReachInv'
<1>1. LiveInv'
  BY DEF ReachInv, LiveInv
<1>2. ASSUME NEW r \in Visited, Reached(r) PROVE Reached(r)'
  <2>1. CASE r \in Handlers
    BY <1>2, <2>1 DEF Reached
  <2>2. CASE r \notin Handlers
    <3>1. r \in AsyncLets /\ child[r].cancelled
      BY <1>2, <2>2 DEF Reached, Visited
    <3> QED  BY <2>2, <3>1 DEF Reached
  <2> QED  BY <2>1, <2>2
<1>3. CancelInv'
  BY <1>2 DEF ReachInv, CancelInv
<1>4. ASSUME NEW a \in AsyncLets, phase[a] = "live"
      PROVE  \/ child'[a].priority >= Downgrade(status.priority)
             \/ \E e \in Escalators : want'[e] = status.priority /\ ComesTo(e, a)'
  <2>1. /\ child[a].priority \in Nat /\ child'[a].priority \in Nat
        /\ status.priority \in Nat \ {0} /\ Downgrade(status.priority) \in Nat
        /\ Downgrade(status.priority) <= status.priority
    <3>1. child[a].priority \in Priorities /\ child'[a].priority \in Priorities
      BY DEF TypeOK
    <3>2. status.priority \in Priorities
      BY StatusFields DEF TypeOK
    <3> QED  BY <3>1, <3>2, BoundsAssumption DEF Priorities, Downgrade
  <2>2. CASE child[a].priority >= Downgrade(status.priority)
    BY <2>1, <2>2
  <2>3. ASSUME NEW e \in Escalators, want[e] = status.priority, ComesTo(e, a)
        PROVE  \/ child'[a].priority >= Downgrade(status.priority)
               \/ \E d \in Escalators : want'[d] = status.priority /\ ComesTo(d, a)'
    <3>1. CASE ComesTo(e, a)'
      BY <2>3, <3>1
    <3>2. CASE ~ ComesTo(e, a)'
      <4>1. child'[a].priority >= status.priority
        BY <1>4, <2>3, <3>2
      <4> QED  BY <2>1, <4>1
    <3> QED  BY <3>1, <3>2
  <2> QED  BY <1>4, <2>2, <2>3 DEF ReachInv, EscalateInv
<1>5. EscalateInv'
  BY <1>4 DEF EscalateInv
<1> QED  BY <1>1, <1>3, <1>5 DEF ReachInv

LEMMA PropagateReach ==
  ASSUME ReachInv, TypeOK, TypeOK', NEW t \in Cancellers \cup Escalators, Propagate(t)
  PROVE  ReachInv'
<1> USE DEF taskVars, waitVars, cancelVars
<1>0. /\ status \in Status /\ calls \in [Handlers -> Nat]
      /\ child \in [AsyncLets -> [cancelled: BOOLEAN, priority: Priorities]]
      /\ cpc \in [Cancellers \cup Escalators -> {"idle", "lock", "scan", "handler"}]
      /\ want \in [Escalators -> Priorities]
      /\ todo \in [Cancellers \cup Escalators -> Seq(Records)] /\ todo[t] \in Seq(Records)
  BY DEF TypeOK
<1> DEFINE SameWord == /\ status'.cancelled = status.cancelled
                       /\ status'.priority = status.priority
                       /\ status'.records = status.records
<1>1. ASSUME SameWord, UNCHANGED <<phase, tpc, op, want, calls, child>>,
             \A u \in Cancellers \cup Escalators : u # t =>
               cpc'[u] = cpc[u] /\ todo'[u] = todo[u],
             \A r \in Visited : phase[r] = "live" /\ ComesTo(t, r) => ComesTo(t, r)'
      PROVE  ReachInv'
  <2>1. ASSUME NEW u \in Cancellers \cup Escalators, NEW r \in Visited,
               phase[r] = "live", ComesTo(u, r)
        PROVE  ComesTo(u, r)'
    BY <1>1, <2>1 DEF ComesTo, In
  <2>2. \A a \in AsyncLets : child'[a].priority >= child[a].priority
    BY <1>0, <1>1 DEF Priorities
  <2> QED  BY <1>1, <2>1, <2>2, PropagationFrame DEF Visited
<1>2. CASE LockToPropagate(t)
  <2>1. /\ SameWord /\ UNCHANGED <<phase, tpc, op, want, calls, child>>
        /\ todo' = [todo EXCEPT ![t] = status.records]
        /\ cpc' = [cpc EXCEPT ![t] = "scan"]
    BY <1>0, <1>2 DEF LockToPropagate, Lock, Status
  <2>2. cpc'[t] = "scan" /\ todo'[t] = status.records
    BY <1>0, <2>1
  <2>3. \A r \in Visited : phase[r] = "live" => ComesTo(t, r)'
    BY <2>2 DEF ReachInv, LiveInv, ComesTo, In
  <2> QED  BY <1>0, <1>1, <2>1, <2>3
<1>3. CASE Unlock(t)
  <2>1. /\ SameWord /\ UNCHANGED <<phase, tpc, op, want, calls, child, todo>>
        /\ cpc' = [cpc EXCEPT ![t] = "idle"] /\ cpc[t] = "scan" /\ todo[t] = <<>>
    BY <1>0, <1>3 DEF Unlock, Status
  <2>2. \A r : ~ ComesTo(t, r)
    BY <2>1 DEF ComesTo, In
  <2> QED  BY <1>0, <1>1, <2>1, <2>2
<1>4. CASE t \in Cancellers /\ HandlerReturns(t)
  <2>1. /\ SameWord /\ UNCHANGED <<phase, tpc, op, want, calls, child>>
        /\ cpc' = [cpc EXCEPT ![t] = "scan"] /\ cpc[t] = "handler"
        /\ todo' = [todo EXCEPT ![t] = Tail(todo[t])]
    BY <1>4 DEF HandlerReturns, VisitNext
  <2>2. cpc'[t] = "scan" /\ todo'[t] = Tail(todo[t])
    BY <1>0, <2>1
  <2>3. \A r : ComesTo(t, r) => ComesTo(t, r)'
    BY <2>1, <2>2 DEF ComesTo, In
  <2> QED  BY <1>0, <1>1, <2>1, <2>3
<1>5. CASE t \in Cancellers /\ CancelCallHandler(t)
  <2>1. /\ UNCHANGED <<status, phase, tpc, op, want, child, todo>>
        /\ cpc' = [cpc EXCEPT ![t] = "handler"] /\ cpc[t] = "scan"
        /\ todo[t] # <<>> /\ Head(todo[t]) \in Handlers
        /\ calls' = [calls EXCEPT ![Head(todo[t])] = @ + 1]
    BY <1>5 DEF CancelCallHandler, Visiting, Next1
  <2>2. /\ \A h \in Handlers : calls[h] > 0 => calls'[h] > 0
        /\ calls'[Head(todo[t])] > 0 /\ cpc'[t] = "handler"
        /\ \A u \in Cancellers \cup Escalators : u # t => cpc'[u] = cpc[u]
    BY <1>0, <2>1
  <2>3. ASSUME NEW r, ComesTo(t, r) PROVE Reached(r)' \/ ComesTo(t, r)'
    <3>1. In(todo[t], r)
      BY <2>1, <2>3 DEF ComesTo
    <3>2. CASE r = Head(todo[t])
      BY <2>1, <2>2, <3>2 DEF Reached
    <3>3. CASE r # Head(todo[t])
      <4>1. In(Tail(todo[t]), r)
        BY <1>0, <3>1, <3>3, StaysInTail
      <4> QED  BY <2>1, <2>2, <4>1 DEF ComesTo, In
    <3> QED  BY <3>2, <3>3
  <2>4. ASSUME NEW u \in Cancellers \cup Escalators, u # t, NEW r, ComesTo(u, r)
        PROVE  ComesTo(u, r)'
    BY <2>1, <2>2, <2>4 DEF ComesTo, In
  <2>5. \A e \in Escalators : e # t
    BY <1>5, ThreadsAssumption
  <2>6. \A a \in AsyncLets : child'[a].priority >= child[a].priority
    BY <1>0, <2>1 DEF Priorities
  <2> QED  BY <2>1, <2>2, <2>3, <2>4, <2>5, <2>6, PropagationFrame
<1>6. CASE t \in Cancellers /\ CancelVisit(t)
  <2> DEFINE r1 == Head(todo[t])
  <2>1. /\ UNCHANGED <<status, phase, tpc, op, want, calls, cpc>> /\ cpc[t] = "scan"
        /\ todo' = [todo EXCEPT ![t] = Tail(todo[t])] /\ todo[t] # <<>> /\ r1 \notin Handlers
        /\ child' = IF r1 \in AsyncLets
                    THEN [child EXCEPT ![r1].cancelled = TRUE] ELSE child
    BY <1>6 DEF CancelVisit, Visiting, Next1, VisitNext
  <2>2. /\ \A a \in AsyncLets : /\ child[a].cancelled => child'[a].cancelled
                                /\ child'[a].priority = child[a].priority
        /\ r1 \in AsyncLets => child'[r1].cancelled
    BY <1>0, <2>1
  <2>3. /\ todo'[t] = Tail(todo[t])
        /\ \A u \in Cancellers \cup Escalators : u # t => todo'[u] = todo[u]
    BY <1>0, <2>1
  <2>4. ASSUME NEW r \in Visited, ComesTo(t, r) PROVE Reached(r)' \/ ComesTo(t, r)'
    <3>1. In(todo[t], r)
      BY <2>1, <2>4 DEF ComesTo
    <3>2. CASE r = r1
      BY <2>1, <2>2, <2>4, <3>2 DEF Reached, Visited
    <3>3. CASE r # r1
      <4>1. In(Tail(todo[t]), r)
        BY <1>0, <3>1, <3>3, StaysInTail
      <4> QED  BY <2>1, <2>3, <4>1 DEF ComesTo, In
    <3> QED  BY <3>2, <3>3
  <2>5. ASSUME NEW u \in Cancellers \cup Escalators, u # t, NEW r, ComesTo(u, r)
        PROVE  ComesTo(u, r)'
    BY <2>1, <2>3, <2>5 DEF ComesTo, In
  <2>6. \A e \in Escalators : e # t
    BY <1>6, ThreadsAssumption
  <2>7. \A a \in AsyncLets : child'[a].priority >= child[a].priority
    <3>1. \A a \in AsyncLets : child[a].priority \in Nat
      BY <1>0 DEF Priorities
    <3> QED  BY <2>2, <3>1
  <2> HIDE DEF r1
  <2> QED  BY <2>1, <2>2, <2>4, <2>5, <2>6, <2>7, PropagationFrame
<1>7. CASE t \in Escalators /\ EscalateVisit(t)
  <2> DEFINE r1 == Head(todo[t])
  <2>1. /\ UNCHANGED <<status, phase, tpc, op, want, calls, cpc>> /\ cpc[t] = "scan"
        /\ todo' = [todo EXCEPT ![t] = Tail(todo[t])] /\ todo[t] # <<>>
        /\ child' = IF r1 \in AsyncLets /\ child[r1].priority < want[t]
                    THEN [child EXCEPT ![r1].priority = want[t]] ELSE child
    BY <1>7 DEF EscalateVisit, Visiting, Next1, VisitNext
  <2>2. want[t] \in Nat /\ \A a \in AsyncLets : child[a].priority \in Nat
    BY <1>0, <1>7 DEF Priorities
  <2>3. /\ \A a \in AsyncLets : child[a].cancelled => child'[a].cancelled
        /\ \A a \in AsyncLets : child'[a].priority >= child[a].priority
        /\ r1 \in AsyncLets => child'[r1].priority >= want[t]
    <3>1. CASE r1 \in AsyncLets /\ child[r1].priority < want[t]
      <4>1. child' = [child EXCEPT ![r1].priority = want[t]]
        BY <2>1, <3>1
      <4> HIDE DEF r1
      <4>2. /\ \A a \in AsyncLets : child'[a].cancelled = child[a].cancelled
            /\ child'[r1].priority = want[t]
            /\ \A a \in AsyncLets : a # r1 => child'[a].priority = child[a].priority
        BY <1>0, <3>1, <4>1
      <4> QED  BY <2>2, <3>1, <4>2
    <3>2. CASE ~ (r1 \in AsyncLets /\ child[r1].priority < want[t])
      <4>1. child' = child
        BY <2>1, <3>2
      <4> HIDE DEF r1
      <4> QED  BY <2>2, <3>2, <4>1
    <3> QED  BY <3>1, <3>2
  <2>4. /\ todo'[t] = Tail(todo[t])
        /\ \A u \in Cancellers \cup Escalators : u # t => todo'[u] = todo[u]
    BY <1>0, <2>1
  <2>5. ASSUME NEW a \in AsyncLets, ComesTo(t, a)
        PROVE  child'[a].priority >= want[t] \/ ComesTo(t, a)'
    <3>1. In(todo[t], a)
      BY <2>1, <2>5 DEF ComesTo
    <3>2. CASE a = r1
      BY <2>3, <2>5, <3>2
    <3>3. CASE a # r1
      <4>1. In(Tail(todo[t]), a)
        BY <1>0, <3>1, <3>3, StaysInTail
      <4> QED  BY <2>1, <2>4, <4>1 DEF ComesTo, In
    <3> QED  BY <3>2, <3>3
  <2>6. ASSUME NEW u \in Cancellers \cup Escalators, u # t, NEW r, ComesTo(u, r)
        PROVE  ComesTo(u, r)'
    BY <2>1, <2>4, <2>6 DEF ComesTo, In
  <2>7. \A c \in Cancellers : c # t
    BY <1>7, ThreadsAssumption
  <2> HIDE DEF r1
  <2> QED  BY <2>1, <2>3, <2>5, <2>6, <2>7, PropagationFrame
<1> QED  BY <1>2, <1>3, <1>4, <1>5, <1>6, <1>7 DEF Propagate
-----------------------------------------------------------------------------
LEMMA InitReach == Init => ReachInv
BY DEF Init, ReachInv, LiveInv, CancelInv, EscalateInv, Visited

LEMMA StepReach == IInv /\ ReachInv /\ [Next]_vars => ReachInv'
<1> SUFFICES ASSUME IInv, ReachInv, [Next]_vars PROVE ReachInv'
  OBVIOUS
<1>1. TypeOK /\ LockInv /\ TypeOK'
  BY StepInv DEF IInv
<1>2. CASE TaskStep
  BY <1>1, <1>2, TaskStepReach
<1>3. CASE \E t \in Cancellers \cup Resumers : ResumeStep(t)
  BY <1>1, <1>3, ResumeStepReach
<1>4. CASE \E c \in Cancellers : Cancel(c)
  BY <1>1, <1>4, CancelReach
<1>5. CASE \E e \in Escalators, p \in Priorities : Escalate(e, p)
  BY <1>1, <1>5, EscalateReach
<1>6. CASE \E t \in Cancellers \cup Escalators : Propagate(t)
  BY <1>1, <1>6, PropagateReach
<1>7. CASE UNCHANGED vars
  <2>1. UNCHANGED <<status, phase, tpc, op, cpc, want, todo, calls, child>>
    BY <1>7 DEF vars, taskVars, waitVars, cancelVars
  <2>2. \A r \in Visited : phase'[r] = "live" => phase[r] = "live" /\ In(status'.records, r)
    BY <2>1 DEF ReachInv, LiveInv
  <2> QED  BY <1>1, <2>1, <2>2, ReachFrame
<1> QED  BY <1>2, <1>3, <1>4, <1>5, <1>6, <1>7 DEF Next

LEMMA ReachInvariant == Spec => []ReachInv
<1>1. IInv /\ ReachInv /\ [Next]_vars => (IInv /\ ReachInv)'
  BY StepInv, StepReach
<1> QED  BY InitInv, InitReach, <1>1, PTL DEF Spec

(* However additions of handlers and children race with the cancellation   *)
(* of the task, of whichever thread, no live handler is left uncalled and  *)
(* no live child uncancelled when the cancellation is over.                *)
THEOREM CancellationReaches == Spec => []CancellationReachesEveryRecord
<1>1. ReachInv => CancellationReachesEveryRecord
  <2> SUFFICES ASSUME ReachInv, status.cancelled, \A c \in Cancellers : cpc[c] = "idle"
               PROVE  /\ \A h \in Handlers : phase[h] = "live" =>
                           calls[h] > 0 \/ (tpc = "fire" /\ op = h)
                      /\ \A a \in AsyncLets : phase[a] = "live" => child[a].cancelled
    BY DEF CancellationReachesEveryRecord
  <2>1. \A r \in Visited : phase[r] = "live" => Reached(r)
    BY DEF ReachInv, CancelInv, ComesTo
  <2>2. \A a \in AsyncLets : a \notin Handlers
    BY RecordsAssumption
  <2> QED  BY <2>1, <2>2 DEF Reached, Visited
<1> QED  BY ReachInvariant, <1>1, PTL

(* However escalations of different priorities and additions of children   *)
(* race, no live child is left below the task when they are over.          *)
THEOREM EscalationReaches == Spec => []EscalationReachesEveryChild
<1>1. ReachInv => EscalationReachesEveryChild
  BY DEF ReachInv, EscalateInv, ComesTo, EscalationReachesEveryChild
<1> QED  BY ReachInvariant, <1>1, PTL
=============================================================================
