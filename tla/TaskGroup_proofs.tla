-------------------------- MODULE TaskGroup_proofs --------------------------
(***************************************************************************)
(* Theorems about TaskGroup, for any finite set of children: the order of  *)
(* results, the agreement of status word and queues, the destruction, the  *)
(* error that is thrown and the reach of a cancellation.                   *)
(***************************************************************************)
EXTENDS TaskGroup, Integers, SequenceTheorems, FiniteSetTheorems, WellFoundedInduction,
        TLAPS

Statuses ==
  [cancelled : BOOLEAN, waiting : BOOLEAN, ready : Int, pending : Int]

(* What the order of results needs of the types; that the pending count    *)
(* never falls below zero is not, and follows from CountInv below.         *)
TypeInv ==
  /\ status \in Statuses
  /\ mutex \in Children \cup {NoThread}
  /\ cpc \in [Children -> {"unborn", "running", "store", "complete", "wake", "done"}]
  /\ offered \in Seq(Children) /\ consumed \in Seq(Children)

(* Who holds the mutex.                                                    *)
MutexInv ==
  \A c \in Children : mutex = c <=> cpc[c] \in {"store", "complete"}

(* A result waits to be delivered only while the owner is about to take    *)
(* it; the owner is marked as waiting only while it is parked without one. *)
WaiterInv ==
  /\ delivered \in Children \cup {NoChild}
  /\ opc \in {"detach", "resumed"} => delivered # NoChild
  /\ delivered # NoChild => opc \in {"detach", "parked", "resumed"}
  /\ status.waiting => opc = "parked" /\ delivered = NoChild /\ readyQueue = <<>>
  /\ \A c \in Children :
       /\ cpc[c] = "complete" => status.waiting
       /\ cpc[c] = "store" => ~ status.waiting
       /\ cpc[c] = "wake" => opc = "parked" /\ delivered # NoChild
  /\ \A c, d \in Children : cpc[c] = "wake" /\ cpc[d] = "wake" => c = d

(* The ready count is the length of the ready queue, and one more while a  *)
(* child that was counted is not yet in it.                                *)
ReadyInv ==
  /\ readyQueue \in Seq(Children)
  /\ status.ready = Len(readyQueue) + (IF mutex = NoThread THEN 0 ELSE 1)

(* The list of an accumulating group: inductive only with where a result   *)
(* can be between completion and consumption.                              *)
IInv ==
  Accumulating => /\ TypeInv /\ MutexInv /\ WaiterInv /\ ReadyInv
                  /\ (adding \in Children => cpc[adding] = "unborn")
                  /\ ResultsInCompletionOrder

-----------------------------------------------------------------------------
(* How completed children move along the queues without changing places.   *)
LEMMA NewResult ==
  ASSUME NEW S, NEW a \in Seq(S), NEW d \in Seq(S), NEW r \in Seq(S), NEW x \in S
  PROVE  Append(a \o d \o r \o <<>>, x) = a \o d \o r \o <<x>>
<1>1. a \o d \o r \in Seq(S)
  BY ConcatProperties
<1>2. /\ a \o d \o r \o <<>> = a \o d \o r
      /\ Append(a \o d \o r, x) = a \o d \o r \o <<x>>
  BY <1>1, ConcatEmptySeq, AppendIsConcat
<1> QED
  BY <1>2

LEMMA QueueResult ==
  ASSUME NEW a \in Seq(Children), NEW d \in Seq(Children), NEW r \in Seq(Children),
         NEW x \in Children
  PROVE  /\ a \o d \o Append(r, x) \in Seq(Children)
         /\ a \o d \o r \o <<x>> = a \o d \o Append(r, x)
<1>a. a \o d \in Seq(Children)
  BY ConcatProperties
<1>b. <<x>> \in Seq(Children)
  OBVIOUS
<1>c. Append(r, x) \in Seq(Children)
  BY AppendProperties
<1>1. a \o d \in Seq(Children) /\ <<x>> \in Seq(Children) /\ Append(r, x) \in Seq(Children)
  BY <1>a, <1>b, <1>c
<1>2. a \o d \o r \o <<x>> = (a \o d) \o (r \o <<x>>)
  <2> DEFINE p == a \o d
  <2> HIDE DEF p
  <2>1. p \in Seq(Children)
    BY <1>a DEF p
  <2>2. p \o r \o <<x>> = p \o (r \o <<x>>)
    BY <1>b, <2>1, ConcatAssociative
  <2> QED
    BY <2>2 DEF p
<1>3. r \o <<x>> = Append(r, x)
  BY AppendIsConcat
<1>4. a \o d \o Append(r, x) \in Seq(Children)
  BY <1>1, ConcatProperties
<1> QED
  BY <1>2, <1>3, <1>4

LEMMA TakeResult ==
  ASSUME NEW S, NEW a \in Seq(S), NEW r \in Seq(S), r # <<>>
  PROVE  (a \o <<>>) \o r = (a \o <<Head(r)>>) \o Tail(r)
<1>1. Head(r) \in S /\ Tail(r) \in Seq(S) /\ <<Head(r)>> \in Seq(S)
  BY HeadTailProperties
<1>2. r = <<Head(r)>> \o Tail(r)
  <2>1. Len(r) \in Nat \ {0}
    BY EmptySeq
  <2>2. 1 \in 1 .. Len(r) /\ Len(r) \in 1 .. Len(r)
    BY <2>1
  <2>3. SubSeq(r, 1, Len(r)) = <<r[1]>> \o SubSeq(r, 2, Len(r))
    BY <2>2, SubSeqRecursiveFirst
  <2>4. SubSeq(r, 1, Len(r)) = r
    BY SubSeqFull
  <2>5. Head(r) = r[1] /\ Tail(r) = SubSeq(r, 2, Len(r))
    BY HeadTailOfSubSeq, <2>2, <2>4
  <2> QED
    BY <2>3, <2>4, <2>5
<1>3. a \o <<>> = a
  BY ConcatEmptySeq
<1>4. (a \o <<Head(r)>>) \o Tail(r) = a \o (<<Head(r)>> \o Tail(r))
  BY <1>1, ConcatAssociative
<1> QED
  BY <1>2, <1>3, <1>4

LEMMA ConsumeResult ==
  ASSUME NEW S, NEW a \in Seq(S), NEW x \in S
  PROVE  /\ Append(a, x) \in Seq(S)
         /\ a \o <<x>> = Append(a, x) \o <<>>
BY AppendProperties, AppendIsConcat, ConcatEmptySeq

LEMMA HandOver ==
  ASSUME NEW S, NEW a \in Seq(S), NEW x \in S
  PROVE  ((a \o <<>>) \o <<>>) \o <<x>> = ((a \o <<x>>) \o <<>>) \o <<>>
<1>1. <<x>> \in Seq(S) /\ a \o <<x>> \in Seq(S)
  BY AppendProperties, ConcatProperties, AppendIsConcat
<1> QED
  BY <1>1, ConcatEmptySeq

-----------------------------------------------------------------------------
(* Steps that leave the queues and the children's results alone.           *)
Quiet ==
  /\ kind' = kind /\ mutex' = mutex /\ readyQueue' = readyQueue
  /\ delivered' = delivered /\ offered' = offered /\ consumed' = consumed
  /\ cpc' = cpc
  /\ status' = status \/ status' \in [cancelled : BOOLEAN, waiting : {status.waiting},
                                      ready : {status.ready}, pending : Int]
  /\ \/ opc' = opc
     \/ {opc, opc'} \cap {"detach", "parked", "resumed"} = {}
  /\ adding' \in Children => adding' = adding \/ cpc[adding'] = "unborn"

LEMMA QuietKeepsIInv == IInv /\ Quiet => IInv'
<1> SUFFICES ASSUME IInv, Quiet, Accumulating PROVE IInv'
  BY DEF IInv, Quiet, Accumulating
<1>1. /\ status' \in Statuses
      /\ status'.waiting = status.waiting /\ status'.ready = status.ready
  BY DEF IInv, TypeInv, Quiet, Statuses
<1>2. TypeInv'
  BY <1>1 DEF IInv, TypeInv, Quiet
<1>3. MutexInv'
  BY DEF IInv, MutexInv, Quiet
<1>4. WaiterInv'
  BY <1>1 DEF IInv, WaiterInv, Quiet
<1>5. ReadyInv'
  BY <1>1 DEF IInv, ReadyInv, Quiet
<1>6. ResultsInCompletionOrder'
  BY DEF IInv, ResultsInCompletionOrder, Delivered, Settling, Accumulating, Quiet
<1>7. adding' \in Children => cpc'[adding'] = "unborn"
  BY DEF IInv, Quiet
<1> QED
  BY <1>2, <1>3, <1>4, <1>5, <1>6, <1>7 DEF IInv

LEMMA InitIInv == Init => IInv
<1> SUFFICES ASSUME Init PROVE IInv
  OBVIOUS
<1>1. <<>> \in Seq(Children) /\ Len(<<>>) = 0 /\ ((<<>> \o <<>>) \o <<>>) \o <<>> = <<>>
  BY EmptySeq, ConcatEmptySeq
<1>2. TypeInv /\ MutexInv /\ WaiterInv /\ ReadyInv
  BY <1>1, ChildrenAssumption DEF Init, TypeInv, Statuses, MutexInv, WaiterInv, ReadyInv
<1>3. ResultsInCompletionOrder
  BY <1>1 DEF Init, ResultsInCompletionOrder, Delivered, Settling
<1> QED
  BY <1>2, <1>3 DEF Init, IInv

(* The facts a step needs when nobody holds the mutex, or child c does.    *)
LEMMA Unlocked ==
  ASSUME IInv, Accumulating, mutex = NoThread
  PROVE  /\ \A c \in Children : cpc[c] \notin {"store", "complete"}
         /\ status.ready = Len(readyQueue)
         /\ Settling = <<>>
BY ChildrenAssumption DEF IInv, TypeInv, MutexInv, ReadyInv, Settling

LEMMA Locked ==
  ASSUME IInv, Accumulating, NEW c \in Children, mutex = c
  PROVE  /\ cpc[c] \in {"store", "complete"}
         /\ \A d \in Children \ {c} : cpc[d] \notin {"store", "complete"}
         /\ status.ready = Len(readyQueue) + 1
         /\ Settling = <<c>>
BY ChildrenAssumption DEF IInv, TypeInv, MutexInv, ReadyInv, Settling

LEMMA CompletingCounts ==
  ASSUME NEW s \in Statuses
  PROVE  /\ Completing(s) \in Statuses
         /\ Completing(s).waiting = FALSE /\ Completing(s).ready = s.ready - 1
         /\ Completing(s).cancelled = s.cancelled
<1> DEFINE a == [s EXCEPT !.ready = s.ready - 1]
           b == [a EXCEPT !.pending = s.pending - 1]
           d == [b EXCEPT !.waiting = FALSE]
<1>1. a \in Statuses /\ a.ready = s.ready - 1 /\ a.cancelled = s.cancelled
  BY DEF Statuses
<1>2. b \in Statuses /\ b.ready = a.ready /\ b.cancelled = a.cancelled
  <2> HIDE DEF a
  <2> QED
    BY <1>1 DEF Statuses
<1>3. d \in Statuses /\ d.ready = b.ready /\ d.waiting = FALSE /\ d.cancelled = b.cancelled
  <2> HIDE DEF b
  <2> QED
    BY <1>2 DEF Statuses
<1>4. Completing(s) = d
  BY DEF Completing
<1> QED
  BY <1>1, <1>2, <1>3, <1>4

-----------------------------------------------------------------------------
(* What the owner does with the queues.                                    *)
LEMMA PollReadyStep == IInv /\ Accumulating /\ PollReady => IInv'
<1> SUFFICES ASSUME IInv, Accumulating, PollReady PROVE IInv'
  OBVIOUS
<1>1. /\ mutex = NoThread /\ opc = "run" /\ status.ready > 0
      /\ status' = Completing(status) /\ opc' = "detach"
      /\ delivered' = Head(readyQueue) /\ readyQueue' = Tail(readyQueue)
      /\ kind' = kind /\ mutex' = mutex /\ adding' = adding /\ cpc' = cpc
      /\ offered' = offered /\ consumed' = consumed
  BY DEF PollReady, AtRun, addVars, history
<1>2. /\ readyQueue \in Seq(Children) /\ readyQueue # <<>>
      /\ Head(readyQueue) \in Children /\ Tail(readyQueue) \in Seq(Children)
      /\ Len(Tail(readyQueue)) = Len(readyQueue) - 1
  <2>1. readyQueue \in Seq(Children) /\ Len(readyQueue) > 0
    BY <1>1, Unlocked DEF IInv, ReadyInv
  <2> QED
    BY <2>1, EmptySeq, HeadTailProperties
<1>3. /\ status' \in Statuses
      /\ status'.waiting = FALSE /\ status'.ready = status.ready - 1
  BY <1>1, CompletingCounts DEF IInv, TypeInv
<1>4. delivered = NoChild /\ Delivered = <<>> /\ Delivered' = <<Head(readyQueue)>>
  BY <1>1, <1>2, ChildrenAssumption DEF IInv, WaiterInv, Delivered
<1>5. TypeInv' /\ MutexInv' /\ ReadyInv'
  BY <1>1, <1>2, <1>3, Unlocked DEF IInv, TypeInv, MutexInv, ReadyInv
<1>6. WaiterInv'
  BY <1>1, <1>2, <1>3, Unlocked, ChildrenAssumption DEF IInv, WaiterInv
<1>7. ResultsInCompletionOrder'
  <2>1. consumed \o Delivered \o readyQueue = (consumed \o Delivered)' \o readyQueue'
    BY <1>1, <1>2, <1>4, TakeResult DEF IInv, TypeInv
  <2> QED
    BY <1>1, <2>1 DEF IInv, ResultsInCompletionOrder, Settling, Accumulating
<1> QED
  BY <1>1, <1>5, <1>6, <1>7 DEF IInv

LEMMA PollWaitStep == IInv /\ Accumulating /\ PollWait => IInv'
<1> SUFFICES ASSUME IInv, Accumulating, PollWait PROVE IInv'
  OBVIOUS
<1>1. /\ mutex = NoThread /\ opc = "run" /\ status.ready = 0
      /\ status' = [status EXCEPT !.waiting = TRUE] /\ opc' = "parked"
      /\ delivered' = delivered /\ readyQueue' = readyQueue
      /\ kind' = kind /\ mutex' = mutex /\ adding' = adding /\ cpc' = cpc
      /\ offered' = offered /\ consumed' = consumed
  BY DEF PollWait, AtRun, addVars, history
<1>2. readyQueue = <<>> /\ readyQueue \in Seq(Children)
  BY <1>1, Unlocked, EmptySeq DEF IInv, ReadyInv
<1>3. /\ status' \in Statuses
      /\ status'.waiting = TRUE /\ status'.ready = status.ready
  BY <1>1 DEF IInv, TypeInv, Statuses
<1>4. TypeInv' /\ MutexInv' /\ ReadyInv'
  BY <1>1, <1>2, <1>3 DEF IInv, TypeInv, MutexInv, ReadyInv
<1>5. WaiterInv'
  BY <1>1, <1>2, <1>3, Unlocked DEF IInv, WaiterInv
<1>6. ResultsInCompletionOrder'
  BY <1>1 DEF IInv, ResultsInCompletionOrder, Delivered, Settling, Accumulating
<1> QED
  BY <1>1, <1>4, <1>5, <1>6 DEF IInv

(* next() returns the delivered child, after poll or after being woken.    *)
LEMMA ReturnStep ==
  ASSUME IInv, Accumulating, opc \in {"detach", "resumed"}, opc' = "run",
         delivered' = NoChild, consumed' = Append(consumed, delivered),
         UNCHANGED <<kind, status, mutex, readyQueue, adding, cpc, offered>>
  PROVE  IInv'
<1>1. delivered \in Children /\ ~ status.waiting
  BY ChildrenAssumption DEF IInv, WaiterInv
<1>2. /\ consumed \in Seq(Children) /\ consumed' \in Seq(Children)
      /\ consumed \o <<delivered>> = consumed' \o <<>>
  BY <1>1, ConsumeResult DEF IInv, TypeInv
<1>3. TypeInv' /\ MutexInv' /\ ReadyInv'
  BY <1>2 DEF IInv, TypeInv, MutexInv, ReadyInv
<1>4. WaiterInv'
  BY <1>1 DEF IInv, WaiterInv
<1>5. ResultsInCompletionOrder'
  <2>1. consumed \o Delivered = consumed' \o Delivered'
    BY <1>1, <1>2, ChildrenAssumption DEF Delivered
  <2> QED
    BY <2>1 DEF IInv, ResultsInCompletionOrder, Settling, Accumulating
<1> QED
  BY <1>3, <1>4, <1>5 DEF IInv

LEMMA DetachPolledStep == IInv /\ Accumulating /\ DetachPolled => IInv'
<1> SUFFICES ASSUME IInv, Accumulating, DetachPolled PROVE IInv'
  OBVIOUS
<1> QED
  BY ReturnStep DEF DetachPolled, queues, addVars

LEMMA ResumeStep == IInv /\ Accumulating /\ Resume => IInv'
<1> SUFFICES ASSUME IInv, Accumulating, Resume PROVE IInv'
  OBVIOUS
<1> QED
  BY ReturnStep DEF Resume, queues, addVars, Accumulating, Discarding

(* A child is put on its executor.                                         *)
LEMMA StoreChildStep == IInv /\ Accumulating /\ StoreChild => IInv'
<1> SUFFICES ASSUME IInv, Accumulating, StoreChild PROVE IInv'
  OBVIOUS
<1>1. /\ opc = "store" /\ opc' = "run" /\ adding' = NoChild
      /\ cpc' = [cpc EXCEPT ![adding] = "running"]
      /\ status' = status /\ delivered' = delivered /\ readyQueue' = readyQueue
      /\ kind' = kind /\ mutex' = mutex /\ offered' = offered /\ consumed' = consumed
  BY DEF StoreChild, queues, history
<1>2. \A c \in Children : \/ cpc'[c] = cpc[c]
                          \/ cpc[c] = "unborn" /\ cpc'[c] = "running"
  BY <1>1 DEF IInv, TypeInv
<1>3. TypeInv' /\ ReadyInv'
  BY <1>1 DEF IInv, TypeInv, ReadyInv
<1>4. MutexInv'
  BY <1>1, <1>2 DEF IInv, MutexInv
<1>5. WaiterInv'
  BY <1>1, <1>2 DEF IInv, WaiterInv
<1>6. ResultsInCompletionOrder'
  BY <1>1 DEF IInv, ResultsInCompletionOrder, Delivered, Settling, Accumulating
<1> QED
  BY <1>1, <1>3, <1>4, <1>5, <1>6, ChildrenAssumption DEF IInv

-----------------------------------------------------------------------------
(* What a child does when it completes.                                    *)
LEMMA OfferReadyStep == \A c \in Children : IInv /\ Accumulating /\ OfferReady(c) => IInv'
<1> SUFFICES ASSUME NEW c \in Children, IInv, Accumulating, OfferReady(c) PROVE IInv'
  OBVIOUS
<1>1. /\ mutex = NoThread /\ mutex' = c /\ cpc[c] = "running"
      /\ offered' = Append(offered, c)
      /\ status' = [status EXCEPT !.ready = @ + 1]
      /\ cpc' = [cpc EXCEPT ![c] = IF status.waiting THEN "complete" ELSE "store"]
      /\ kind' = kind /\ readyQueue' = readyQueue /\ opc' = opc
      /\ adding' = adding /\ delivered' = delivered /\ consumed' = consumed
  BY DEF OfferReady, Ends, queues, addVars
<1>2. /\ status' \in Statuses
      /\ status'.waiting = status.waiting /\ status'.ready = status.ready + 1
  BY <1>1 DEF IInv, TypeInv, Statuses
<1>3. /\ cpc'[c] = IF status.waiting THEN "complete" ELSE "store"
      /\ \A d \in Children \ {c} : cpc'[d] = cpc[d]
  BY <1>1 DEF IInv, TypeInv
<1>4. Settling = <<>> /\ Settling' = <<c>>
  BY <1>1, Unlocked, ChildrenAssumption DEF Settling
<1>5. /\ consumed \in Seq(Children) /\ Delivered \in Seq(Children)
      /\ readyQueue \in Seq(Children)
  <2>1. delivered \in Children => <<delivered>> \in Seq(Children)
    OBVIOUS
  <2>2. <<>> \in Seq(Children)
    BY EmptySeq
  <2> QED
    BY <2>1, <2>2 DEF IInv, TypeInv, ReadyInv, WaiterInv, Delivered
<1>6. TypeInv'
  <2>1. offered' \in Seq(Children)
    BY <1>1, AppendProperties DEF IInv, TypeInv
  <2> QED
    BY <1>1, <1>2, <2>1 DEF IInv, TypeInv
<1>7. MutexInv'
  BY <1>1, <1>3, Unlocked DEF MutexInv
<1>8. ReadyInv'
  <2>1. mutex' # NoThread
    BY <1>1, ChildrenAssumption
  <2>2. Len(readyQueue) \in Nat
    BY <1>5, LenProperties
  <2> QED
    BY <1>1, <1>2, <1>5, <2>1, <2>2, Unlocked DEF ReadyInv
<1>9. WaiterInv'
  BY <1>1, <1>2, <1>3 DEF IInv, WaiterInv
<1>10. ResultsInCompletionOrder'
  <2>1. Delivered' = Delivered
    BY <1>1 DEF Delivered
  <2>2. offered = consumed \o Delivered \o readyQueue \o <<>>
    BY <1>4 DEF IInv, ResultsInCompletionOrder
  <2>3. offered' = consumed \o Delivered \o readyQueue \o <<c>>
    <3>1. Append(consumed \o Delivered \o readyQueue \o <<>>, c)
            = consumed \o Delivered \o readyQueue \o <<c>>
      BY <1>5, NewResult
    <3> QED
      BY <1>1, <2>2, <3>1
  <2> QED
    BY <1>1, <1>4, <2>1, <2>3 DEF ResultsInCompletionOrder
<1>11. adding' \in Children => cpc'[adding'] = "unborn"
  BY <1>1, <1>3 DEF IInv
<1> QED
  BY <1>6, <1>7, <1>8, <1>9, <1>10, <1>11 DEF IInv

LEMMA StoreResultStep == \A c \in Children : IInv /\ Accumulating /\ StoreResult(c) => IInv'
<1> SUFFICES ASSUME NEW c \in Children, IInv, Accumulating, StoreResult(c) PROVE IInv'
  OBVIOUS
<1>1. /\ mutex = c /\ mutex' = NoThread /\ cpc[c] = "store"
      /\ readyQueue' = Append(readyQueue, c)
      /\ cpc' = [cpc EXCEPT ![c] = "done"]
      /\ kind' = kind /\ status' = status /\ opc' = opc /\ delivered' = delivered
      /\ adding' = adding /\ offered' = offered /\ consumed' = consumed
  BY DEF StoreResult, Settles, Leave, addVars, history
<1>2. cpc'[c] = "done" /\ \A d \in Children \ {c} : cpc'[d] = cpc[d]
  BY <1>1 DEF IInv, TypeInv
<1>3. Settling = <<c>> /\ Settling' = <<>> /\ ~ status.waiting
  BY <1>1, Locked DEF Settling, IInv, WaiterInv
<1>4. /\ consumed \in Seq(Children) /\ Delivered \in Seq(Children)
      /\ readyQueue \in Seq(Children) /\ Len(readyQueue) \in Nat
  <2>1. delivered \in Children => <<delivered>> \in Seq(Children)
    OBVIOUS
  <2>2. <<>> \in Seq(Children)
    BY EmptySeq
  <2> QED
    BY <2>1, <2>2, LenProperties DEF IInv, TypeInv, ReadyInv, WaiterInv, Delivered
<1>5. readyQueue' \in Seq(Children) /\ Len(readyQueue') = Len(readyQueue) + 1
  BY <1>1, <1>4, AppendProperties
<1>6. TypeInv'
  BY <1>1 DEF IInv, TypeInv
<1>7. MutexInv'
  BY <1>1, <1>2, Locked, ChildrenAssumption DEF MutexInv
<1>8. ReadyInv'
  BY <1>1, <1>4, <1>5, Locked DEF ReadyInv
<1>9. WaiterInv'
  BY <1>1, <1>2, <1>3 DEF IInv, WaiterInv
<1>10. ResultsInCompletionOrder'
  <2>1. Delivered' = Delivered
    BY <1>1 DEF Delivered
  <2>2. offered = consumed \o Delivered \o readyQueue \o <<c>>
    BY <1>3 DEF IInv, ResultsInCompletionOrder
  <2>3. offered = consumed \o Delivered \o Append(readyQueue, c) \o <<>>
    <3>1. consumed \o Delivered \o readyQueue \o <<c>>
            = consumed \o Delivered \o Append(readyQueue, c) \o <<>>
      <4>1. /\ consumed \o Delivered \o Append(readyQueue, c) \in Seq(Children)
            /\ consumed \o Delivered \o readyQueue \o <<c>>
                 = consumed \o Delivered \o Append(readyQueue, c)
        BY <1>4, QueueResult
      <4>2. consumed \o Delivered \o Append(readyQueue, c) \o <<>>
              = consumed \o Delivered \o Append(readyQueue, c)
        BY <4>1, ConcatEmptySeq
      <4> QED
        BY <4>1, <4>2
    <3> QED
      BY <2>2, <3>1
  <2> QED
    BY <1>1, <1>3, <2>1, <2>3 DEF ResultsInCompletionOrder
<1>11. adding' \in Children => cpc'[adding'] = "unborn"
  BY <1>1, <1>2 DEF IInv
<1> QED
  BY <1>6, <1>7, <1>8, <1>9, <1>10, <1>11 DEF IInv

LEMMA CompleteWaiterStep ==
  \A c \in Children : IInv /\ Accumulating /\ CompleteWaiter(c) => IInv'
<1> SUFFICES ASSUME NEW c \in Children, IInv, Accumulating, CompleteWaiter(c) PROVE IInv'
  OBVIOUS
<1>1. /\ mutex = c /\ mutex' = NoThread /\ cpc[c] = "complete"
      /\ status' = Completing(status) /\ delivered' = c
      /\ cpc' = [cpc EXCEPT ![c] = "wake"]
      /\ kind' = kind /\ readyQueue' = readyQueue /\ opc' = opc
      /\ adding' = adding /\ offered' = offered /\ consumed' = consumed
  BY DEF CompleteWaiter, Settles, Leave, addVars, history
<1>2. cpc'[c] = "wake" /\ \A d \in Children \ {c} : cpc'[d] = cpc[d]
  BY <1>1 DEF IInv, TypeInv
<1>3. /\ status' \in Statuses
      /\ status'.waiting = FALSE /\ status'.ready = status.ready - 1
  BY <1>1, CompletingCounts DEF IInv, TypeInv
<1>4. opc = "parked" /\ delivered = NoChild /\ readyQueue = <<>>
  BY <1>1 DEF IInv, WaiterInv
<1>5. /\ Settling = <<c>> /\ Settling' = <<>>
      /\ Delivered = <<>> /\ Delivered' = <<c>>
  BY <1>1, <1>4, Locked, ChildrenAssumption DEF Settling, Delivered
<1>6. TypeInv'
  BY <1>1, <1>3 DEF IInv, TypeInv
<1>7. MutexInv'
  BY <1>1, <1>2, Locked, ChildrenAssumption DEF MutexInv
<1>8. ReadyInv'
  <2>1. readyQueue \in Seq(Children) /\ Len(readyQueue) \in Nat
    BY LenProperties DEF IInv, ReadyInv
  <2> QED
    BY <1>1, <1>3, <2>1, Locked DEF ReadyInv
<1>9. WaiterInv'
  <2>1. \A d \in Children \ {c} : cpc'[d] \notin {"store", "complete", "wake"}
    BY <1>1, <1>2, <1>4, Locked DEF IInv, WaiterInv
  <2> QED
    BY <1>1, <1>2, <1>3, <1>4, <2>1, ChildrenAssumption DEF WaiterInv
<1>10. ResultsInCompletionOrder'
  BY <1>1, <1>4, <1>5, HandOver DEF IInv, TypeInv, ResultsInCompletionOrder, Accumulating
<1>11. adding' \in Children => cpc'[adding'] = "unborn"
  BY <1>1, <1>2 DEF IInv
<1> QED
  BY <1>6, <1>7, <1>8, <1>9, <1>10, <1>11 DEF IInv

LEMMA WakeStep == \A c \in Children : IInv /\ Accumulating /\ Wake(c) => IInv'
<1> SUFFICES ASSUME NEW c \in Children, IInv, Accumulating, Wake(c) PROVE IInv'
  OBVIOUS
<1>1. /\ cpc[c] = "wake" /\ opc' = "resumed" /\ cpc' = [cpc EXCEPT ![c] = "done"]
      /\ kind' = kind /\ status' = status /\ mutex' = mutex
      /\ readyQueue' = readyQueue /\ delivered' = delivered
      /\ adding' = adding /\ offered' = offered /\ consumed' = consumed
  BY DEF Wake, queues, addVars, history
<1>2. cpc'[c] = "done" /\ \A d \in Children \ {c} : cpc'[d] = cpc[d]
  BY <1>1 DEF IInv, TypeInv
<1>3. delivered # NoChild /\ ~ status.waiting
  BY <1>1 DEF IInv, WaiterInv
<1>4. TypeInv' /\ ReadyInv'
  BY <1>1 DEF IInv, TypeInv, ReadyInv
<1>5. MutexInv'
  BY <1>1, <1>2 DEF IInv, MutexInv
<1>6. WaiterInv'
  BY <1>1, <1>2, <1>3 DEF IInv, WaiterInv
<1>7. ResultsInCompletionOrder'
  BY <1>1 DEF IInv, ResultsInCompletionOrder, Delivered, Settling, Accumulating
<1>8. adding' \in Children => cpc'[adding'] = "unborn"
  BY <1>1, <1>2 DEF IInv
<1> QED
  BY <1>4, <1>5, <1>6, <1>7, <1>8 DEF IInv

-----------------------------------------------------------------------------
(* All other steps of an accumulating group leave the queues alone.        *)
LEMMA QuietSteps ==
  ASSUME IInv, Accumulating,
         \/ \E c \in Children : AddTask(c) \/ AddTaskUnlessCancelled(c)
         \/ CancelAll \/ BodyReturns \/ BodyThrows
         \/ RevertPending \/ CreateChild \/ LinkChild \/ UpdateChild
         \/ PollEmpty \/ Destroy \/ \E t \in Threads : Walk(t)
         \/ CancelOwner \/ LockRecords \/ UnlockRecords
  PROVE  Quiet
<1> USE DEF AtRun, InBody, queues, lists, bodyVars, addVars, history
<1>a. status \in Statuses
  BY DEF IInv, TypeInv
<1>1. CASE \E c \in Children : AddTask(c) \/ AddTaskUnlessCancelled(c)
  <2>1. AddPending /\ opc = "run" /\ opc' \in {"create", "revert"}
        /\ adding' \in Children /\ cpc[adding'] = "unborn"
    BY <1>1 DEF AddTask, AddTaskUnlessCancelled
  <2>2. status' \in [cancelled : BOOLEAN, waiting : {status.waiting},
                     ready : {status.ready}, pending : Int]
    BY <1>a, <2>1 DEF AddPending, Statuses
  <2> QED
    BY <1>1, <2>1, <2>2 DEF AddTask, AddTaskUnlessCancelled, Quiet
<1>2. CASE CancelAll \/ BodyThrows
  <2>1. status' = [status EXCEPT !.cancelled = TRUE]
    BY <1>2 DEF CancelAll, BodyThrows, StartCancelAll
  <2>2. status' \in [cancelled : BOOLEAN, waiting : {status.waiting},
                     ready : {status.ready}, pending : Int]
    BY <1>a, <2>1 DEF Statuses
  <2> QED
    BY <1>2, <2>2 DEF CancelAll, BodyThrows, Quiet
<1>3. CASE RevertPending
  <2>1. status' \in [cancelled : BOOLEAN, waiting : {status.waiting},
                     ready : {status.ready}, pending : Int]
    BY <1>a, <1>3 DEF RevertPending, Statuses
  <2> QED
    BY <1>3, <2>1, ChildrenAssumption DEF RevertPending, Quiet
<1>4. CASE CreateChild \/ LinkChild \/ UpdateChild
  BY <1>4 DEF CreateChild, LinkChild, UpdateChild, Quiet
<1>5. CASE PollEmpty \/ Destroy \/ BodyReturns
  BY <1>5 DEF PollEmpty, Destroy, BodyReturns, Quiet
<1>6. CASE \E t \in Threads : Walk(t)
  BY <1>6 DEF Walk, Quiet
<1>7. CASE CancelOwner \/ LockRecords \/ UnlockRecords
  BY <1>7 DEF CancelOwner, LockRecords, UnlockRecords, Quiet
<1> QED
  BY <1>1, <1>2, <1>3, <1>4, <1>5, <1>6, <1>7

(* The invariant is inductive.                                             *)
LEMMA StepIInv == IInv /\ [Next]_vars => IInv'
<1> SUFFICES ASSUME IInv, [Next]_vars PROVE IInv'
  OBVIOUS
<1>1. CASE UNCHANGED vars
  <2>1. Quiet
    BY <1>1 DEF vars, Quiet, queues, bodyVars, addVars, history
  <2> QED
    BY <2>1, QuietKeepsIInv
<1>2. CASE Next /\ ~ Accumulating
  <2>1. kind' = kind
    BY <1>2 DEF Next, OwnerStep, OwnerProgress, ChildStep, CancellerStep, AddTask,
                AddTaskUnlessCancelled, CancelAll, BodyReturns, BodyThrows, PollReady,
                PollWait, RevertPending, CreateChild, LinkChild, UpdateChild, StoreChild,
                PollEmpty, DetachPolled, WaitAllEmpty, WaitAllPark, Resume, Destroy, Walk,
                OfferReady, OfferDiscarding, StoreResult, StoreFirstError, CompleteWaiter,
                CompleteGroup, Leave, Wake, CancelOwner, LockRecords, UnlockRecords
  <2> QED
    BY <1>2, <2>1 DEF IInv, Accumulating
<1>3. CASE Next /\ Accumulating
  <2>1. CASE PollReady \/ PollWait
    BY <1>3, <2>1, PollReadyStep, PollWaitStep
  <2>2. CASE DetachPolled \/ Resume \/ StoreChild
    BY <1>3, <2>2, DetachPolledStep, ResumeStep, StoreChildStep
  <2>3. CASE \E c \in Children :
               OfferReady(c) \/ StoreResult(c) \/ CompleteWaiter(c) \/ Wake(c)
    BY <1>3, <2>3, OfferReadyStep, StoreResultStep, CompleteWaiterStep, WakeStep
  <2>4. CASE \/ WaitAllEmpty \/ WaitAllPark
             \/ \E c \in Children :
                  OfferDiscarding(c) \/ StoreFirstError(c) \/ CompleteGroup(c)
    BY <1>3, <2>4 DEF Accumulating, Discarding, WaitAllEmpty, WaitAllPark,
                      OfferDiscarding, StoreFirstError, CompleteGroup
  <2>5. CASE \/ \E c \in Children : AddTask(c) \/ AddTaskUnlessCancelled(c)
             \/ CancelAll \/ BodyReturns \/ BodyThrows
             \/ RevertPending \/ CreateChild \/ LinkChild \/ UpdateChild
             \/ PollEmpty \/ Destroy \/ \E t \in Threads : Walk(t)
             \/ CancelOwner \/ LockRecords \/ UnlockRecords
    BY <1>3, <2>5, QuietSteps, QuietKeepsIInv
  <2> QED
    BY <1>3, <2>1, <2>2, <2>3, <2>4, <2>5
       DEF Next, OwnerStep, OwnerProgress, ChildStep, CancellerStep, Threads
<1> QED
  BY <1>1, <1>2, <1>3

(* next() hands out the children of an accumulating group exactly once     *)
(* each, in the order in which they completed, however many children there *)
(* are and however often the owner polls before, while or after they end.  *)
THEOREM ResultsInOrder == Spec => []ResultsInCompletionOrder
<1>1. IInv => ResultsInCompletionOrder
  BY DEF IInv, ResultsInCompletionOrder
<1> QED
  BY <1>1, InitIInv, StepIInv, PTL DEF Spec
-----------------------------------------------------------------------------
(* The other properties, for both kinds of group.                          *)
Places == {"run", "revert", "create", "link", "update", "store", "detach", "parked",
           "resumed", "destroy", "done"}
Adding == {"revert", "create", "link", "update", "store"}
Answers == Children \cup {BodyError, Void}

GroupTypes ==
  /\ kind \in {"accumulating", "discarding"}
  /\ status \in Statuses
  /\ mutex \in Children \cup {NoThread}
  /\ cpc \in [Children -> {"unborn", "running", "store", "complete", "wake", "done"}]
  /\ opc \in Places
  /\ readyQueue \in Seq(Children \cup {BodyError}) /\ waitQueue \in BOOLEAN
  /\ adding \in Children \cup {NoChild}
  /\ delivered \in Answers \cup {NoChild}

(* What everybody does.  A child that holds the mutex settles its result.  *)
ControlInv ==
  /\ \A c \in Children : mutex = c <=> cpc[c] \in {"store", "complete"}
  /\ adding # NoChild <=> opc \in Adding
  /\ adding # NoChild => cpc[adding] = "unborn"
  /\ opc \in {"detach", "resumed"} => delivered # NoChild
  /\ delivered # NoChild => opc \in {"detach", "parked", "resumed"}
  /\ Accumulating => delivered \in Children \cup {NoChild} /\ readyQueue \in Seq(Children)
  /\ delivered \in Children => cpc[delivered] \in {"done", "wake"}
  /\ \A i \in 1 .. Len(readyQueue) : readyQueue[i] \in Children => cpc[readyQueue[i]] = "done"
  /\ waitQueue => status.waiting /\ opc = "parked" /\ delivered = NoChild
  /\ status.waiting => \/ waitQueue
                       \/ Discarding /\ (delivered # NoChild \/ opc \in {"destroy", "done"})
  /\ status.waiting => opc \in {"parked", "resumed", "destroy", "done"}
  /\ \A c \in Children :
       /\ cpc[c] = "complete" => waitQueue
       /\ cpc[c] = "wake" => opc = "parked" /\ delivered # NoChild
  /\ \A c, d \in Children : cpc[c] = "wake" /\ cpc[d] = "wake" => c = d

(* The pending count: the children that run or are about to, and those     *)
(* whose results next() is still to take.                                  *)
Counted ==
  {c \in Children : \/ c = adding \/ cpc[c] = "running"
                    \/ Accumulating /\ cpc[c] \in {"store", "complete"}}

CountInv ==
  /\ status.pending = Cardinality(Counted) + (IF Accumulating THEN Len(readyQueue) ELSE 0)
  /\ waitQueue => status.pending > 0 \/ \E c \in Children : cpc[c] = "complete"
  /\ Discarding /\ (\E c \in Children : cpc[c] = "complete") => status.pending = 0
  /\ Discarding /\ delivered # NoChild => status.pending = 0 /\ mutex = NoThread
  /\ Discarding => Len(readyQueue) <= 1 /\ opc # "detach"
  /\ Discarding /\ delivered # NoChild => readyQueue = <<>>
  /\ opc \in {"destroy", "done"} => status.pending = 0 /\ mutex = NoThread /\ readyQueue = <<>>

CoreInv == GroupTypes /\ ControlInv /\ CountInv

LEMMA InitCore == Init => CoreInv
<1> SUFFICES ASSUME Init PROVE CoreInv
  OBVIOUS
<1>1. GroupTypes
  <2>1. status \in Statuses
    BY DEF Init, Statuses
  <2>2. readyQueue \in Seq(Children \cup {BodyError})
    BY EmptySeq DEF Init
  <2> QED  BY <2>1, <2>2 DEF Init, GroupTypes, Places
<1>2. ControlInv
  BY ChildrenAssumption DEF Init, ControlInv, Adding
<1>3. Counted = {}
  BY ChildrenAssumption DEF Init, Counted
<1>4. Cardinality({}) = 0
  BY FS_EmptySet
<1>5. CountInv
  BY <1>3, <1>4 DEF Init, CountInv, Accumulating, Discarding
<1> QED  BY <1>1, <1>2, <1>5 DEF CoreInv

LEMMA CountedFinite == Cardinality(Counted) \in Nat /\ IsFiniteSet(Counted)
BY FiniteAssumption, FS_Subset, FS_CardinalityType DEF Counted

LEMMA NoneCounted ==
  ASSUME CoreInv, status.pending = 0
  PROVE  Counted = {} /\ (Accumulating => Len(readyQueue) = 0)
<1>1. Len(readyQueue) \in Nat
  BY LenProperties DEF CoreInv, GroupTypes
<1>2. Cardinality(Counted) = 0 /\ (Accumulating => Len(readyQueue) = 0)
  BY <1>1, CountedFinite DEF CoreInv, CountInv
<1> QED  BY <1>2, CountedFinite, FS_EmptySet

(* Steps that touch none of it.                                            *)
CoreQuiet ==
  /\ UNCHANGED <<kind, mutex, cpc, readyQueue, waitQueue, adding, delivered>>
  /\ status' = status \/ status' = [status EXCEPT !.cancelled = TRUE]
  /\ opc' = opc \/ {opc, opc'} \subseteq {"create", "link", "update", "store"}

LEMMA QuietKeepsCore == CoreInv /\ CoreQuiet => CoreInv'
<1> SUFFICES ASSUME CoreInv, CoreQuiet PROVE CoreInv'
  OBVIOUS
<1>1. /\ status' \in Statuses
      /\ status'.waiting = status.waiting /\ status'.pending = status.pending
  BY DEF CoreInv, GroupTypes, CoreQuiet, Statuses
<1>2. GroupTypes'
  BY <1>1 DEF CoreInv, GroupTypes, CoreQuiet, Places
<1>3. ControlInv'
  BY <1>1 DEF CoreInv, ControlInv, CoreQuiet, Adding, Accumulating, Discarding
<1>4. CountInv'
  BY <1>1 DEF CoreInv, CountInv, Counted, CoreQuiet, Accumulating, Discarding
<1> QED  BY <1>2, <1>3, <1>4 DEF CoreInv

LEMMA QuietCoreSteps ==
  ASSUME \/ CreateChild \/ LinkChild \/ UpdateChild \/ CancelAll \/ BodyReturns \/ BodyThrows
         \/ CancelOwner \/ LockRecords \/ UnlockRecords \/ UNCHANGED vars
         \/ \E t \in Threads : Walk(t)
  PROVE  CoreQuiet
BY DEF CoreQuiet, CreateChild, LinkChild, UpdateChild, CancelAll, BodyReturns, BodyThrows,
   StartCancelAll, CancelOwner, LockRecords, UnlockRecords, Walk, vars, queues, addVars,
   lists

(* The owner counts a child it is going to add, and reverts that.          *)
LEMMA AddKeepsCore ==
  ASSUME CoreInv, NEW c \in Children, AddTask(c) \/ AddTaskUnlessCancelled(c)
  PROVE  CoreInv'
<1>1. /\ opc = "run" /\ cpc[c] = "unborn" /\ opc' \in {"create", "revert"} /\ adding' = c
      /\ status' = [status EXCEPT !.pending = @ + 1]
      /\ UNCHANGED <<kind, mutex, cpc, readyQueue, waitQueue, delivered>>
  BY DEF AddTask, AddTaskUnlessCancelled, InBody, AtRun, AddPending, queues
<1>2. /\ status' \in Statuses
      /\ status'.waiting = status.waiting /\ status'.pending = status.pending + 1
  BY <1>1 DEF CoreInv, GroupTypes, Statuses
<1>3. adding = NoChild
  BY <1>1 DEF CoreInv, ControlInv, Adding
<1>4. GroupTypes'
  BY <1>1, <1>2 DEF CoreInv, GroupTypes, Places
<1>5. ControlInv'
  BY <1>1, <1>2, ChildrenAssumption
  DEF CoreInv, ControlInv, Adding, Accumulating, Discarding
<1>6. Counted' = Counted \cup {c} /\ c \notin Counted
  BY <1>1, <1>3, ChildrenAssumption DEF Counted, Accumulating
<1>7. Cardinality(Counted)' = Cardinality(Counted) + 1
  <2>1. IsFiniteSet(Counted)
    BY CountedFinite
  <2>2. Cardinality(Counted \cup {c}) = Cardinality(Counted) + 1
    BY <1>6, <2>1, FS_AddElement
  <2> QED  BY <1>6, <2>2
<1>8. CountInv'
  <2>1. Len(readyQueue) \in Nat /\ status.pending \in Int
    BY LenProperties DEF CoreInv, GroupTypes, Statuses
  <2>2. /\ status'.pending = Cardinality(Counted)'
                            + (IF Accumulating' THEN Len(readyQueue') ELSE 0)
        /\ Discarding => Len(readyQueue') <= 1
    BY <1>1, <1>2, <1>7, <2>1, CountedFinite
    DEF CoreInv, CountInv, Accumulating, Discarding
  <2>3. opc = "run" /\ delivered' = NoChild /\ ~ waitQueue'
    BY <1>1 DEF CoreInv, ControlInv
  <2>4. \A d \in Children : cpc'[d] # "complete"
    BY <1>1, <2>3 DEF CoreInv, ControlInv
  <2> QED
    BY <1>1, <2>2, <2>3, <2>4 DEF CountInv, Accumulating, Discarding
<1> QED  BY <1>4, <1>5, <1>8 DEF CoreInv

LEMMA RevertKeepsCore ==
  ASSUME CoreInv, RevertPending
  PROVE  CoreInv'
<1>1. /\ opc = "revert" /\ opc' = "run" /\ adding' = NoChild
      /\ status' = [status EXCEPT !.pending = @ - 1]
      /\ UNCHANGED <<kind, mutex, cpc, readyQueue, waitQueue, delivered>>
  BY DEF RevertPending, queues
<1>2. /\ status' \in Statuses
      /\ status'.waiting = status.waiting /\ status'.pending = status.pending - 1
  <2>1. status \in Statuses
    BY DEF CoreInv, GroupTypes
  <2> QED  BY <1>1, <2>1 DEF Statuses
<1>3. adding \in Children /\ cpc[adding] = "unborn"
  BY <1>1 DEF CoreInv, GroupTypes, ControlInv, Adding
<1>4. GroupTypes'
  BY <1>1, <1>2 DEF CoreInv, GroupTypes, Places
<1>5. ControlInv'
  BY <1>1, <1>2 DEF CoreInv, ControlInv, Adding, Accumulating, Discarding
<1>6. Counted' = Counted \ {adding} /\ adding \in Counted
  BY <1>1, <1>3, ChildrenAssumption DEF Counted, Accumulating
<1>7. Cardinality(Counted)' = Cardinality(Counted) - 1
  BY <1>6, CountedFinite, FS_RemoveElement
<1>8. CountInv'
  BY <1>1, <1>2, <1>7, CountedFinite
  DEF CoreInv, GroupTypes, ControlInv, CountInv, Accumulating, Discarding
<1> QED  BY <1>4, <1>5, <1>8 DEF CoreInv

LEMMA StoreChildKeepsCore ==
  ASSUME CoreInv, StoreChild
  PROVE  CoreInv'
<1>1. /\ opc = "store" /\ opc' = "run" /\ adding' = NoChild
      /\ cpc' = [cpc EXCEPT ![adding] = "running"]
      /\ UNCHANGED <<kind, status, mutex, readyQueue, waitQueue, delivered>>
  BY DEF StoreChild, queues
<1>2. adding \in Children /\ cpc[adding] = "unborn"
  BY <1>1 DEF CoreInv, GroupTypes, ControlInv, Adding
<1>3. cpc'[adding] = "running" /\ \A d \in Children \ {adding} : cpc'[d] = cpc[d]
  BY <1>1, <1>2 DEF CoreInv, GroupTypes
<1>4. GroupTypes'
  BY <1>1, <1>2 DEF CoreInv, GroupTypes, Places
<1>5. ControlInv'
  BY <1>1, <1>2, <1>3 DEF CoreInv, GroupTypes, ControlInv, Adding, Accumulating, Discarding
<1>6. Counted' = Counted
  BY <1>1, <1>2, <1>3, ChildrenAssumption DEF Counted, Accumulating
<1>7. CountInv'
  BY <1>1, <1>2, <1>3, <1>6 DEF CoreInv, CountInv, Accumulating, Discarding
<1> QED  BY <1>4, <1>5, <1>7 DEF CoreInv

(* The owner polls, or waits for all.                                      *)
LEMMA EndKeepsCore ==
  ASSUME CoreInv, PollEmpty \/ WaitAllEmpty
  PROVE  CoreInv'
<1>1. /\ opc = "run" /\ opc' = "destroy" /\ mutex = NoThread /\ status.pending = 0
      /\ UNCHANGED <<kind, status, mutex, cpc, waitQueue, delivered, adding>>
      /\ readyQueue' = readyQueue \/ readyQueue' = <<>>
      /\ Discarding => readyQueue' = <<>>
  BY DEF PollEmpty, WaitAllEmpty, AtRun, IsEmpty, queues, addVars, Accumulating, Discarding
<1>2. readyQueue' = <<>>
  BY <1>1, NoneCounted, EmptySeq DEF CoreInv, GroupTypes, Accumulating, Discarding
<1>3. readyQueue' \in Seq(Children \cup {BodyError}) /\ readyQueue' \in Seq(Children)
      /\ Len(readyQueue') = 0
  BY <1>2, EmptySeq
<1>4. GroupTypes'
  BY <1>1, <1>3 DEF CoreInv, GroupTypes, Places
<1>5. ControlInv'
  BY <1>1, <1>3 DEF CoreInv, GroupTypes, ControlInv, Adding, Accumulating, Discarding
<1>6. Counted' = Counted /\ Counted = {}
  BY <1>1, NoneCounted DEF Counted, Accumulating
<1>7. CountInv'
  BY <1>1, <1>2, <1>3, <1>6, FS_EmptySet
  DEF CoreInv, ControlInv, CountInv, Accumulating, Discarding
<1> QED  BY <1>4, <1>5, <1>7 DEF CoreInv

(* Taking the first result of a list that is not empty.                    *)
LEMMA RestOfList ==
  ASSUME NEW S, NEW list \in Seq(S), Len(list) > 0
  PROVE  /\ Tail(list) \in Seq(S) /\ Len(Tail(list)) = Len(list) - 1 /\ Len(list) \in Nat
         /\ Head(list) = list[1] /\ list[1] \in S /\ 1 \in 1 .. Len(list)
         /\ \A i \in 1 .. Len(list) - 1 : /\ i + 1 \in 1 .. Len(list)
                                          /\ Tail(list)[i] = list[i + 1]
<1>1. list # <<>> /\ Len(list) \in Nat
  BY EmptySeq, LenProperties
<1>2. Tail(list) \in Seq(S) /\ Len(Tail(list)) = Len(list) - 1
      /\ \A i \in 1 .. Len(Tail(list)) : Tail(list)[i] = list[i + 1]
  BY <1>1, HeadTailProperties
<1> QED  BY <1>1, <1>2, ElementOfSeq

LEMMA PollReadyKeepsCore ==
  ASSUME IInv, CoreInv, PollReady
  PROVE  CoreInv'
<1>1. /\ Accumulating /\ ~ Discarding /\ mutex = NoThread /\ opc = "run" /\ status.ready > 0
      /\ status' = Completing(status) /\ opc' = "detach"
      /\ delivered' = Head(readyQueue) /\ readyQueue' = Tail(readyQueue)
      /\ UNCHANGED <<kind, mutex, cpc, waitQueue, adding>>
  BY DEF PollReady, AtRun, addVars, Accumulating, Discarding
<1>2. status' \in Statuses /\ status'.waiting = FALSE /\ status'.pending = status.pending - 1
  BY <1>1, CompletingCounts DEF CoreInv, GroupTypes, Completing, Statuses
<1>3. readyQueue \in Seq(Children) /\ Len(readyQueue) > 0
  BY <1>1, Unlocked DEF IInv, ReadyInv
<1>4. /\ readyQueue' \in Seq(Children) /\ Len(readyQueue') = Len(readyQueue) - 1
      /\ Len(readyQueue) \in Nat /\ delivered' = readyQueue[1] /\ readyQueue[1] \in Children
      /\ 1 \in 1 .. Len(readyQueue)
      /\ \A i \in 1 .. Len(readyQueue) - 1 : /\ i + 1 \in 1 .. Len(readyQueue)
                                             /\ readyQueue'[i] = readyQueue[i + 1]
  BY <1>1, <1>3, RestOfList
<1>5. cpc[readyQueue[1]] = "done"
  BY <1>3, <1>4 DEF CoreInv, ControlInv
<1>6. GroupTypes'
  <2>1. readyQueue' \in Seq(Children \cup {BodyError})
    BY <1>4, SeqMonotonic
  <2> QED  BY <1>1, <1>2, <1>4, <2>1 DEF CoreInv, GroupTypes, Places, Answers
<1>7. ControlInv'
  <2>1. \A i \in 1 .. Len(readyQueue') :
          readyQueue'[i] \in Children => cpc'[readyQueue'[i]] = "done"
    BY <1>1, <1>4 DEF CoreInv, ControlInv
  <2>2. ~ waitQueue /\ delivered' # NoChild /\ delivered' \in Children
    BY <1>1, <1>4, ChildrenAssumption DEF CoreInv, ControlInv
  <2> QED
    BY <1>1, <1>2, <1>4, <1>5, <2>1, <2>2
    DEF CoreInv, ControlInv, Adding, Accumulating, Discarding
<1>8. Counted' = Counted
  BY <1>1 DEF Counted, Accumulating
<1>9. CountInv'
  BY <1>1, <1>2, <1>4, <1>8, CountedFinite
  DEF CoreInv, GroupTypes, ControlInv, CountInv, Accumulating, Discarding, Statuses
<1> QED  BY <1>6, <1>7, <1>9 DEF CoreInv

LEMMA ParkKeepsCore ==
  ASSUME CoreInv, PollWait \/ WaitAllPark
  PROVE  CoreInv'
<1>1. /\ mutex = NoThread /\ opc = "run" /\ status.pending # 0
      /\ status' = [status EXCEPT !.waiting = TRUE] /\ waitQueue' = TRUE /\ opc' = "parked"
      /\ \/ readyQueue' = readyQueue
         \/ Discarding /\ readyQueue = <<>> /\ readyQueue' = <<BodyError>>
      /\ UNCHANGED <<kind, mutex, cpc, adding, delivered>>
  BY DEF PollWait, WaitAllPark, AtRun, IsEmpty, addVars
<1>2. status' \in Statuses /\ status'.waiting = TRUE /\ status'.pending = status.pending
  BY <1>1 DEF CoreInv, GroupTypes, Statuses
<1>3. delivered = NoChild /\ adding = NoChild
  BY <1>1 DEF CoreInv, ControlInv, Adding
<1>4. /\ readyQueue' \in Seq(Children \cup {BodyError})
      /\ Accumulating => readyQueue' = readyQueue
      /\ Discarding => Len(readyQueue') <= 1
      /\ \A i \in 1 .. Len(readyQueue') :
           readyQueue'[i] \in Children => cpc[readyQueue'[i]] = "done"
  <2>1. CASE readyQueue' = readyQueue
    BY <2>1 DEF CoreInv, GroupTypes, ControlInv, CountInv
  <2>2. CASE Discarding /\ readyQueue = <<>> /\ readyQueue' = <<BodyError>>
    <3>1. Len(readyQueue') = 1 /\ readyQueue'[1] = BodyError
          /\ readyQueue' \in Seq(Children \cup {BodyError})
      BY <2>2
    <3> QED  BY <2>2, <3>1, ChildrenAssumption DEF Accumulating, Discarding
  <2> QED  BY <1>1, <2>1, <2>2
<1>5. GroupTypes'
  BY <1>1, <1>2, <1>4 DEF CoreInv, GroupTypes, Places
<1>6. ControlInv'
  BY <1>1, <1>2, <1>3, <1>4 DEF CoreInv, ControlInv, Adding, Accumulating, Discarding
<1>7. Counted' = Counted
  BY <1>1 DEF Counted, Accumulating
<1>8. status.pending > 0
  <2>1. Len(readyQueue) \in Nat
    BY LenProperties DEF CoreInv, GroupTypes
  <2> QED  BY <1>1, <2>1, CountedFinite DEF CoreInv, CountInv
<1>9. CountInv'
  BY <1>1, <1>2, <1>3, <1>4, <1>7, <1>8 DEF CoreInv, CountInv, ControlInv, Accumulating,
     Discarding
<1> QED  BY <1>5, <1>6, <1>9 DEF CoreInv

LEMMA ReturnKeepsCore ==
  ASSUME CoreInv, DetachPolled \/ Resume \/ Destroy
  PROVE  CoreInv'
<1>1. /\ UNCHANGED <<kind, status, mutex, cpc, readyQueue, waitQueue, adding>>
      /\ \/ opc \in {"detach", "resumed"} /\ delivered' = NoChild
         \/ opc = "destroy" /\ delivered' = delivered
      /\ opc' \in {"run", "destroy", "done"}
      /\ opc' = "run" => opc # "destroy" /\ (opc = "resumed" => Accumulating)
      /\ opc' = "destroy" => opc = "resumed" /\ Discarding
      /\ opc' = "done" <=> opc = "destroy"
  BY DEF DetachPolled, Resume, Destroy, queues, addVars
<1>2. /\ ~ waitQueue /\ adding = NoChild /\ delivered' = NoChild
      /\ \A c \in Children : cpc[c] # "wake"
      /\ opc = "detach" => Accumulating
  BY <1>1 DEF CoreInv, ControlInv, CountInv, Adding, GroupTypes, Accumulating, Discarding
<1>3. GroupTypes'
  BY <1>1, <1>2 DEF CoreInv, GroupTypes, Places
<1>4. ControlInv'
  BY <1>1, <1>2, ChildrenAssumption DEF CoreInv, ControlInv, Adding, Accumulating, Discarding
<1>5. Counted' = Counted
  BY <1>1 DEF Counted, Accumulating
<1>6. CountInv'
  BY <1>1, <1>2, <1>5 DEF CoreInv, CountInv, ControlInv, Accumulating, Discarding
<1> QED  BY <1>3, <1>4, <1>6 DEF CoreInv

(* A child ends, settles its result, and wakes the owner.                  *)
LEMMA OfferKeepsCore ==
  ASSUME CoreInv, NEW c \in Children, OfferReady(c) \/ OfferDiscarding(c)
  PROVE  CoreInv'
<1>1. /\ mutex = NoThread /\ mutex' = c /\ cpc[c] = "running"
      /\ UNCHANGED <<kind, readyQueue, waitQueue, opc, adding, delivered>>
  BY DEF OfferReady, OfferDiscarding, Ends, queues, addVars
<1>2. /\ \A d \in Children : cpc[d] \notin {"store", "complete"}
      /\ c \in Counted /\ status.pending > 0
  <2>1. \A d \in Children : cpc[d] \notin {"store", "complete"}
    BY <1>1, ChildrenAssumption DEF CoreInv, ControlInv
  <2>2. c \in Counted
    BY <1>1 DEF Counted
  <2>3. Cardinality(Counted) > 0
    BY <2>2, CountedFinite, FS_EmptySet
  <2>4. Len(readyQueue) \in Nat
    BY LenProperties DEF CoreInv, GroupTypes
  <2> QED  BY <2>1, <2>2, <2>3, <2>4, CountedFinite DEF CoreInv, CountInv
<1>3. PICK where \in {"store", "complete"} : cpc' = [cpc EXCEPT ![c] = where]
  BY DEF OfferReady, OfferDiscarding
<1>4. cpc'[c] = where /\ \A d \in Children \ {c} : cpc'[d] = cpc[d]
  BY <1>3 DEF CoreInv, GroupTypes
<1>5. status' \in Statuses /\ status'.waiting = status.waiting
      /\ status'.pending = IF Accumulating THEN status.pending ELSE status.pending - 1
  <2>1. CASE OfferReady(c)
    BY <2>1 DEF OfferReady, CoreInv, GroupTypes, Statuses
  <2>2. CASE OfferDiscarding(c)
    <3> DEFINE after == [status EXCEPT !.pending = @ - 1]
    <3>1. after \in Statuses /\ after.waiting = status.waiting
          /\ after.pending = status.pending - 1
      BY DEF CoreInv, GroupTypes, Statuses
    <3>2. PICK b : status' = [after EXCEPT !.cancelled = status.cancelled \/ b]
      BY <2>2 DEF OfferDiscarding
    <3>3. (status.cancelled \/ b) \in BOOLEAN
      OBVIOUS
    <3> HIDE DEF after
    <3>4. status' \in Statuses /\ status'.waiting = status.waiting
          /\ status'.pending = status.pending - 1
      BY <3>1, <3>2, <3>3 DEF Statuses
    <3> QED  BY <2>2, <3>4 DEF OfferDiscarding, Accumulating, Discarding
  <2> QED  BY <2>1, <2>2
<1>6. /\ where = "complete" => status.waiting /\ (Discarding => status.pending = 1)
      /\ Discarding /\ status.waiting /\ where = "store" => status.pending # 1
  BY <1>3, <1>4 DEF OfferReady, OfferDiscarding, CoreInv, GroupTypes, Accumulating, Discarding
<1>7. status.waiting => waitQueue
  BY <1>2 DEF CoreInv, ControlInv, CountInv
<1>8. GroupTypes'
  BY <1>1, <1>3, <1>5 DEF CoreInv, GroupTypes, Places
<1>9. ControlInv'
  BY <1>1, <1>2, <1>4, <1>5, <1>6, <1>7, ChildrenAssumption
  DEF CoreInv, GroupTypes, ControlInv, Adding, Accumulating, Discarding
<1>10. Cardinality(Counted)' = IF Accumulating THEN Cardinality(Counted)
                               ELSE Cardinality(Counted) - 1
  <2>1. CASE Accumulating
    <3>1. Counted' = Counted
      BY <1>1, <1>4, <2>1 DEF Counted, Accumulating
    <3> QED  BY <2>1, <3>1
  <2>2. CASE ~ Accumulating
    <3>1. c # adding
      BY <1>1, ChildrenAssumption DEF CoreInv, ControlInv, GroupTypes
    <3>2. Counted' = Counted \ {c}
      BY <1>1, <1>4, <2>2, <3>1 DEF Counted, Accumulating
    <3> QED  BY <1>2, <2>2, <3>2, CountedFinite, FS_RemoveElement
  <2> QED  BY <2>1, <2>2
<1>11. delivered = NoChild \/ Accumulating
  BY <1>2 DEF CoreInv, CountInv, GroupTypes, Accumulating, Discarding
<1>12. CountInv'
  <2>1. status'.pending = Cardinality(Counted)' + (IF Accumulating THEN Len(readyQueue) ELSE 0)
    <3>1. Len(readyQueue) \in Nat
      BY LenProperties DEF CoreInv, GroupTypes
    <3> QED  BY <1>5, <1>10, <3>1, CountedFinite DEF CoreInv, CountInv
  <2>2. waitQueue => status'.pending > 0 \/ cpc'[c] = "complete"
    <3>1. waitQueue => status.waiting
      BY DEF CoreInv, ControlInv
    <3> QED
      BY <1>2, <1>4, <1>5, <1>6, <3>1, CountedFinite
      DEF CoreInv, GroupTypes, Statuses, Accumulating, Discarding
  <2>3. ASSUME Discarding, NEW d \in Children, cpc'[d] = "complete"
        PROVE  status'.pending = 0
    BY <1>2, <1>4, <1>5, <1>6, <2>3 DEF Accumulating, Discarding
  <2> QED
    BY <1>1, <1>2, <1>5, <1>11, <2>1, <2>2, <2>3
    DEF CoreInv, GroupTypes, CountInv, Accumulating, Discarding
<1> QED  BY <1>8, <1>9, <1>12 DEF CoreInv

LEMMA StoreResultKeepsCore ==
  ASSUME CoreInv, NEW c \in Children, StoreResult(c)
  PROVE  CoreInv'
<1>1. /\ Accumulating /\ mutex = c /\ mutex' = NoThread /\ cpc[c] = "store"
      /\ readyQueue' = Append(readyQueue, c) /\ cpc' = [cpc EXCEPT ![c] = "done"]
      /\ UNCHANGED <<kind, status, waitQueue, opc, adding, delivered>>
  BY DEF StoreResult, Settles, Leave, addVars
<1>2. cpc'[c] = "done" /\ \A d \in Children \ {c} : cpc'[d] = cpc[d]
  BY <1>1 DEF CoreInv, GroupTypes
<1>3. \A d \in Children \ {c} : cpc[d] \notin {"store", "complete"}
  BY <1>1 DEF CoreInv, ControlInv
<1>4. /\ readyQueue \in Seq(Children) /\ readyQueue' \in Seq(Children)
      /\ readyQueue' \in Seq(Children \cup {BodyError})
      /\ Len(readyQueue) \in Nat /\ Len(readyQueue') = Len(readyQueue) + 1
      /\ \A i \in 1 .. Len(readyQueue) : readyQueue'[i] = readyQueue[i]
      /\ readyQueue'[Len(readyQueue) + 1] = c
  <2>1. readyQueue \in Seq(Children) /\ Len(readyQueue) \in Nat
    BY <1>1, LenProperties DEF CoreInv, ControlInv
  <2> QED  BY <1>1, <2>1, AppendProperties, SeqMonotonic
<1>5. GroupTypes'
  BY <1>1, <1>4 DEF CoreInv, GroupTypes, Places
<1>6. \A i \in 1 .. Len(readyQueue') : cpc'[readyQueue'[i]] = "done"
  <2> SUFFICES ASSUME NEW i \in 1 .. Len(readyQueue') PROVE cpc'[readyQueue'[i]] = "done"
    OBVIOUS
  <2>1. CASE i \in 1 .. Len(readyQueue)
    <3>1. readyQueue[i] \in Children /\ cpc[readyQueue[i]] = "done"
      BY <1>4, <2>1, ElementOfSeq DEF CoreInv, ControlInv
    <3> QED  BY <1>2, <1>4, <2>1, <3>1
  <2>2. CASE i = Len(readyQueue) + 1
    BY <1>2, <1>4, <2>2
  <2> QED  BY <1>4, <2>1, <2>2
<1>7. ControlInv'
  BY <1>1, <1>2, <1>3, <1>4, <1>6, ChildrenAssumption
  DEF CoreInv, GroupTypes, ControlInv, Adding, Accumulating, Discarding
<1>8. Cardinality(Counted)' = Cardinality(Counted) - 1
  <2>1. c # adding
    BY <1>1, ChildrenAssumption DEF CoreInv, ControlInv, GroupTypes
  <2>2. Counted' = Counted \ {c} /\ c \in Counted
    BY <1>1, <1>2, <2>1 DEF Counted, Accumulating
  <2> QED  BY <2>2, CountedFinite, FS_RemoveElement
<1>9. CountInv'
  <2>1. status'.pending = Cardinality(Counted)' + Len(readyQueue')
    <3>1. status.pending = Cardinality(Counted) + Len(readyQueue)
      BY <1>1 DEF CoreInv, CountInv
    <3> QED  BY <1>1, <1>4, <1>8, <3>1, CountedFinite
  <2>2. waitQueue => status.pending > 0
    <3>1. cpc[c] # "complete"
      BY <1>1
    <3> QED  BY <1>3, <3>1 DEF CoreInv, CountInv
  <2>3. opc \notin {"destroy", "done"}
    BY <1>1, ChildrenAssumption DEF CoreInv, CountInv
  <2>4. Accumulating' /\ ~ Discarding'
    BY <1>1 DEF Accumulating, Discarding
  <2> QED  BY <1>1, <2>1, <2>2, <2>3, <2>4 DEF CountInv
<1> QED  BY <1>5, <1>7, <1>9 DEF CoreInv

LEMMA StoreFirstErrorKeepsCore ==
  ASSUME CoreInv, NEW c \in Children, StoreFirstError(c)
  PROVE  CoreInv'
<1>1. /\ Discarding /\ mutex = c /\ mutex' = NoThread /\ cpc[c] = "store"
      /\ cpc' = [cpc EXCEPT ![c] = "done"]
      /\ readyQueue' = readyQueue \/ (readyQueue = <<>> /\ readyQueue' = <<c>>)
      /\ UNCHANGED <<kind, status, waitQueue, opc, adding, delivered>>
  BY DEF StoreFirstError, StoresError, Settles, Leave, addVars
<1>2. cpc'[c] = "done" /\ \A d \in Children \ {c} : cpc'[d] = cpc[d]
  BY <1>1 DEF CoreInv, GroupTypes
<1>3. \A d \in Children \ {c} : cpc[d] \notin {"store", "complete"}
  BY <1>1 DEF CoreInv, ControlInv
<1>4. /\ readyQueue' \in Seq(Children \cup {BodyError}) /\ Len(readyQueue') <= 1
      /\ \A i \in 1 .. Len(readyQueue') :
           readyQueue'[i] \in Children => cpc'[readyQueue'[i]] = "done"
  <2>1. CASE readyQueue' = readyQueue
    BY <1>1, <1>2, <2>1 DEF CoreInv, GroupTypes, ControlInv, CountInv
  <2>2. CASE readyQueue' = <<c>>
    <3>1. Len(<<c>>) = 1 /\ <<c>>[1] = c /\ <<c>> \in Seq(Children \cup {BodyError})
      OBVIOUS
    <3> QED  BY <1>2, <2>2, <3>1
  <2> QED  BY <1>1, <2>1, <2>2
<1>5. GroupTypes'
  BY <1>1, <1>4 DEF CoreInv, GroupTypes, Places
<1>6. ControlInv'
  BY <1>1, <1>2, <1>3, <1>4, ChildrenAssumption
  DEF CoreInv, GroupTypes, ControlInv, Adding, Accumulating, Discarding
<1>7. Counted' = Counted
  BY <1>1, <1>2 DEF Counted, Accumulating, Discarding
<1>8. delivered = NoChild /\ opc \notin {"destroy", "done"}
  BY <1>1, ChildrenAssumption DEF CoreInv, CountInv
<1>9. CountInv'
  BY <1>1, <1>2, <1>3, <1>4, <1>7, <1>8
  DEF CoreInv, CountInv, ControlInv, Accumulating, Discarding
<1> QED  BY <1>5, <1>6, <1>9 DEF CoreInv

LEMMA CompleteWaiterKeepsCore ==
  ASSUME IInv, CoreInv, NEW c \in Children, CompleteWaiter(c)
  PROVE  CoreInv'
<1>1. /\ Accumulating /\ mutex = c /\ mutex' = NoThread /\ cpc[c] = "complete"
      /\ status' = Completing(status) /\ waitQueue' = FALSE /\ delivered' = c
      /\ cpc' = [cpc EXCEPT ![c] = "wake"]
      /\ UNCHANGED <<kind, readyQueue, opc, adding>>
  BY DEF CompleteWaiter, Settles, Leave, addVars
<1>2. cpc'[c] = "wake" /\ \A d \in Children \ {c} : cpc'[d] = cpc[d]
  BY <1>1 DEF CoreInv, GroupTypes
<1>3. status' \in Statuses /\ status'.waiting = FALSE /\ status'.pending = status.pending - 1
  BY <1>1, CompletingCounts DEF CoreInv, GroupTypes, Completing, Statuses
<1>4. /\ \A d \in Children \ {c} : cpc[d] \notin {"store", "complete", "wake"}
      /\ opc = "parked" /\ delivered = NoChild
  BY <1>1 DEF CoreInv, ControlInv
<1>5. GroupTypes'
  BY <1>1, <1>3 DEF CoreInv, GroupTypes, Places, Answers
<1>6. ControlInv'
  <2>1. \A i \in 1 .. Len(readyQueue) : readyQueue[i] # c
    BY <1>1 DEF CoreInv, ControlInv
  <2> QED
    BY <1>1, <1>2, <1>3, <1>4, <2>1, ChildrenAssumption
    DEF CoreInv, GroupTypes, ControlInv, Adding, Accumulating, Discarding
<1>7. Cardinality(Counted)' = Cardinality(Counted) - 1
  <2>1. c # adding
    BY <1>1, ChildrenAssumption DEF CoreInv, ControlInv, GroupTypes
  <2>2. Counted' = Counted \ {c} /\ c \in Counted
    BY <1>1, <1>2, <2>1 DEF Counted, Accumulating
  <2> QED  BY <2>2, CountedFinite, FS_RemoveElement
<1>8. CountInv'
  <2>1. Len(readyQueue) \in Nat
    BY LenProperties DEF CoreInv, GroupTypes
  <2> QED
    BY <1>1, <1>3, <1>4, <1>7, <2>1, CountedFinite
    DEF CoreInv, GroupTypes, CountInv, Accumulating, Discarding, Statuses
<1> QED  BY <1>5, <1>6, <1>8 DEF CoreInv

LEMMA CompleteGroupKeepsCore ==
  ASSUME CoreInv, NEW c \in Children, CompleteGroup(c)
  PROVE  CoreInv'
<1>1. /\ Discarding /\ mutex = c /\ mutex' = NoThread /\ cpc[c] = "complete"
      /\ waitQueue' = FALSE /\ readyQueue' = <<>>
      /\ delivered' = IF readyQueue # <<>> THEN Head(readyQueue)
                      ELSE IF failed[c] THEN c ELSE Void
      /\ cpc' = [cpc EXCEPT ![c] = "wake"]
      /\ UNCHANGED <<kind, status, opc, adding>>
  BY DEF CompleteGroup, Settles, Leave, addVars
<1>2. cpc'[c] = "wake" /\ \A d \in Children \ {c} : cpc'[d] = cpc[d]
  BY <1>1 DEF CoreInv, GroupTypes
<1>3. /\ \A d \in Children \ {c} : cpc[d] \notin {"store", "complete", "wake"}
      /\ opc = "parked" /\ delivered = NoChild /\ status.waiting
  BY <1>1 DEF CoreInv, ControlInv
<1>4. /\ delivered' \in Answers /\ delivered' # NoChild
      /\ delivered' \in Children => cpc'[delivered'] \in {"done", "wake"}
  <2>1. CASE readyQueue # <<>>
    <3>1. Len(readyQueue) > 0
      BY <2>1, EmptySeq, LenProperties DEF CoreInv, GroupTypes
    <3>2. /\ delivered' = readyQueue[1] /\ readyQueue[1] \in Children \cup {BodyError}
          /\ 1 \in 1 .. Len(readyQueue)
      BY <1>1, <2>1, <3>1, RestOfList DEF CoreInv, GroupTypes
    <3>3. readyQueue[1] \in Children => cpc[readyQueue[1]] = "done"
      BY <3>2 DEF CoreInv, ControlInv
    <3>4. BodyError # NoChild /\ BodyError \notin Children
      BY ChildrenAssumption DEF BodyError, NoChild
    <3>5. CASE readyQueue[1] = BodyError
      BY <3>2, <3>4, <3>5 DEF Answers
    <3>6. CASE readyQueue[1] \in Children
      <4>1. readyQueue[1] # NoChild /\ readyQueue[1] # c
        BY <1>1, <3>3, <3>6, ChildrenAssumption
      <4>2. cpc'[readyQueue[1]] = "done"
        BY <1>2, <3>3, <3>6, <4>1
      <4> QED  BY <3>2, <3>6, <4>1, <4>2 DEF Answers
    <3> QED  BY <3>2, <3>5, <3>6
  <2>2. CASE readyQueue = <<>>
    <3>1. Void # NoChild /\ Void \notin Children /\ c # NoChild
      BY ChildrenAssumption DEF Void, NoChild
    <3>2. delivered' = c \/ delivered' = Void
      BY <1>1, <2>2
    <3>3. CASE delivered' = c
      BY <1>2, <3>1, <3>3 DEF Answers
    <3>4. CASE delivered' = Void
      BY <3>1, <3>4 DEF Answers
    <3> QED  BY <3>2, <3>3, <3>4
  <2> QED  BY <2>1, <2>2
<1>5. readyQueue' \in Seq(Children \cup {BodyError}) /\ Len(readyQueue') = 0
  BY <1>1, EmptySeq
<1>6. GroupTypes'
  BY <1>1, <1>4, <1>5 DEF CoreInv, GroupTypes, Places
<1>7. ControlInv'
  BY <1>1, <1>2, <1>3, <1>4, <1>5, ChildrenAssumption
  DEF CoreInv, GroupTypes, ControlInv, Adding, Accumulating, Discarding
<1>8. Counted' = Counted
  BY <1>1, <1>2 DEF Counted, Accumulating, Discarding
<1>9. CountInv'
  BY <1>1, <1>3, <1>5, <1>8 DEF CoreInv, CountInv, Accumulating, Discarding
<1> QED  BY <1>6, <1>7, <1>9 DEF CoreInv

LEMMA WakeKeepsCore ==
  ASSUME CoreInv, NEW c \in Children, Wake(c)
  PROVE  CoreInv'
<1>1. /\ cpc[c] = "wake" /\ opc' = "resumed" /\ cpc' = [cpc EXCEPT ![c] = "done"]
      /\ UNCHANGED <<kind, status, mutex, readyQueue, waitQueue, adding, delivered>>
  BY DEF Wake, queues, addVars
<1>2. cpc'[c] = "done" /\ \A d \in Children \ {c} : cpc'[d] = cpc[d]
  BY <1>1 DEF CoreInv, GroupTypes
<1>3. opc = "parked" /\ delivered # NoChild /\ ~ waitQueue /\ adding = NoChild
      /\ \A d \in Children \ {c} : cpc[d] # "wake"
  BY <1>1 DEF CoreInv, ControlInv, Adding
<1>4. GroupTypes'
  BY <1>1 DEF CoreInv, GroupTypes, Places
<1>5. ControlInv'
  BY <1>1, <1>2, <1>3 DEF CoreInv, GroupTypes, ControlInv, Adding, Accumulating, Discarding
<1>6. Counted' = Counted
  BY <1>1, <1>2 DEF Counted, Accumulating
<1>7. CountInv'
  BY <1>1, <1>2, <1>3, <1>6 DEF CoreInv, CountInv, Accumulating, Discarding
<1> QED  BY <1>4, <1>5, <1>7 DEF CoreInv

LEMMA StepCore == IInv /\ CoreInv /\ [Next]_vars => CoreInv'
<1> SUFFICES ASSUME IInv, CoreInv, [Next]_vars PROVE CoreInv'
  OBVIOUS
<1>1. CASE OwnerStep \/ OwnerProgress
  BY <1>1, QuietCoreSteps, QuietKeepsCore, AddKeepsCore, RevertKeepsCore, StoreChildKeepsCore,
     EndKeepsCore, PollReadyKeepsCore, ParkKeepsCore, ReturnKeepsCore
  DEF OwnerStep, OwnerProgress, Threads
<1>2. ASSUME NEW c \in Children, ChildStep(c) PROVE CoreInv'
  BY <1>2, QuietCoreSteps, QuietKeepsCore, OfferKeepsCore, StoreResultKeepsCore,
     StoreFirstErrorKeepsCore, CompleteWaiterKeepsCore, CompleteGroupKeepsCore, WakeKeepsCore
  DEF ChildStep, Threads
<1>3. CASE CancelOwner \/ CancellerStep \/ UNCHANGED vars
  BY <1>3, QuietCoreSteps, QuietKeepsCore DEF CancellerStep, Threads
<1> QED  BY <1>1, <1>2, <1>3 DEF Next

(* While nobody holds the mutex, nobody has counted a result that is not   *)
(* yet in the queues: status word and queues agree, in every reachable     *)
(* state of an accumulating or discarding group.                           *)
THEOREM StatusWordAgrees == Spec => []StatusAgreesWithQueues
<1>1. IInv /\ CoreInv => StatusAgreesWithQueues
  <2> SUFFICES ASSUME IInv, CoreInv, mutex = NoThread PROVE StatusAgreesWithQueues
    BY DEF StatusAgreesWithQueues
  <2>1. \A c \in Children : cpc[c] # "complete"
    BY ChildrenAssumption DEF CoreInv, ControlInv
  <2>2. waitQueue => status.waiting /\ status.pending > 0
    BY <2>1 DEF CoreInv, ControlInv, CountInv
  <2>3. Accumulating => /\ status.waiting => waitQueue /\ readyQueue = <<>>
                        /\ status.ready = Len(readyQueue)
    BY Unlocked DEF IInv, WaiterInv, CoreInv, ControlInv, Accumulating, Discarding
  <2>4. Discarding => Len(readyQueue) <= 1
    BY DEF CoreInv, CountInv
  <2>5. IsEmpty => \A c \in Children : cpc[c] # "running"
    BY NoneCounted DEF IsEmpty, Counted
  <2> QED  BY <2>2, <2>3, <2>4, <2>5 DEF StatusAgreesWithQueues
<1> QED
  BY <1>1, InitIInv, StepIInv, InitCore, StepCore, PTL DEF Spec
-----------------------------------------------------------------------------
(* The children that are linked: each once, from the time they are added   *)
(* until their result is taken or discarded.                               *)
Keeps(c) ==
  \/ c = adding /\ opc \in {"update", "store"}
  \/ cpc[c] \in {"running", "store", "complete"}
  \/ \E i \in 1 .. Len(readyQueue) : readyQueue[i] = c
  \/ opc = "detach" /\ delivered = c

Walked(c) == cpc[c] = "running" \/ (c = adding /\ opc \in {"update", "store"})

NoRepeat(list) == \A i, j \in 1 .. Len(list) : list[i] = list[j] => i = j

LinkInv ==
  /\ children \in Seq(Children) /\ staleNext \in [Children -> Children \cup {NoChild}]
  /\ NoRepeat(children)
  /\ \A c \in Children : Linked(c) => Keeps(c)
  /\ \A c \in Children : Walked(c) => Linked(c)

(* Unlinking a child removes it and nothing else.                          *)
LEMMA WithoutProperties ==
  ASSUME NEW list \in Seq(Children), NoRepeat(list), NEW c
  PROVE  /\ Without(list, c) \in Seq(Children) /\ NoRepeat(Without(list, c))
         /\ \A x : (\E i \in 1 .. Len(Without(list, c)) : Without(list, c)[i] = x)
                     <=> x # c /\ \E i \in 1 .. Len(list) : list[i] = x
<1>0. Len(list) \in Nat
  BY LenProperties
<1>1. CASE ~ \E i \in 1 .. Len(list) : list[i] = c
  <2>1. Without(list, c) = list
    BY <1>1 DEF Without
  <2> QED  BY <1>1, <2>1
<1>2. CASE \E i \in 1 .. Len(list) : list[i] = c
  <2> DEFINE p == CHOOSE i \in 1 .. Len(list) : list[i] = c
             before == SubSeq(list, 1, p - 1)
             after == SubSeq(list, p + 1, Len(list))
             rest == before \o after
  <2>1. p \in 1 .. Len(list) /\ list[p] = c
    BY <1>2
  <2>2. Without(list, c) = rest
    BY <1>2 DEF Without
  <2> HIDE DEF p
  <2>3. /\ before \in Seq(Children) /\ Len(before) = p - 1
        /\ \A i \in 1 .. p - 1 : before[i] = list[i]
    <3>1. \A i \in 1 .. p - 1 : list[i] \in Children
      BY <1>0, <2>1, ElementOfSeq
    <3>2. p - 1 \in Int /\ 1 \in Int
      BY <1>0, <2>1
    <3>3. /\ before \in Seq(Children)
          /\ Len(before) = IF 1 <= p - 1 THEN p - 1 - 1 + 1 ELSE 0
          /\ \A i \in 1 .. p - 1 - 1 + 1 : before[i] = list[1 + i - 1]
      BY <3>1, <3>2, SubSeqProperties
    <3> HIDE DEF before
    <3> QED  BY <1>0, <2>1, <3>3
  <2>4. /\ after \in Seq(Children) /\ Len(after) = Len(list) - p
        /\ \A i \in 1 .. Len(list) - p : after[i] = list[p + i]
    <3>1. \A i \in p + 1 .. Len(list) : list[i] \in Children
      BY <1>0, <2>1, ElementOfSeq
    <3>2. p + 1 \in Int /\ Len(list) \in Int
      BY <1>0, <2>1
    <3>3. /\ after \in Seq(Children)
          /\ Len(after) = IF p + 1 <= Len(list) THEN Len(list) - (p + 1) + 1 ELSE 0
          /\ \A i \in 1 .. Len(list) - (p + 1) + 1 : after[i] = list[p + 1 + i - 1]
      BY <3>1, <3>2, SubSeqProperties
    <3> HIDE DEF after
    <3> QED  BY <1>0, <2>1, <3>3
  <2> HIDE DEF before, after
  <2>5. /\ rest \in Seq(Children) /\ Len(rest) = Len(list) - 1
        /\ \A i \in 1 .. Len(list) - 1 :
             rest[i] = IF i <= p - 1 THEN before[i] ELSE after[i - (p - 1)]
    <3>1. /\ rest \in Seq(Children) /\ Len(rest) = Len(before) + Len(after)
          /\ \A i \in 1 .. Len(before) + Len(after) :
               rest[i] = IF i <= Len(before) THEN before[i] ELSE after[i - Len(before)]
      BY <2>3, <2>4, ConcatProperties
    <3>2. Len(before) + Len(after) = Len(list) - 1
      BY <1>0, <2>1, <2>3, <2>4
    <3> QED  BY <2>3, <3>1, <3>2
  <2> HIDE DEF rest
  <2>6. \A i \in 1 .. Len(list) - 1 : rest[i] = IF i < p THEN list[i] ELSE list[i + 1]
    <3> SUFFICES ASSUME NEW i \in 1 .. Len(list) - 1
                 PROVE  rest[i] = IF i < p THEN list[i] ELSE list[i + 1]
      OBVIOUS
    <3>1. CASE i < p
      BY <1>0, <2>1, <2>3, <2>5, <3>1
    <3>2. CASE ~ i < p
      <4>1. i - (p - 1) \in 1 .. Len(list) - p /\ p + (i - (p - 1)) = i + 1
            /\ ~ (i <= p - 1)
        BY <1>0, <2>1, <3>2
      <4> QED  BY <2>4, <2>5, <3>2, <4>1
    <3> QED  BY <3>1, <3>2
  <2>7. NoRepeat(rest)
    <3> SUFFICES ASSUME NEW i \in 1 .. Len(list) - 1, NEW j \in 1 .. Len(list) - 1,
                        rest[i] = rest[j]
                 PROVE  i = j
      <4>1. Len(rest) = Len(list) - 1
        BY <2>5
      <4> QED  BY <4>1 DEF NoRepeat
    <3> DEFINE from(k) == IF k < p THEN k ELSE k + 1
    <3>1. \A k \in 1 .. Len(list) - 1 : from(k) \in 1 .. Len(list) /\ rest[k] = list[from(k)]
      BY <1>0, <2>1, <2>6
    <3> HIDE DEF from
    <3>2. from(i) = from(j)
      BY <3>1 DEF NoRepeat
    <3> QED  BY <1>0, <2>1, <3>2 DEF from
  <2>8. ASSUME NEW x, NEW i \in 1 .. Len(rest), rest[i] = x
        PROVE  x # c /\ \E j \in 1 .. Len(list) : list[j] = x
    <3> DEFINE j == IF i < p THEN i ELSE i + 1
    <3>1. j \in 1 .. Len(list) /\ j # p /\ list[j] = x
      BY <1>0, <2>1, <2>5, <2>6, <2>8
    <3> QED  BY <2>1, <3>1 DEF NoRepeat
  <2>9. ASSUME NEW x, x # c, NEW j \in 1 .. Len(list), list[j] = x
        PROVE  \E i \in 1 .. Len(rest) : rest[i] = x
    <3> DEFINE i == IF j < p THEN j ELSE j - 1
    <3>1. i \in 1 .. Len(rest) /\ rest[i] = x
      BY <1>0, <2>1, <2>5, <2>6, <2>9
    <3> QED  BY <3>1
  <2> QED  BY <2>2, <2>5, <2>7, <2>8, <2>9
<1> QED  BY <1>1, <1>2

(* The successor of a linked child.                                        *)
LEMMA PositionOf ==
  ASSUME NEW c, Linked(c)
  PROVE  Position(c) \in 1 .. Len(children) /\ children[Position(c)] = c
BY DEF Linked, Position

LEMMA NextChildType ==
  ASSUME LinkInv, NEW c \in Children
  PROVE  NextChild(c) \in Children \cup {NoChild}
<1>1. CASE ~ Linked(c)
  BY <1>1 DEF NextChild, LinkInv
<1>2. CASE Linked(c) /\ Position(c) # Len(children)
  <2>1. Position(c) + 1 \in 1 .. Len(children)
    BY <1>2, PositionOf, LenProperties DEF LinkInv
  <2>2. children[Position(c) + 1] \in Children
    BY <2>1, ElementOfSeq DEF LinkInv
  <2> QED  BY <1>2, <2>2 DEF NextChild
<1>3. CASE Linked(c) /\ Position(c) = Len(children)
  BY <1>3 DEF NextChild
<1> QED  BY <1>1, <1>2, <1>3

LEMMA DetachProperties ==
  ASSUME LinkInv, NEW c, NEW d, Detach(c, d)
  PROVE  /\ children' \in Seq(Children) /\ NoRepeat(children)'
         /\ staleNext' \in [Children -> Children \cup {NoChild}]
         /\ \A x : Linked(x)' <=> Linked(x) /\ x \notin {c, d}
<1> DEFINE once == Without(children, c)
           twice == Without(once, d)
<1>1. /\ once \in Seq(Children) /\ NoRepeat(once)
      /\ \A x : (\E i \in 1 .. Len(once) : once[i] = x) <=> x # c /\ Linked(x)
  BY WithoutProperties DEF LinkInv, Linked
<1>2. children' = twice
  BY DEF Detach
<1> HIDE DEF once
<1>3. /\ twice \in Seq(Children) /\ NoRepeat(twice)
      /\ \A x : (\E i \in 1 .. Len(twice) : twice[i] = x)
                  <=> x # d /\ \E i \in 1 .. Len(once) : once[i] = x
  BY <1>1, WithoutProperties
<1> HIDE DEF twice
<1>4. NoRepeat(children)' /\ \A x : Linked(x)' <=> \E i \in 1 .. Len(twice) : twice[i] = x
  BY <1>2, <1>3 DEF NoRepeat, Linked
<1>5. staleNext' \in [Children -> Children \cup {NoChild}]
  BY NextChildType DEF Detach, LinkInv
<1> QED  BY <1>1, <1>2, <1>3, <1>4, <1>5

(* A step that leaves the list alone, and one that unlinks children.       *)
LEMMA SameListKeepsLinks ==
  ASSUME LinkInv, UNCHANGED <<children, staleNext>>,
         \A c \in Children : (Keeps(c) => Keeps(c)') /\ (Walked(c)' => Walked(c))
  PROVE  LinkInv'
BY DEF LinkInv, NoRepeat, Linked

LEMMA DetachKeepsLinks ==
  ASSUME LinkInv, NEW c, NEW d, Detach(c, d),
         \A x \in Children \ {c, d} : Keeps(x) => Keeps(x)',
         \A x \in Children : Walked(x)' => Walked(x) /\ x \notin {c, d}
  PROVE  LinkInv'
BY DetachProperties DEF LinkInv

LEMMA InitLinks == Init => LinkInv
<1> SUFFICES ASSUME Init PROVE LinkInv
  OBVIOUS
<1>1. children = <<>> /\ Len(children) = 0 /\ children \in Seq(Children)
  BY EmptySeq DEF Init
<1>2. \A c \in Children : ~ Linked(c) /\ ~ Walked(c)
  BY <1>1 DEF Init, Linked, Walked
<1> QED  BY <1>1, <1>2 DEF Init, LinkInv, NoRepeat

LEMMA OwnerKeepsLinks ==
  ASSUME CoreInv, LinkInv,
         \/ \E c \in Children : AddTask(c) \/ AddTaskUnlessCancelled(c)
         \/ RevertPending \/ CreateChild \/ UpdateChild \/ StoreChild
         \/ PollEmpty \/ PollWait \/ WaitAllPark \/ Resume \/ Destroy
  PROVE  LinkInv'
<1>1. UNCHANGED <<children, staleNext>>
  BY DEF AddTask, AddTaskUnlessCancelled, RevertPending, CreateChild, UpdateChild, StoreChild,
         PollEmpty, PollWait, WaitAllPark, Resume, Destroy, lists
<1>2. ASSUME NEW c \in Children PROVE (Keeps(c) => Keeps(c)') /\ (Walked(c)' => Walked(c))
  <2>1. CASE StoreChild
    <3>1. /\ opc = "store" /\ opc' = "run" /\ cpc' = [cpc EXCEPT ![adding] = "running"]
          /\ UNCHANGED <<readyQueue, delivered>>
      BY <2>1 DEF StoreChild, queues
    <3>2. cpc[adding] = "unborn" /\ adding \in Children
      BY <3>1 DEF CoreInv, GroupTypes, ControlInv, Adding
    <3>3. cpc'[adding] = "running" /\ (c # adding => cpc'[c] = cpc[c])
      BY <3>1, <3>2 DEF CoreInv, GroupTypes
    <3> QED  BY <3>1, <3>3 DEF Keeps, Walked
  <2>2. CASE WaitAllPark
    <3>1. /\ readyQueue' = readyQueue \/ readyQueue = <<>>
          /\ opc = "run" /\ opc' = "parked" /\ UNCHANGED <<cpc, adding, delivered>>
      BY <2>2 DEF WaitAllPark, AtRun, addVars
    <3>2. Len(<<>>) = 0
      OBVIOUS
    <3> QED  BY <3>1, <3>2 DEF Keeps, Walked
  <2>3. CASE \/ \E d \in Children : AddTask(d) \/ AddTaskUnlessCancelled(d)
             \/ RevertPending \/ CreateChild \/ UpdateChild
             \/ PollEmpty \/ PollWait \/ Resume \/ Destroy
    <3>1. /\ UNCHANGED <<cpc, readyQueue>>
          /\ \/ /\ {opc, opc'} \cap {"update", "store", "detach"} = {}
             \/ opc = "update" /\ opc' = "store" /\ UNCHANGED adding
      BY <2>3 DEF AddTask, AddTaskUnlessCancelled, RevertPending, CreateChild, UpdateChild,
                  PollEmpty, PollWait, Resume, Destroy, queues, addVars, InBody, AtRun
    <3> QED  BY <3>1 DEF Keeps, Walked
  <2> QED  BY <2>1, <2>2, <2>3
<1> QED  BY <1>1, <1>2, SameListKeepsLinks

LEMMA PollReadyKeepsLinks ==
  ASSUME IInv, CoreInv, LinkInv, PollReady
  PROVE  LinkInv'
<1>1. /\ Accumulating /\ opc = "run" /\ opc' = "detach" /\ mutex = NoThread
      /\ status.ready > 0 /\ delivered' = Head(readyQueue) /\ readyQueue' = Tail(readyQueue)
      /\ UNCHANGED <<children, staleNext, cpc, adding>>
  BY DEF PollReady, AtRun, addVars, lists
<1>2. readyQueue \in Seq(Children) /\ Len(readyQueue) > 0
  BY <1>1, Unlocked DEF IInv, ReadyInv
<1>3. /\ delivered' = readyQueue[1] /\ Len(readyQueue) \in Nat
      /\ Len(readyQueue') = Len(readyQueue) - 1
      /\ \A i \in 1 .. Len(readyQueue) - 1 : readyQueue'[i] = readyQueue[i + 1]
  BY <1>1, <1>2, RestOfList
<1>4. ASSUME NEW c \in Children, NEW i \in 1 .. Len(readyQueue), readyQueue[i] = c
      PROVE  delivered' = c \/ \E j \in 1 .. Len(readyQueue') : readyQueue'[j] = c
  <2>1. CASE i = 1
    BY <1>3, <1>4, <2>1
  <2>2. CASE i # 1
    <3>1. i - 1 \in 1 .. Len(readyQueue') /\ readyQueue'[i - 1] = c
      BY <1>3, <1>4, <2>2
    <3> QED  BY <3>1
  <2> QED  BY <2>1, <2>2
<1>5. \A c \in Children : (Keeps(c) => Keeps(c)') /\ (Walked(c)' => Walked(c))
  BY <1>1, <1>4 DEF Keeps, Walked
<1> QED  BY <1>1, <1>5, SameListKeepsLinks

LEMMA LinkChildKeepsLinks ==
  ASSUME CoreInv, LinkInv, LinkChild
  PROVE  LinkInv'
<1>1. /\ opc = "link" /\ opc' = "update" /\ children' = Append(children, adding)
      /\ UNCHANGED <<staleNext, cpc, adding, readyQueue, delivered>>
  BY DEF LinkChild, queues
<1>2. adding \in Children /\ cpc[adding] = "unborn"
  BY <1>1 DEF CoreInv, GroupTypes, ControlInv, Adding
<1>3. ~ Linked(adding)
  <2>1. ~ Keeps(adding)
    BY <1>1, <1>2 DEF CoreInv, ControlInv, Keeps
  <2> QED  BY <1>2, <2>1 DEF LinkInv
<1>4. /\ children' \in Seq(Children) /\ Len(children) \in Nat
      /\ Len(children') = Len(children) + 1
      /\ \A i \in 1 .. Len(children) : children'[i] = children[i]
      /\ children'[Len(children) + 1] = adding
  BY <1>1, <1>2, AppendProperties, LenProperties DEF LinkInv
<1>5. NoRepeat(children)'
  BY <1>3, <1>4 DEF LinkInv, NoRepeat, Linked
<1>6. \A x : Linked(x)' <=> Linked(x) \/ x = adding
  <2>1. ASSUME NEW x, Linked(x) PROVE Linked(x)'
    <3>1. PICK i \in 1 .. Len(children) : children[i] = x
      BY <2>1 DEF Linked
    <3>2. i \in 1 .. Len(children') /\ children'[i] = x
      BY <1>4, <3>1
    <3> QED  BY <3>2 DEF Linked
  <2>2. Linked(adding)'
    <3>1. Len(children) + 1 \in 1 .. Len(children')
      BY <1>4
    <3> QED  BY <1>1, <1>4, <3>1 DEF Linked
  <2>3. ASSUME NEW x, Linked(x)' PROVE Linked(x) \/ x = adding
    BY <1>4, <2>3 DEF Linked
  <2>4. ASSUME NEW x PROVE Linked(x)' <=> Linked(x) \/ x = adding
    <3>1. CASE x = adding
      BY <1>1, <2>2, <3>1
    <3>2. CASE x # adding
      BY <2>1, <2>3, <3>2
    <3> QED  BY <3>1, <3>2
  <2> QED  BY <2>4
<1>7. \A c \in Children : /\ Keeps(c)' <=> Keeps(c) \/ c = adding
                          /\ Walked(c)' <=> Walked(c) \/ c = adding
  BY <1>1 DEF Keeps, Walked
<1> QED  BY <1>1, <1>4, <1>5, <1>6, <1>7 DEF LinkInv

LEMMA UnlinkingKeepsLinks ==
  ASSUME CoreInv, LinkInv, DetachPolled \/ WaitAllEmpty
  PROVE  LinkInv'
<1>1. CASE DetachPolled
  <2>1. /\ opc = "detach" /\ opc' = "run" /\ Detach(delivered, NoChild)
        /\ UNCHANGED <<cpc, adding, readyQueue>>
    BY <1>1 DEF DetachPolled, queues, addVars
  <2>2. cpc[delivered] # "running" \/ delivered \notin Children
    BY DEF CoreInv, ControlInv
  <2> QED
    BY <2>1, <2>2, DetachKeepsLinks, ChildrenAssumption DEF Keeps, Walked
<1>2. CASE WaitAllEmpty
  <2> DEFINE first == IF readyQueue = <<>> THEN NoChild ELSE Head(readyQueue)
  <2>1. /\ opc = "run" /\ opc' = "destroy" /\ Detach(first, NoChild) /\ Discarding
        /\ UNCHANGED <<cpc, adding>>
    BY <1>2 DEF WaitAllEmpty, AtRun, addVars
  <2>2. \A i \in 1 .. Len(readyQueue) : readyQueue[i] = first
    <3>1. Len(readyQueue) <= 1 /\ readyQueue \in Seq(Children \cup {BodyError})
          /\ Len(readyQueue) \in Nat
      BY <2>1, LenProperties DEF CoreInv, CountInv, GroupTypes
    <3>2. Len(<<>>) = 0
      OBVIOUS
    <3>3. CASE Len(readyQueue) > 0
      BY <3>1, <3>2, <3>3, RestOfList
    <3> QED  BY <3>1, <3>3
  <2>3. first \in Children => cpc[first] # "running"
    <3>1. CASE readyQueue = <<>>
      BY <3>1, ChildrenAssumption
    <3>2. CASE readyQueue # <<>>
      <4>1. Len(readyQueue) \in Nat \ {0}
        BY <3>2, EmptySeq DEF CoreInv, GroupTypes
      <4>2. 1 \in 1 .. Len(readyQueue) /\ readyQueue[1] = first
        BY <2>2, <4>1
      <4> HIDE DEF first
      <4> QED  BY <4>2 DEF CoreInv, ControlInv
    <3> QED  BY <3>1, <3>2
  <2> HIDE DEF first
  <2>4. \A x \in Children \ {first, NoChild} : Keeps(x) => Keeps(x)'
    BY <2>1, <2>2 DEF Keeps
  <2>5. \A x \in Children : Walked(x)' => Walked(x) /\ x \notin {first, NoChild}
    BY <2>1, <2>3, ChildrenAssumption DEF Walked
  <2> QED  BY <2>1, <2>4, <2>5, DetachKeepsLinks
<1> QED  BY <1>1, <1>2

LEMMA ChildKeepsLinks ==
  ASSUME CoreInv, LinkInv, NEW c \in Children,
         OfferReady(c) \/ OfferDiscarding(c) \/ StoreResult(c) \/ Wake(c)
  PROVE  LinkInv'
<1>1. CASE OfferReady(c) \/ OfferDiscarding(c)
  <2>1. /\ cpc[c] = "running" /\ UNCHANGED <<children, staleNext, readyQueue, opc, adding,
                                             delivered>>
        /\ \E where \in {"store", "complete"} : cpc' = [cpc EXCEPT ![c] = where]
    BY <1>1 DEF OfferReady, OfferDiscarding, Ends, queues, addVars, lists
  <2>2. cpc'[c] \in {"store", "complete"} /\ \A d \in Children \ {c} : cpc'[d] = cpc[d]
    BY <2>1 DEF CoreInv, GroupTypes
  <2> QED  BY <2>1, <2>2, SameListKeepsLinks DEF Keeps, Walked
<1>2. CASE StoreResult(c)
  <2>1. /\ Accumulating /\ cpc[c] = "store" /\ readyQueue' = Append(readyQueue, c)
        /\ cpc' = [cpc EXCEPT ![c] = "done"]
        /\ UNCHANGED <<children, staleNext, opc, adding, delivered>>
    BY <1>2 DEF StoreResult, Settles, Leave, addVars, lists
  <2>2. cpc'[c] = "done" /\ \A d \in Children \ {c} : cpc'[d] = cpc[d]
    BY <2>1 DEF CoreInv, GroupTypes
  <2>3. /\ Len(readyQueue) \in Nat /\ Len(readyQueue') = Len(readyQueue) + 1
        /\ \A i \in 1 .. Len(readyQueue) : readyQueue'[i] = readyQueue[i]
        /\ readyQueue'[Len(readyQueue) + 1] = c
    BY <2>1, AppendProperties, LenProperties DEF CoreInv, ControlInv
  <2>4. ASSUME NEW x, (x = c \/ \E i \in 1 .. Len(readyQueue) : readyQueue[i] = x)
        PROVE  \E i \in 1 .. Len(readyQueue') : readyQueue'[i] = x
    <3>1. CASE x = c
      <4>1. Len(readyQueue) + 1 \in 1 .. Len(readyQueue')
        BY <2>3
      <4> QED  BY <2>3, <3>1, <4>1
    <3>2. CASE \E i \in 1 .. Len(readyQueue) : readyQueue[i] = x
      BY <2>3, <3>2
    <3> QED  BY <2>4, <3>1, <3>2
  <2>5. \A x \in Children : (Keeps(x) => Keeps(x)') /\ (Walked(x)' => Walked(x))
    BY <2>1, <2>2, <2>4 DEF Keeps, Walked
  <2> QED  BY <2>1, <2>5, SameListKeepsLinks
<1>3. CASE Wake(c)
  <2>1. /\ cpc[c] = "wake" /\ opc' = "resumed" /\ cpc' = [cpc EXCEPT ![c] = "done"]
        /\ UNCHANGED <<children, staleNext, readyQueue, adding, delivered>>
    BY <1>3 DEF Wake, queues, addVars, lists
  <2>2. cpc'[c] = "done" /\ \A d \in Children \ {c} : cpc'[d] = cpc[d]
    BY <2>1 DEF CoreInv, GroupTypes
  <2>3. opc = "parked"
    BY <2>1 DEF CoreInv, ControlInv
  <2> QED  BY <2>1, <2>2, <2>3, SameListKeepsLinks DEF Keeps, Walked
<1> QED  BY <1>1, <1>2, <1>3

LEMMA SettleKeepsLinks ==
  ASSUME CoreInv, LinkInv, NEW c \in Children,
         StoreFirstError(c) \/ CompleteWaiter(c) \/ CompleteGroup(c)
  PROVE  LinkInv'
<1>1. /\ cpc[c] \in {"store", "complete"} /\ mutex = c
      /\ \E next \in {"done", "wake"} : cpc' = [cpc EXCEPT ![c] = next]
      /\ UNCHANGED <<opc, adding>>
  BY DEF StoreFirstError, CompleteWaiter, CompleteGroup, Settles, Leave, addVars
<1>2. cpc'[c] \in {"done", "wake"} /\ \A d \in Children \ {c} : cpc'[d] = cpc[d]
  BY <1>1 DEF CoreInv, GroupTypes
<1>3. c # adding /\ opc # "detach"
  <2>1. c # adding
    BY <1>1, ChildrenAssumption DEF CoreInv, ControlInv, GroupTypes
  <2>2. opc # "detach" \/ StoreFirstError(c)
    BY <1>1 DEF CompleteWaiter, CompleteGroup, Settles, CoreInv, ControlInv
  <2>3. StoreFirstError(c) => opc # "detach"
    BY DEF StoreFirstError, CoreInv, CountInv
  <2> QED  BY <2>1, <2>2, <2>3
<1>4. CASE StoreFirstError(c) /\ StoresError(c)
  <2>1. readyQueue = <<>> /\ readyQueue' = <<c>> /\ UNCHANGED <<children, staleNext>>
    BY <1>4 DEF StoreFirstError, StoresError, lists
  <2>2. Len(<<>>) = 0 /\ 1 \in 1 .. Len(<<c>>) /\ <<c>>[1] = c
    OBVIOUS
  <2>3. \A x \in Children : (Keeps(x) => Keeps(x)') /\ (Walked(x)' => Walked(x))
    BY <1>1, <1>2, <1>3, <2>1, <2>2 DEF Keeps, Walked
  <2> QED  BY <2>1, <2>3, SameListKeepsLinks
<1>5. CASE \/ StoreFirstError(c) /\ ~ StoresError(c)
           \/ CompleteWaiter(c)
  <2>1. Detach(c, NoChild) /\ readyQueue' = readyQueue
    BY <1>5 DEF StoreFirstError, CompleteWaiter
  <2>2. \A x \in Children \ {c, NoChild} : Keeps(x) => Keeps(x)'
    BY <1>1, <1>2, <1>3, <2>1 DEF Keeps
  <2>3. \A x \in Children : Walked(x)' => Walked(x) /\ x \notin {c, NoChild}
    BY <1>1, <1>2, <1>3, ChildrenAssumption DEF Walked
  <2> QED  BY <2>1, <2>2, <2>3, DetachKeepsLinks
<1>6. CASE CompleteGroup(c)
  <2>1. /\ Detach(c, delivered') /\ readyQueue' = <<>> /\ Discarding
        /\ delivered' = IF readyQueue # <<>> THEN Head(readyQueue)
                        ELSE IF failed[c] THEN c ELSE Void
    BY <1>6 DEF CompleteGroup
  <2>2. /\ \A i \in 1 .. Len(readyQueue) : readyQueue[i] = delivered'
        /\ delivered' \in Children => delivered' = c \/ cpc[delivered'] = "done"
    <3>1. Len(readyQueue) <= 1 /\ readyQueue \in Seq(Children \cup {BodyError})
          /\ Len(readyQueue) \in Nat
      BY <2>1, LenProperties DEF CoreInv, CountInv, GroupTypes
    <3>2. CASE readyQueue = <<>>
      <4>1. Len(<<>>) = 0
        OBVIOUS
      <4> QED  BY <2>1, <3>2, <4>1, ChildrenAssumption
    <3>3. CASE readyQueue # <<>>
      <4>1. Len(readyQueue) > 0
        BY <3>1, <3>3, EmptySeq
      <4>2. Head(readyQueue) = readyQueue[1] /\ 1 \in 1 .. Len(readyQueue)
        BY <3>1, <4>1, RestOfList
      <4>3. delivered' = readyQueue[1]
        BY <2>1, <3>3, <4>2
      <4> DEFINE n == Len(readyQueue)
      <4>a. n \in Nat /\ n <= 1 /\ n > 0
        BY <3>1, <4>1
      <4> HIDE DEF n
      <4>b. n = 1
        BY <4>a
      <4>4. Len(readyQueue) = 1
        BY <4>b DEF n
      <4> QED  BY <4>2, <4>3, <4>4 DEF CoreInv, ControlInv
    <3> QED  BY <3>2, <3>3
  <2>3. \A x \in Children \ {c, delivered'} : Keeps(x) => Keeps(x)'
    BY <1>1, <1>2, <1>3, <2>2 DEF Keeps
  <2>4. \A x \in Children : Walked(x)' => Walked(x) /\ x \notin {c, delivered'}
    <3> SUFFICES ASSUME NEW x \in Children, Walked(x)'
                 PROVE  Walked(x) /\ x \notin {c, delivered'}
      OBVIOUS
    <3>1. opc = "parked"
      BY <1>6 DEF CompleteGroup, Settles, CoreInv, ControlInv
    <3>2. x # c /\ cpc[x] = "running"
      BY <1>1, <1>2, <1>3, <3>1 DEF Walked
    <3> QED  BY <2>2, <3>2 DEF Walked
  <2> QED  BY <2>1, <2>3, <2>4, DetachKeepsLinks
<1> QED  BY <1>4, <1>5, <1>6

LEMMA OthersKeepLinks ==
  ASSUME LinkInv,
         \/ CancelAll \/ BodyReturns \/ BodyThrows \/ CancelOwner \/ LockRecords
         \/ UnlockRecords \/ UNCHANGED vars \/ \E t \in Threads : Walk(t)
  PROVE  LinkInv'
<1>1. UNCHANGED <<children, staleNext, cpc, readyQueue, opc, adding, delivered>>
  BY DEF CancelAll, BodyReturns, BodyThrows, CancelOwner, LockRecords, UnlockRecords, Walk,
         vars, queues, addVars, lists
<1>2. \A c \in Children : (Keeps(c) => Keeps(c)') /\ (Walked(c)' => Walked(c))
  BY <1>1 DEF Keeps, Walked
<1> QED  BY <1>1, <1>2, SameListKeepsLinks

LEMMA StepLinks == IInv /\ CoreInv /\ LinkInv /\ [Next]_vars => LinkInv'
<1> SUFFICES ASSUME IInv, CoreInv, LinkInv, [Next]_vars PROVE LinkInv'
  OBVIOUS
<1>1. CASE OwnerStep \/ OwnerProgress
  BY <1>1, OwnerKeepsLinks, PollReadyKeepsLinks, LinkChildKeepsLinks, UnlinkingKeepsLinks,
     OthersKeepLinks
  DEF OwnerStep, OwnerProgress, Threads
<1>2. ASSUME NEW c \in Children, ChildStep(c) PROVE LinkInv'
  BY <1>2, ChildKeepsLinks, SettleKeepsLinks, OthersKeepLinks DEF ChildStep, Threads
<1>3. CASE CancelOwner \/ CancellerStep \/ UNCHANGED vars
  BY <1>3, OthersKeepLinks DEF CancellerStep, Threads
<1> QED  BY <1>1, <1>2, <1>3 DEF Next

(* When the owner destroys the group, nothing is pending, nothing is       *)
(* queued, nothing is linked and no child will touch it any more.          *)
THEOREM DestroyedAfterTheLastUse == Spec => []DestroyedWhenUnused
<1>1. CoreInv /\ LinkInv => DestroyedWhenUnused
  <2> SUFFICES ASSUME CoreInv, LinkInv, opc \in {"destroy", "done"}
               PROVE  /\ IsEmpty /\ children = <<>> /\ readyQueue = <<>> /\ mutex = NoThread
                      /\ \A c \in Children : cpc[c] \in {"unborn", "done"}
    BY DEF DestroyedWhenUnused
  <2>1. status.pending = 0 /\ mutex = NoThread /\ readyQueue = <<>>
    BY DEF CoreInv, CountInv
  <2>2. \A c \in Children : cpc[c] \in {"unborn", "done"}
    <3> SUFFICES ASSUME NEW c \in Children PROVE cpc[c] \in {"unborn", "done"}
      OBVIOUS
    <3>1. cpc[c] # "running"
      BY <2>1, NoneCounted DEF Counted
    <3>2. cpc[c] \notin {"store", "complete"}
      BY <2>1, ChildrenAssumption DEF CoreInv, ControlInv
    <3>3. cpc[c] # "wake"
      BY DEF CoreInv, ControlInv
    <3> QED  BY <3>1, <3>2, <3>3 DEF CoreInv, GroupTypes
  <2>3. \A c \in Children : ~ Keeps(c)
    <3>1. Len(readyQueue) = 0
      BY <2>1
    <3> QED  BY <2>2, <3>1 DEF Keeps
  <2>4. children = <<>>
    <3> SUFFICES ASSUME children # <<>> PROVE FALSE
      OBVIOUS
    <3>1. 1 \in 1 .. Len(children)
      BY EmptySeq DEF LinkInv
    <3>2. children[1] \in Children /\ Linked(children[1])
      BY <3>1, ElementOfSeq DEF LinkInv, Linked
    <3> QED  BY <2>3, <3>2 DEF LinkInv
  <2> QED  BY <2>1, <2>2, <2>4 DEF IsEmpty
<1> QED
  BY <1>1, InitIInv, StepIInv, InitCore, StepCore, InitLinks, StepLinks, PTL DEF Spec
-----------------------------------------------------------------------------
(* What a discarding group throws.                                         *)
Failures == {i \in 1 .. Len(offered) : failed[offered[i]]}

Offered(c) == \E i \in 1 .. Len(offered) : offered[i] = c

ErrorTypes ==
  /\ offered \in Seq(Children) /\ failed \in [Children -> BOOLEAN] /\ bodyError \in BOOLEAN
  /\ \A c \in Children : Offered(c) => cpc[c] \notin {"unborn", "running"}
  /\ \A c \in Children : mutex = c => Offered(c)

(* Where the first failure is while the group ends.                        *)
StoredError ==
  delivered = NoChild /\ opc \notin {"destroy", "done"} =>
    /\ readyQueue = <<>> => FirstFailure \in {Void, mutex}
    /\ readyQueue # <<>> => \/ Head(readyQueue) = FirstFailure
                            \/ Head(readyQueue) = BodyError /\ bodyError

ErrorInv ==
  /\ ErrorTypes
  /\ Discarding =>
       /\ opc \notin {"destroy", "done"} => thrown = IF bodyError THEN BodyError ELSE Void
       /\ StoredError
       /\ delivered # NoChild => \/ delivered = FirstFailure
                                 \/ delivered = BodyError /\ bodyError
       /\ ThrowsFirstError

(* A set of natural numbers has a least one.                               *)
LEMMA LeastOf ==
  ASSUME NEW T, T \subseteq Nat, T # {}
  PROVE  \E x \in T : \A y \in T : x <= y
<1>1. PICK x \in T : \A y \in T : ~ (<<y, x>> \in OpToRel(<, Nat))
  BY NatLessThanWellFounded, WFMin, Zenon
<1>2. ASSUME NEW y \in T PROVE x <= y
  <2>1. x \in Nat /\ y \in Nat
    OBVIOUS
  <2>2. <<y, x>> \notin OpToRel(<, Nat) /\ <<y, x>> \in Nat \X Nat
    BY <1>1, <2>1, Zenon
  <2>3. ~ (<<y, x>>[1] < <<y, x>>[2])
    BY <2>2, Zenon DEF OpToRel
  <2>4. ~ (y < x)
    BY <2>3
  <2> QED  BY <2>1, <2>4
<1> QED  BY <1>2

FirstIsLeast ==
  /\ Failures = {} => FirstFailure = Void
  /\ Failures # {} => \E k \in Failures : /\ FirstFailure = offered[k]
                                          /\ \A j \in Failures : k <= j

LEMMA FirstOfFailures == ErrorTypes => FirstIsLeast
<1> SUFFICES ASSUME ErrorTypes PROVE FirstIsLeast
  OBVIOUS
<1>1. FirstFailure = IF Failures = {} THEN Void
                     ELSE offered[CHOOSE i \in Failures : \A j \in Failures : i <= j]
  BY DEF FirstFailure, Failures
<1>2. Len(offered) \in Nat
  BY LenProperties DEF ErrorTypes
<1>3. Failures \subseteq Nat
  BY <1>2 DEF Failures
<1>4. Failures # {} => \E i \in Failures : \A j \in Failures : i <= j
  BY <1>3, LeastOf
<1> HIDE DEF Failures
<1> QED  BY <1>1, <1>4 DEF FirstIsLeast

LEMMA FailureTypes ==
  ASSUME ErrorTypes
  PROVE  /\ FirstFailure \in Children \cup {Void}
         /\ FirstFailure \in Children => failed[FirstFailure] /\ Offered(FirstFailure)
         /\ FirstFailure = Void => \A c \in Children : Offered(c) => ~ failed[c]
<1>1. Void \notin Children
  BY ChildrenAssumption
<1>2. \A i \in Failures : /\ i \in 1 .. Len(offered) /\ failed[offered[i]]
                          /\ offered[i] \in Children
  BY ElementOfSeq DEF Failures, ErrorTypes
<1>3. CASE Failures = {}
  <2>1. FirstFailure = Void
    BY <1>3, FirstOfFailures DEF FirstIsLeast
  <2>2. \A c \in Children : Offered(c) => ~ failed[c]
    BY <1>3 DEF Failures, Offered
  <2> QED  BY <1>1, <2>1, <2>2
<1>4. CASE Failures # {}
  <2>1. PICK k \in Failures : FirstFailure = offered[k]
    BY <1>4, FirstOfFailures DEF FirstIsLeast
  <2>2. FirstFailure \in Children /\ failed[FirstFailure] /\ Offered(FirstFailure)
    BY <1>2, <2>1 DEF Offered
  <2> QED  BY <1>1, <2>2
<1> QED  BY <1>3, <1>4

LEMMA NextIsLeast == ErrorTypes' => FirstIsLeast'
BY FirstOfFailures, PTL

(* One more child ends: it is the first failure if there was none.         *)
LEMMA FailureAppended ==
  ASSUME ErrorTypes, ErrorTypes', NEW c \in Children, ~ Offered(c),
         offered' = Append(offered, c), failed' \in {failed, [failed EXCEPT ![c] = TRUE]}
  PROVE  FirstFailure' = IF FirstFailure # Void THEN FirstFailure
                         ELSE IF failed'[c] THEN c ELSE Void
<1> DEFINE n == Len(offered)
<1>1. /\ n \in Nat /\ Len(offered') = n + 1 /\ offered'[n + 1] = c
      /\ \A i \in 1 .. n : offered'[i] = offered[i]
  BY AppendProperties, LenProperties DEF ErrorTypes
<1>2. \A i \in 1 .. n : offered[i] # c /\ offered[i] \in Children
  BY ElementOfSeq DEF Offered, ErrorTypes
<1>3. \A i \in 1 .. n : failed'[offered[i]] = failed[offered[i]]
  BY <1>2 DEF ErrorTypes
<1> HIDE DEF n
<1>4. Failures' = Failures \cup (IF failed'[c] THEN {n + 1} ELSE {})
  <2>1. Failures = {i \in 1 .. n : failed[offered[i]]}
    BY DEF Failures, n
  <2>2. Failures' = {i \in 1 .. n + 1 : failed'[offered'[i]]}
    BY <1>1 DEF Failures
  <2> QED  BY <1>1, <1>3, <2>1, <2>2
<1>5. Failures \subseteq 1 .. n
  BY DEF Failures, n
<1>6. Void \notin Children /\ FirstIsLeast'
  BY ChildrenAssumption, NextIsLeast
<1>7. CASE Failures = {}
  <2>1. FirstFailure = Void
    BY <1>7, FirstOfFailures DEF FirstIsLeast
  <2>2. CASE failed'[c]
    <3>1. Failures' = {n + 1}
      BY <1>4, <1>7, <2>2
    <3>2. FirstFailure' = offered'[n + 1]
      BY <1>6, <3>1 DEF FirstIsLeast
    <3> QED  BY <1>1, <2>1, <2>2, <3>2
  <2>3. CASE ~ failed'[c]
    <3>1. Failures' = {}
      BY <1>4, <1>7, <2>3
    <3> QED  BY <1>6, <2>1, <2>3, <3>1 DEF FirstIsLeast
  <2> QED  BY <2>2, <2>3
<1>8. CASE Failures # {}
  <2>1. PICK k \in Failures : FirstFailure = offered[k] /\ \A j \in Failures : k <= j
    BY <1>8, FirstOfFailures DEF FirstIsLeast
  <2>2. k \in 1 .. n /\ FirstFailure = offered[k] /\ offered[k] \in Children
    BY <1>2, <1>5, <2>1
  <2>3. PICK m \in Failures' : FirstFailure' = offered'[m] /\ \A j \in Failures' : m <= j
    BY <1>4, <1>6, <1>8 DEF FirstIsLeast
  <2>4. m = k
    BY <1>1, <1>4, <1>5, <2>1, <2>2, <2>3
  <2> QED  BY <1>1, <1>6, <2>2, <2>3, <2>4
<1> QED  BY <1>7, <1>8

LEMMA InitErrors == Init => ErrorInv
<1> SUFFICES ASSUME Init PROVE ErrorInv
  OBVIOUS
<1>1. offered = <<>> /\ Len(offered) = 0 /\ offered \in Seq(Children)
  BY EmptySeq DEF Init
<1>2. ErrorTypes
  <2>1. \A c \in Children : ~ Offered(c) /\ c # NoThread
    BY <1>1, ChildrenAssumption DEF Offered
  <2>2. failed \in [Children -> BOOLEAN] /\ bodyError \in BOOLEAN /\ mutex = NoThread
    BY DEF Init
  <2> QED  BY <1>1, <2>1, <2>2 DEF ErrorTypes
<1>3. Failures = {}
  BY <1>1 DEF Failures
<1>4. FirstFailure = Void
  BY <1>2, <1>3, FirstOfFailures DEF FirstIsLeast
<1> QED  BY <1>2, <1>4 DEF Init, ErrorInv, StoredError, ThrowsFirstError

(* Steps that neither end a child nor move an error.                       *)
ErrorQuiet ==
  /\ UNCHANGED <<kind, offered, failed, bodyError>>
  /\ \A c \in Children : Offered(c) => cpc'[c] \notin {"unborn", "running"}
  /\ \/ Accumulating /\ mutex' \in {mutex, NoThread}
     \/ /\ UNCHANGED <<mutex, readyQueue, delivered, thrown>>
        /\ opc' \in {"destroy", "done"} <=> opc \in {"destroy", "done"}

LEMMA QuietKeepsErrors == ErrorInv /\ ErrorQuiet => ErrorInv'
<1> SUFFICES ASSUME ErrorInv, ErrorQuiet PROVE ErrorInv'
  OBVIOUS
<1>1. ErrorTypes'
  BY ChildrenAssumption DEF ErrorInv, ErrorTypes, Offered, ErrorQuiet
<1>2. FirstFailure' = FirstFailure
  BY DEF FirstFailure, ErrorQuiet
<1>3. CASE Accumulating
  <2>1. ~ Discarding'
    BY <1>3 DEF ErrorQuiet, Accumulating, Discarding
  <2> QED  BY <1>1, <2>1 DEF ErrorInv
<1>4. CASE ~ Accumulating
  <2>1. /\ UNCHANGED <<kind, mutex, readyQueue, delivered, thrown, bodyError>>
        /\ opc' \in {"destroy", "done"} <=> opc \in {"destroy", "done"}
    BY <1>4 DEF ErrorQuiet
  <2>2. StoredError' <=> StoredError
    BY <1>2, <2>1 DEF StoredError
  <2>3. ThrowsFirstError' <=> ThrowsFirstError
    BY <1>2, <2>1 DEF ThrowsFirstError, Discarding
  <2> QED  BY <1>1, <1>2, <2>1, <2>2, <2>3 DEF ErrorInv, Discarding
<1> QED  BY <1>3, <1>4

LEMMA OwnerErrorSteps ==
  ASSUME CoreInv, ErrorInv,
         \/ \E c \in Children : AddTask(c) \/ AddTaskUnlessCancelled(c)
         \/ RevertPending \/ CreateChild \/ LinkChild \/ UpdateChild \/ CancelAll \/ BodyReturns
         \/ PollEmpty \/ PollReady \/ PollWait \/ DetachPolled \/ Destroy
         \/ (Resume /\ Accumulating)
         \/ CancelOwner \/ LockRecords \/ UnlockRecords \/ UNCHANGED vars
         \/ \E t \in Threads : Walk(t)
  PROVE  ErrorQuiet
<1>1. UNCHANGED <<kind, offered, failed, cpc, mutex, bodyError>>
  BY DEF AddTask, AddTaskUnlessCancelled, RevertPending, CreateChild, LinkChild, UpdateChild,
         CancelAll, BodyReturns, PollEmpty, PollReady, PollWait, DetachPolled, Destroy, Resume,
         CancelOwner, LockRecords, UnlockRecords, Walk, vars, bodyVars, history
<1>2. \A c \in Children : Offered(c) => cpc'[c] \notin {"unborn", "running"}
  BY <1>1 DEF ErrorInv, ErrorTypes
<1>3. \/ Accumulating
      \/ /\ UNCHANGED <<mutex, readyQueue, delivered, thrown>>
         /\ opc' \in {"destroy", "done"} <=> opc \in {"destroy", "done"}
  <2>1. DetachPolled => Accumulating
    BY DEF DetachPolled, CoreInv, CountInv, GroupTypes, Accumulating, Discarding
  <2> QED
    BY <2>1
    DEF AddTask, AddTaskUnlessCancelled, RevertPending, CreateChild, LinkChild, UpdateChild,
        CancelAll, BodyReturns, PollEmpty, PollReady, PollWait, Destroy, InBody, AtRun,
        CancelOwner, LockRecords, UnlockRecords, Walk, vars, bodyVars, history, queues
<1> QED  BY <1>1, <1>2, <1>3 DEF ErrorQuiet

LEMMA ChildErrorSteps ==
  ASSUME CoreInv, ErrorInv,
         \/ StoreChild
         \/ \E c \in Children : StoreResult(c) \/ CompleteWaiter(c) \/ Wake(c)
  PROVE  ErrorQuiet
<1>1. CASE StoreChild
  <2>1. /\ opc = "store" /\ opc' = "run" /\ cpc' = [cpc EXCEPT ![adding] = "running"]
        /\ UNCHANGED <<kind, offered, failed, bodyError, mutex, readyQueue, delivered, thrown>>
    BY <1>1 DEF StoreChild, queues, bodyVars, history
  <2>2. adding \in Children /\ cpc[adding] = "unborn"
    BY <2>1 DEF CoreInv, GroupTypes, ControlInv, Adding
  <2>3. ~ Offered(adding) /\ \A d \in Children \ {adding} : cpc'[d] = cpc[d]
    BY <2>1, <2>2 DEF ErrorInv, ErrorTypes, CoreInv, GroupTypes
  <2> QED  BY <2>1, <2>3 DEF ErrorQuiet, ErrorInv, ErrorTypes
<1>2. ASSUME NEW c \in Children, StoreResult(c) \/ CompleteWaiter(c) \/ Wake(c)
      PROVE  ErrorQuiet
  <2>1. /\ cpc' \in {[cpc EXCEPT ![c] = "done"], [cpc EXCEPT ![c] = "wake"]}
        /\ UNCHANGED <<kind, offered, failed, bodyError>>
        /\ \/ Accumulating /\ mutex' = NoThread
           \/ /\ UNCHANGED <<mutex, readyQueue, delivered, thrown>>
              /\ cpc[c] = "wake" /\ opc' = "resumed"
    BY <1>2 DEF StoreResult, CompleteWaiter, Wake, Leave, queues, bodyVars, history
  <2>2. cpc'[c] \in {"done", "wake"} /\ \A d \in Children \ {c} : cpc'[d] = cpc[d]
    BY <2>1 DEF CoreInv, GroupTypes
  <2>3. cpc[c] = "wake" => opc = "parked"
    BY DEF CoreInv, ControlInv
  <2> QED  BY <2>1, <2>2, <2>3 DEF ErrorQuiet, ErrorInv, ErrorTypes
<1> QED  BY <1>1, <1>2

(* A child ends while nobody settles a result.                             *)
LEMMA OfferKeepsErrors ==
  ASSUME CoreInv, ErrorInv, NEW c \in Children, OfferReady(c) \/ OfferDiscarding(c)
  PROVE  ErrorInv'
<1>1. /\ cpc[c] = "running" /\ mutex = NoThread /\ mutex' = c
      /\ failed' \in {failed, [failed EXCEPT ![c] = TRUE]} /\ offered' = Append(offered, c)
      /\ UNCHANGED <<kind, readyQueue, delivered, opc, bodyError, thrown>>
      /\ \E where \in {"store", "complete"} : cpc' = [cpc EXCEPT ![c] = where]
  BY DEF OfferReady, OfferDiscarding, Ends, queues, bodyVars
<1>2. cpc'[c] \in {"store", "complete"} /\ \A d \in Children \ {c} : cpc'[d] = cpc[d]
  BY <1>1 DEF CoreInv, GroupTypes
<1>3. ~ Offered(c)
  BY <1>1 DEF ErrorInv, ErrorTypes
<1>4. /\ offered' \in Seq(Children) /\ Len(offered) \in Nat /\ Len(offered') = Len(offered) + 1
      /\ \A i \in 1 .. Len(offered) : offered'[i] = offered[i]
      /\ offered'[Len(offered) + 1] = c
  BY <1>1, AppendProperties, LenProperties DEF ErrorInv, ErrorTypes
<1>5. \A d : Offered(d)' => Offered(d) \/ d = c
  BY <1>4 DEF Offered
<1>6. Offered(c)'
  <2>1. Len(offered) + 1 \in 1 .. Len(offered')
    BY <1>4
  <2> QED  BY <1>4, <2>1 DEF Offered
<1>7. failed' \in [Children -> BOOLEAN]
  BY <1>1 DEF ErrorInv, ErrorTypes
<1>8. ErrorTypes'
  <2>1. \A d \in Children : Offered(d)' => cpc'[d] \notin {"unborn", "running"}
    BY <1>2, <1>5 DEF ErrorInv, ErrorTypes
  <2>2. \A d \in Children : mutex' = d => Offered(d)'
    BY <1>1, <1>6
  <2>3. bodyError' \in BOOLEAN
    BY <1>1 DEF ErrorInv, ErrorTypes
  <2> QED  BY <1>4, <1>7, <2>1, <2>2, <2>3 DEF ErrorTypes
<1>9. FirstFailure' = IF FirstFailure # Void THEN FirstFailure
                      ELSE IF failed'[c] THEN c ELSE Void
  BY <1>1, <1>3, <1>8, FailureAppended DEF ErrorInv
<1>10. CASE Discarding
  <2>1. delivered = NoChild /\ opc \notin {"destroy", "done"}
    <3>1. c \in Counted
      BY <1>1 DEF Counted
    <3>2. status.pending # 0
      BY <3>1, NoneCounted
    <3> QED  BY <1>10, <3>2 DEF CoreInv, CountInv
  <2>2. FirstFailure \in Children \cup {Void}
    BY FailureTypes DEF ErrorInv
  <2>3. Void # NoThread /\ NoThread \notin Children /\ BodyError \notin Children
    BY ChildrenAssumption DEF Void, NoThread
  <2>4. StoredError'
    <3>1. readyQueue = <<>> => FirstFailure = Void
      BY <1>1, <1>10, <2>1, <2>2, <2>3 DEF ErrorInv, StoredError
    <3>2. readyQueue # <<>> => \/ Head(readyQueue) = FirstFailure
                               \/ Head(readyQueue) = BodyError /\ bodyError
      BY <1>10, <2>1 DEF ErrorInv, StoredError
    <3>3. readyQueue # <<>> => Head(readyQueue) # Void
      <4> SUFFICES ASSUME readyQueue # <<>> PROVE Head(readyQueue) # Void
        OBVIOUS
      <4>1. Len(readyQueue) > 0
        BY EmptySeq DEF CoreInv, GroupTypes
      <4>2. Head(readyQueue) \in Children \cup {BodyError}
        BY <4>1, RestOfList DEF CoreInv, GroupTypes
      <4> QED  BY <4>2, ChildrenAssumption DEF Void, BodyError
    <3> QED  BY <1>1, <1>9, <3>1, <3>2, <3>3 DEF StoredError
  <2>5. Discarding'
    BY <1>1, <1>10 DEF Discarding
  <2> QED  BY <1>1, <1>8, <1>10, <2>1, <2>4, <2>5 DEF ErrorInv, ThrowsFirstError
<1>11. CASE ~ Discarding
  BY <1>1, <1>8, <1>11 DEF ErrorInv, Discarding
<1> QED  BY <1>10, <1>11

(* It stores its error, or hands an error to the owner.                    *)
LEMMA SettleKeepsErrors ==
  ASSUME CoreInv, ErrorInv, NEW c \in Children, StoreFirstError(c) \/ CompleteGroup(c)
  PROVE  ErrorInv'
<1>1. /\ Discarding /\ mutex = c /\ mutex' = NoThread /\ cpc[c] \in {"store", "complete"}
      /\ UNCHANGED <<kind, offered, failed, bodyError, opc, thrown>>
      /\ \E next \in {"done", "wake"} : cpc' = [cpc EXCEPT ![c] = next]
  BY DEF StoreFirstError, CompleteGroup, Settles, Leave, bodyVars, history
<1>2. cpc'[c] \in {"done", "wake"} /\ \A d \in Children \ {c} : cpc'[d] = cpc[d]
  BY <1>1 DEF CoreInv, GroupTypes
<1>3. ErrorTypes'
  BY <1>1, <1>2, ChildrenAssumption DEF ErrorInv, ErrorTypes, Offered
<1>4. FirstFailure' = FirstFailure
  BY <1>1 DEF FirstFailure
<1>5. delivered = NoChild /\ opc \notin {"destroy", "done"}
  BY <1>1, ChildrenAssumption DEF CoreInv, CountInv
<1>6. /\ readyQueue = <<>> => FirstFailure = IF failed[c] THEN c ELSE Void
      /\ readyQueue # <<>> => \/ Head(readyQueue) = FirstFailure
                              \/ Head(readyQueue) = BodyError /\ bodyError
  <2>1. Offered(c) /\ c # Void
    BY <1>1, ChildrenAssumption DEF ErrorInv, ErrorTypes
  <2>2. FirstFailure = c => failed[c]
    BY <2>1, FailureTypes DEF ErrorInv
  <2>3. FirstFailure = Void => ~ failed[c]
    BY <2>1, FailureTypes DEF ErrorInv
  <2> QED  BY <1>1, <1>5, <2>1, <2>2, <2>3 DEF ErrorInv, StoredError
<1>7. Discarding'
  BY <1>1 DEF Discarding
<1>8. CASE StoreFirstError(c)
  <2>1. delivered' = delivered
    BY <1>8 DEF StoreFirstError
  <2>2. CASE StoresError(c)
    <3>1. readyQueue' = <<c>> /\ Head(<<c>>) = c /\ <<c>> # <<>>
      BY <1>8, <2>2 DEF StoreFirstError
    <3>2. FirstFailure = c
      BY <1>6, <2>2 DEF StoresError
    <3>3. StoredError'
      BY <1>4, <3>1, <3>2 DEF StoredError
    <3> QED
      BY <1>1, <1>3, <1>5, <1>7, <2>1, <3>3 DEF ErrorInv, ThrowsFirstError
  <2>3. CASE ~ StoresError(c)
    <3>1. readyQueue' = readyQueue
      BY <1>8, <2>3 DEF StoreFirstError
    <3>2. readyQueue = <<>> => FirstFailure = Void
      BY <1>6, <2>3 DEF StoresError
    <3>3. StoredError'
      BY <1>1, <1>4, <1>6, <3>1, <3>2 DEF StoredError
    <3> QED
      BY <1>1, <1>3, <1>5, <1>7, <2>1, <3>3 DEF ErrorInv, ThrowsFirstError
  <2> QED  BY <2>2, <2>3
<1>9. CASE CompleteGroup(c)
  <2>1. delivered' = IF readyQueue # <<>> THEN Head(readyQueue)
                     ELSE IF failed[c] THEN c ELSE Void
    BY <1>9 DEF CompleteGroup
  <2>2. delivered' = FirstFailure \/ (delivered' = BodyError /\ bodyError)
    BY <1>6, <2>1
  <2>3. delivered' # NoChild
    <3>1. CoreInv'
      BY <1>9, CompleteGroupKeepsCore
    <3>2. cpc'[c] = "wake"
      BY <1>9 DEF CompleteGroup, Leave, CoreInv, GroupTypes
    <3> QED  BY <3>1, <3>2 DEF CoreInv, ControlInv
  <2>4. StoredError'
    BY <2>3 DEF StoredError
  <2> QED
    BY <1>1, <1>3, <1>4, <1>5, <1>7, <2>2, <2>4 DEF ErrorInv, ThrowsFirstError
<1> QED  BY <1>8, <1>9

(* The body throws, and waitAll takes what is stored.                      *)
LEMMA EndingKeepsErrors ==
  ASSUME CoreInv, ErrorInv,
         BodyThrows \/ WaitAllEmpty \/ WaitAllPark \/ (Resume /\ ~ Accumulating)
  PROVE  ErrorInv'
<1>1. UNCHANGED <<kind, offered, failed, cpc, mutex>>
  BY DEF BodyThrows, WaitAllEmpty, WaitAllPark, Resume, history
<1>2. bodyError' \in BOOLEAN /\ (bodyError => bodyError')
  BY DEF BodyThrows, WaitAllEmpty, WaitAllPark, Resume, bodyVars, ErrorInv, ErrorTypes
<1>3. ErrorTypes'
  BY <1>1, <1>2 DEF ErrorInv, ErrorTypes, Offered
<1>4. FirstFailure' = FirstFailure
  BY <1>1 DEF FirstFailure
<1>5. (Discarding' <=> Discarding) /\ (Accumulating' <=> Accumulating)
  BY <1>1 DEF Discarding, Accumulating
<1>6. FirstFailure # NoThread /\ BodyError # Void /\ NoThread # Void
  <2>1. FirstFailure \in Children \cup {Void}
    BY FailureTypes DEF ErrorInv
  <2> QED  BY <2>1, ChildrenAssumption DEF Void, NoThread, BodyError
<1>7. CASE BodyThrows
  <2>1. /\ opc = "run" /\ thrown' = BodyError /\ bodyError'
        /\ UNCHANGED <<readyQueue, delivered, opc>>
    BY <1>7 DEF BodyThrows, InBody, AtRun, queues
  <2>2. Discarding => StoredError'
    BY <1>1, <1>4, <2>1 DEF ErrorInv, StoredError
  <2>3. Discarding /\ delivered # NoChild => \/ delivered = FirstFailure
                                             \/ delivered = BodyError /\ bodyError'
    BY <2>1 DEF ErrorInv
  <2> QED  BY <1>3, <1>4, <1>5, <2>1, <2>2, <2>3 DEF ErrorInv, ThrowsFirstError
<1>8. CASE WaitAllEmpty
  <2>1. /\ Discarding /\ mutex = NoThread /\ opc = "run" /\ opc' = "destroy"
        /\ thrown' = IF bodyError THEN BodyError
                     ELSE IF readyQueue = <<>> THEN Void ELSE Head(readyQueue)
        /\ UNCHANGED <<bodyError, delivered>>
    BY <1>8 DEF WaitAllEmpty, AtRun
  <2>2. delivered = NoChild
    BY <2>1 DEF CoreInv, ControlInv
  <2>3. /\ readyQueue = <<>> => FirstFailure = Void
        /\ readyQueue # <<>> => \/ Head(readyQueue) = FirstFailure
                                \/ Head(readyQueue) = BodyError /\ bodyError
    BY <1>6, <2>1, <2>2 DEF ErrorInv, StoredError
  <2>4. ThrowsFirstError'
    BY <1>4, <2>1, <2>3 DEF ThrowsFirstError
  <2>5. StoredError'
    BY <2>1 DEF StoredError
  <2> QED  BY <1>3, <2>1, <2>2, <2>4, <2>5 DEF ErrorInv
<1>9. CASE WaitAllPark
  <2>1. /\ Discarding /\ opc = "run" /\ opc' = "parked"
        /\ readyQueue' = IF bodyError /\ readyQueue = <<>> THEN <<BodyError>> ELSE readyQueue
        /\ UNCHANGED <<bodyError, thrown, delivered>>
    BY <1>9 DEF WaitAllPark, AtRun, bodyVars
  <2>2. delivered = NoChild
    BY <2>1 DEF CoreInv, ControlInv
  <2>3. <<BodyError>> # <<>> /\ Head(<<BodyError>>) = BodyError
    OBVIOUS
  <2>4. StoredError'
    BY <1>1, <1>4, <2>1, <2>2, <2>3 DEF ErrorInv, StoredError
  <2> QED  BY <1>3, <1>5, <2>1, <2>2, <2>4 DEF ErrorInv, ThrowsFirstError
<1>10. CASE Resume /\ ~ Accumulating
  <2>1. /\ Discarding /\ opc = "resumed" /\ opc' = "destroy" /\ delivered' = NoChild
        /\ thrown' = IF delivered = Void THEN thrown ELSE delivered
        /\ UNCHANGED bodyError
    BY <1>10 DEF Resume
  <2>2. delivered # NoChild
    BY <2>1 DEF CoreInv, ControlInv
  <2>3. delivered = FirstFailure \/ (delivered = BodyError /\ bodyError)
    BY <2>1, <2>2 DEF ErrorInv
  <2>4. thrown = IF bodyError THEN BodyError ELSE Void
    BY <2>1 DEF ErrorInv
  <2>5. ThrowsFirstError'
    BY <1>4, <1>6, <2>1, <2>3, <2>4 DEF ThrowsFirstError
  <2>6. StoredError'
    BY <2>1 DEF StoredError
  <2> QED  BY <1>3, <2>1, <2>5, <2>6 DEF ErrorInv
<1> QED  BY <1>7, <1>8, <1>9, <1>10

LEMMA StepErrors == CoreInv /\ ErrorInv /\ [Next]_vars => ErrorInv'
<1> SUFFICES ASSUME CoreInv, ErrorInv, [Next]_vars PROVE ErrorInv'
  OBVIOUS
<1>1. CASE OwnerStep \/ OwnerProgress
  BY <1>1, OwnerErrorSteps, ChildErrorSteps, QuietKeepsErrors, EndingKeepsErrors
  DEF OwnerStep, OwnerProgress, Threads
<1>2. ASSUME NEW c \in Children, ChildStep(c) PROVE ErrorInv'
  BY <1>2, OwnerErrorSteps, ChildErrorSteps, QuietKeepsErrors, OfferKeepsErrors,
     SettleKeepsErrors
  DEF ChildStep, Threads
<1>3. CASE CancelOwner \/ CancellerStep \/ UNCHANGED vars
  BY <1>3, OwnerErrorSteps, QuietKeepsErrors DEF CancellerStep, Threads
<1> QED  BY <1>1, <1>2, <1>3 DEF Next

(* A discarding group whose body returned throws the error of the child    *)
(* that failed first, whichever thread stores it, hands it over or finds   *)
(* it when the owner waits.                                                *)
THEOREM FirstErrorIsThrown == Spec => []ThrowsFirstError
<1>1. ErrorInv => ThrowsFirstError
  BY DEF ErrorInv, ThrowsFirstError
<1> QED
  BY <1>1, InitIInv, StepIInv, InitCore, StepCore, InitErrors, StepErrors, PTL DEF Spec
-----------------------------------------------------------------------------
(* How far the walks have come that nobody disturbs: of the canceller,     *)
(* under the record lock, and of the owner of an accumulating group.       *)
Behind(t, c) == \E i \in 1 .. Len(children) :
                  children[i] = c /\ (cursor[t] = NoChild \/ i < Position(cursor[t]))

WalkTypes ==
  /\ ownerCancelled \in BOOLEAN /\ fresh \in BOOLEAN
  /\ cancelled \in [Children -> BOOLEAN]
  /\ cursor \in [Threads -> Children \cup {NoChild}]
  /\ recordLock \in {NoThread, Owner, Canceller} /\ kpc \in {"idle", "lock", "walk", "done"}

(* Who holds the record lock, and which walks go on.                       *)
LockInv ==
  /\ recordLock = Owner <=> opc \in {"update", "store"}
  /\ recordLock = Canceller <=> kpc = "walk"
  /\ kpc # "idle" => ownerCancelled
  /\ cursor[Owner] # NoChild => opc = "run" /\ status.cancelled
  /\ cursor[Canceller] # NoChild => kpc = "walk" /\ Linked(cursor[Canceller])
  /\ Accumulating /\ cursor[Owner] # NoChild => Linked(cursor[Owner])

(* Whom they have reached, and what the owner has noticed of them in the   *)
(* status it computes for the child it is adding.                          *)
ReachInv ==
  /\ kpc = "walk" => \A c \in Children :
       cpc[c] = "running" /\ Behind(Canceller, c) => cancelled[c]
  /\ Accumulating /\ status.cancelled => \A c \in Children :
       cpc[c] = "running" /\ Behind(Owner, c) => cancelled[c]
  /\ kpc = "done" => \A c \in Children : cpc[c] = "running" => cancelled[c]
  /\ opc = "store" /\ Accumulating /\ status.cancelled => fresh
  /\ opc \in {"update", "store"} /\ kpc \in {"walk", "done"} => fresh

WalkInv == WalkTypes /\ LockInv /\ ReachInv

LEMMA InitWalks == Init => WalkInv
<1> SUFFICES ASSUME Init PROVE WalkInv
  OBVIOUS
<1>1. cursor[Owner] = NoChild /\ cursor[Canceller] = NoChild
  BY DEF Init, Threads
<1>2. Owner # NoThread /\ Canceller # NoThread
  BY DEF Owner, Canceller, NoThread
<1>3. WalkTypes
  BY DEF Init, WalkTypes, Threads
<1>4. LockInv /\ ReachInv
  BY <1>1, <1>2 DEF Init, LockInv, ReachInv
<1> QED  BY <1>3, <1>4 DEF WalkInv

(* A walk that has not begun, or ended, has nobody or everybody behind it. *)
LEMMA BehindAtEnds ==
  ASSUME NEW t, NEW c
  PROVE  cursor[t] = NoChild => (Behind(t, c) <=> Linked(c))
BY DEF Behind, Linked

LEMMA FirstChildFacts ==
  ASSUME LinkInv
  PROVE  /\ FirstChild \in Children \cup {NoChild}
         /\ FirstChild # NoChild => Linked(FirstChild) /\ Position(FirstChild) = 1
         /\ FirstChild = NoChild => \A c : ~ Linked(c)
<1>1. CASE children = <<>>
  <2>1. Len(children) = 0 /\ FirstChild = NoChild
    BY <1>1 DEF FirstChild
  <2> QED  BY <2>1 DEF Linked
<1>2. CASE children # <<>>
  <2>1. Len(children) \in Nat \ {0}
    BY <1>2, EmptySeq DEF LinkInv
  <2>2. 1 \in 1 .. Len(children) /\ Len(children) > 0
    BY <2>1
  <2>3. FirstChild = children[1] /\ children[1] \in Children
    BY <1>2, <2>2, RestOfList DEF FirstChild, LinkInv
  <2>4. Linked(children[1])
    BY <2>2 DEF Linked
  <2>5. Position(children[1]) = 1
    BY <2>2, <2>4, PositionOf DEF LinkInv, NoRepeat
  <2> QED  BY <2>3, <2>4, <2>5, ChildrenAssumption
<1> QED  BY <1>1, <1>2

LEMMA NextChildFacts ==
  ASSUME LinkInv, NEW x \in Children, Linked(x)
  PROVE  /\ NextChild(x) # NoChild => Linked(NextChild(x))
         /\ \A i \in 1 .. Len(children) :
              NextChild(x) = NoChild \/ i < Position(NextChild(x))
              => i < Position(x) \/ children[i] = x
<1>0. Len(children) \in Nat
  BY LenProperties DEF LinkInv
<1>1. Position(x) \in 1 .. Len(children) /\ children[Position(x)] = x
  BY PositionOf
<1>2. CASE Position(x) = Len(children)
  BY <1>0, <1>1, <1>2 DEF NextChild
<1>3. CASE Position(x) # Len(children)
  <2> DEFINE p == Position(x)
             y == children[p + 1]
  <2>1. NextChild(x) = y
    BY <1>3 DEF NextChild
  <2>2. p + 1 \in 1 .. Len(children)
    BY <1>0, <1>1, <1>3
  <2>3. y \in Children /\ Linked(y)
    BY <2>2, ElementOfSeq DEF Linked, LinkInv
  <2>4. Position(y) = p + 1
    BY <2>2, <2>3, PositionOf DEF LinkInv, NoRepeat
  <2>5. y # NoChild
    BY <2>3, ChildrenAssumption
  <2> HIDE DEF y
  <2> QED  BY <1>0, <1>1, <2>1, <2>2, <2>3, <2>4, <2>5
<1> QED  BY <1>2, <1>3

(* Steps that disturb no walk.                                             *)
WalkQuiet ==
  /\ UNCHANGED <<kind, recordLock, kpc, ownerCancelled, fresh>>
  /\ \/ children' = children
     \/ /\ recordLock = NoThread /\ (Accumulating => cursor[Owner] = NoChild)
        /\ \A c : Linked(c)' => Linked(c)
  /\ cursor' \in [Threads -> Children \cup {NoChild}]
  /\ cursor'[Owner] = cursor[Owner] /\ cursor'[Canceller] = cursor[Canceller]
  /\ cancelled' \in [Children -> BOOLEAN]
  /\ \A c \in Children : cpc'[c] = "running" => /\ cpc[c] = "running"
                                                /\ cancelled[c] => cancelled'[c]
  /\ status.cancelled => status'.cancelled
  /\ Accumulating => status'.cancelled = status.cancelled
  /\ \/ opc' = opc
     \/ {opc, opc'} \cap {"update", "store"} = {} /\ cursor[Owner] = NoChild

LEMMA QuietKeepsWalks == WalkInv /\ WalkQuiet => WalkInv'
<1> SUFFICES ASSUME WalkInv, WalkQuiet PROVE WalkInv'
  OBVIOUS
<1>1. WalkTypes'
  BY DEF WalkInv, WalkTypes, WalkQuiet
<1>2. Accumulating' <=> Accumulating
  BY DEF WalkQuiet, Accumulating
<1>3. CASE children' = children
  <2>1. /\ \A c : Linked(c)' <=> Linked(c)
        /\ \A c : Behind(Owner, c)' <=> Behind(Owner, c)
        /\ \A c : Behind(Canceller, c)' <=> Behind(Canceller, c)
    BY <1>3 DEF Linked, Behind, Position, WalkQuiet
  <2>2. LockInv'
    <3>1. cursor'[Canceller] # NoChild => kpc' = "walk" /\ Linked(cursor[Canceller])'
      BY <1>3 DEF WalkInv, LockInv, WalkQuiet, Linked
    <3>2. Accumulating /\ cursor'[Owner] # NoChild => Linked(cursor[Owner])'
      BY <1>3 DEF WalkInv, LockInv, WalkQuiet, Linked
    <3> QED  BY <1>2, <3>1, <3>2 DEF WalkInv, LockInv, WalkQuiet
  <2>3. ReachInv'
    BY <1>2, <2>1 DEF WalkInv, ReachInv, WalkQuiet
  <2> QED  BY <1>1, <2>2, <2>3 DEF WalkInv
<1>4. CASE children' # children
  <2>1. /\ recordLock = NoThread /\ (Accumulating => cursor[Owner] = NoChild)
        /\ \A c : Linked(c)' => Linked(c)
    BY <1>4 DEF WalkQuiet
  <2>2. kpc # "walk" /\ opc \notin {"update", "store"} /\ cursor[Canceller] = NoChild
    BY <2>1 DEF WalkInv, LockInv, Owner, Canceller, NoThread
  <2>3. Accumulating => \A c : Behind(Owner, c)' => Behind(Owner, c)
    BY <2>1 DEF Behind, Linked, WalkQuiet
  <2>4. LockInv'
    BY <1>2, <2>1, <2>2 DEF WalkInv, LockInv, WalkQuiet
  <2>5. ReachInv'
    BY <1>2, <2>2, <2>3 DEF WalkInv, ReachInv, WalkQuiet
  <2> QED  BY <1>1, <2>4, <2>5 DEF WalkInv
<1> QED  BY <1>3, <1>4

LEMMA OwnerQuietWalks ==
  ASSUME CoreInv, LinkInv, WalkInv,
         \/ \E c \in Children : AddTask(c) \/ AddTaskUnlessCancelled(c)
         \/ RevertPending \/ CreateChild \/ BodyReturns \/ PollEmpty \/ PollReady \/ PollWait
         \/ DetachPolled \/ WaitAllEmpty \/ WaitAllPark \/ Resume \/ Destroy \/ UNCHANGED vars
  PROVE  WalkQuiet
<1>1. /\ UNCHANGED <<kind, recordLock, kpc, ownerCancelled, fresh, cpc, cursor>>
      /\ \/ opc' = opc
         \/ /\ {opc, opc'} \cap {"update", "store"} = {}
            /\ opc # "run" \/ cursor[Owner] = NoChild
  BY DEF AddTask, AddTaskUnlessCancelled, RevertPending, CreateChild, BodyReturns, PollEmpty,
         PollReady, PollWait, DetachPolled, WaitAllEmpty, WaitAllPark, Resume, Destroy, vars,
         InBody, AtRun, Detach, lists, addVars
<1>2. opc # "run" => cursor[Owner] = NoChild
  BY DEF WalkInv, LockInv
<1>3. status'.cancelled = status.cancelled
  <2>1. status \in Statuses
    BY DEF CoreInv, GroupTypes
  <2>2. PollReady => status'.cancelled = status.cancelled
    BY <2>1, CompletingCounts DEF PollReady
  <2> QED
    BY <2>1, <2>2
    DEF AddTask, AddTaskUnlessCancelled, AddPending, RevertPending, CreateChild, BodyReturns,
        PollEmpty, PollWait, DetachPolled, WaitAllEmpty, WaitAllPark, Resume, Destroy, vars,
        Statuses
<1>4. \/ children' = children
      \/ /\ recordLock = NoThread /\ (Accumulating => cursor[Owner] = NoChild)
         /\ \A c : Linked(c)' => Linked(c)
  <2>1. CASE DetachPolled \/ WaitAllEmpty
    <3>1. PICK c : Detach(c, NoChild)
      BY <2>1 DEF DetachPolled, WaitAllEmpty
    <3>2. \A x : Linked(x)' => Linked(x)
      BY <3>1, DetachProperties
    <3>3. cursor[Owner] = NoChild
      BY <1>2, <2>1 DEF DetachPolled, WaitAllEmpty, AtRun
    <3> QED  BY <3>1, <3>2, <3>3 DEF Detach
  <2>2. CASE ~ (DetachPolled \/ WaitAllEmpty)
    BY <2>2 DEF AddTask, AddTaskUnlessCancelled, RevertPending, CreateChild, BodyReturns,
                PollEmpty, PollReady, PollWait, WaitAllPark, Resume, Destroy, vars, lists
  <2> QED  BY <2>1, <2>2
<1>5. /\ cancelled' \in [Children -> BOOLEAN]
      /\ \A c \in Children : cpc'[c] = "running" => /\ cpc[c] = "running"
                                                    /\ cancelled[c] => cancelled'[c]
  <2>1. CASE CreateChild
    <3>1. opc = "create"
          /\ cancelled' = [cancelled EXCEPT ![adding] = ownerCancelled \/ status.cancelled]
      BY <2>1 DEF CreateChild
    <3>2. cpc[adding] = "unborn"
      BY <3>1 DEF CoreInv, GroupTypes, ControlInv, Adding
    <3>3. (ownerCancelled \/ status.cancelled) \in BOOLEAN
      OBVIOUS
    <3> QED  BY <1>1, <3>1, <3>2, <3>3 DEF WalkInv, WalkTypes
  <2>2. CASE ~ CreateChild
    <3>1. cancelled' = cancelled
      BY <2>2 DEF AddTask, AddTaskUnlessCancelled, RevertPending, BodyReturns, PollEmpty,
                  PollReady, PollWait, DetachPolled, WaitAllEmpty, WaitAllPark, Resume,
                  Destroy, vars
    <3> QED  BY <1>1, <3>1 DEF WalkInv, WalkTypes
  <2> QED  BY <2>1, <2>2
<1> QED  BY <1>1, <1>2, <1>3, <1>4, <1>5 DEF WalkQuiet, WalkInv, WalkTypes

LEMMA ChildQuietWalks ==
  ASSUME CoreInv, LinkInv, WalkInv, NEW c \in Children, ChildStep(c)
  PROVE  WalkQuiet
<1>1. /\ UNCHANGED <<kind, recordLock, kpc, ownerCancelled, fresh>>
      /\ opc' = opc \/ (cpc[c] = "wake" /\ opc' = "resumed")
  BY DEF ChildStep, OfferReady, OfferDiscarding, StoreResult, StoreFirstError, CompleteWaiter,
         CompleteGroup, Wake, Walk, Leave, Detach, lists, addVars
<1>2. \/ opc' = opc
      \/ {opc, opc'} \cap {"update", "store"} = {} /\ cursor[Owner] = NoChild
  BY <1>1 DEF CoreInv, ControlInv, WalkInv, LockInv
<1>3. /\ status.cancelled => status'.cancelled
      /\ Accumulating => status'.cancelled = status.cancelled
  <2>1. status \in Statuses
    BY DEF CoreInv, GroupTypes
  <2>2. CASE OfferDiscarding(c)
    BY <2>1, <2>2 DEF OfferDiscarding, Statuses, Accumulating, Discarding
  <2>3. CASE CompleteWaiter(c)
    BY <2>1, <2>3, CompletingCounts DEF CompleteWaiter
  <2>4. CASE OfferReady(c)
    BY <2>1, <2>4 DEF OfferReady, Statuses
  <2>5. CASE ~ (OfferReady(c) \/ OfferDiscarding(c) \/ CompleteWaiter(c))
    <3>1. status' = status
      BY <2>5 DEF ChildStep, StoreResult, StoreFirstError, CompleteGroup, Wake, Walk
    <3> QED  BY <3>1
  <2> QED  BY <2>2, <2>3, <2>4, <2>5
<1>4. \/ children' = children
      \/ /\ recordLock = NoThread /\ (Accumulating => cursor[Owner] = NoChild)
         /\ \A x : Linked(x)' => Linked(x)
  <2>1. CASE Detach(c, NoChild) \/ Detach(c, delivered')
    <3>1. PICK d : Detach(c, d)
      BY <2>1
    <3>2. \A x : Linked(x)' => Linked(x)
      BY <3>1, DetachProperties
    <3>3. CompleteWaiter(c) => opc = "parked"
      BY DEF CompleteWaiter, Settles, CoreInv, ControlInv
    <3>4. CASE CompleteWaiter(c) \/ ~ Accumulating
      BY <3>1, <3>2, <3>3, <3>4 DEF Detach, WalkInv, LockInv
    <3>5. CASE ~ CompleteWaiter(c) /\ Accumulating
      <4>1. children' = children
        BY <3>5 DEF ChildStep, OfferReady, OfferDiscarding, StoreResult, StoreFirstError,
                    CompleteGroup, Wake, Walk, lists, Accumulating, Discarding
      <4> QED  BY <4>1
    <3> QED  BY <3>4, <3>5
  <2>2. CASE ~ (Detach(c, NoChild) \/ Detach(c, delivered'))
    BY <2>2 DEF ChildStep, OfferReady, OfferDiscarding, StoreResult, StoreFirstError,
                CompleteWaiter, CompleteGroup, Wake, Walk, lists
  <2> QED  BY <2>1, <2>2
<1>5. /\ cursor' \in [Threads -> Children \cup {NoChild}]
      /\ cursor'[Owner] = cursor[Owner] /\ cursor'[Canceller] = cursor[Canceller]
  <2>1. c # Owner /\ c # Canceller /\ c \in Threads
    BY ChildrenAssumption DEF Threads
  <2>2. cursor' = cursor \/ \E x \in Children \cup {NoChild} :
                              cursor' = [cursor EXCEPT ![c] = x]
    <3>1. CASE OfferDiscarding(c)
      BY <3>1, FirstChildFacts DEF OfferDiscarding
    <3>2. CASE Walk(c)
      <4>1. cursor[c] \in Children
        BY <2>1, <3>2 DEF Walk, WalkInv, WalkTypes
      <4> QED  BY <3>2, <4>1, NextChildType DEF Walk
    <3>3. CASE ~ (OfferDiscarding(c) \/ Walk(c))
      BY <3>3 DEF ChildStep, OfferReady, StoreResult, StoreFirstError, CompleteWaiter,
                  CompleteGroup, Wake, Leave
    <3> QED  BY <3>1, <3>2, <3>3
  <2>3. cursor \in [Threads -> Children \cup {NoChild}]
    BY DEF WalkInv, WalkTypes
  <2>4. CASE cursor' = cursor
    BY <2>3, <2>4
  <2>5. ASSUME NEW x \in Children \cup {NoChild}, cursor' = [cursor EXCEPT ![c] = x]
        PROVE  /\ cursor' \in [Threads -> Children \cup {NoChild}]
               /\ cursor'[Owner] = cursor[Owner] /\ cursor'[Canceller] = cursor[Canceller]
    BY <2>1, <2>3, <2>5 DEF Threads
  <2> QED  BY <2>2, <2>4, <2>5
<1>6. /\ cancelled' \in [Children -> BOOLEAN]
      /\ \A x \in Children : cancelled[x] => cancelled'[x]
  <2>1. CASE Walk(c)
    <3>1. cancelled' = [cancelled EXCEPT ![cursor[c]] = TRUE]
      BY <2>1 DEF Walk
    <3> QED  BY <3>1 DEF WalkInv, WalkTypes
  <2>2. CASE ~ Walk(c)
    <3>1. cancelled' = cancelled
      BY <2>2 DEF ChildStep, OfferReady, OfferDiscarding, StoreResult, StoreFirstError,
                  CompleteWaiter, CompleteGroup, Wake, Leave
    <3> QED  BY <3>1 DEF WalkInv, WalkTypes
  <2> QED  BY <2>1, <2>2
<1>7. \A x \in Children : cpc'[x] = "running" => cpc[x] = "running"
  <2>1. cpc' = cpc \/ \E next \in {"store", "complete", "wake", "done"} :
                        cpc' = [cpc EXCEPT ![c] = next]
    BY DEF ChildStep, OfferReady, OfferDiscarding, StoreResult, StoreFirstError,
           CompleteWaiter, CompleteGroup, Wake, Walk, Leave
  <2> QED  BY <2>1 DEF CoreInv, GroupTypes
<1> QED  BY <1>1, <1>2, <1>3, <1>4, <1>5, <1>6, <1>7 DEF WalkQuiet

(* A child is added under the record lock, and told of what was cancelled. *)
LEMMA AddingKeepsWalks ==
  ASSUME CoreInv, LinkInv, WalkInv, LinkChild \/ UpdateChild \/ StoreChild
  PROVE  WalkInv'
<1>1. opc \in {"link", "update", "store"} /\ cursor[Owner] = NoChild /\ cursor' = cursor
      /\ UNCHANGED <<kind, status, ownerCancelled, kpc>>
  BY DEF LinkChild, UpdateChild, StoreChild, WalkInv, LockInv
<1>2. (Accumulating' <=> Accumulating) /\ Owner # Canceller /\ Owner # NoThread
  BY <1>1 DEF Accumulating, Owner, Canceller, NoThread
<1>3. adding \in Children /\ cpc[adding] = "unborn"
  BY <1>1 DEF CoreInv, GroupTypes, ControlInv, Adding
<1>4. status.cancelled \in BOOLEAN
  BY DEF CoreInv, GroupTypes, Statuses
<1>5. CASE LinkChild
  <2>1. /\ opc = "link" /\ opc' = "update" /\ recordLock = NoThread /\ recordLock' = Owner
        /\ fresh' = ownerCancelled /\ children' = Append(children, adding)
        /\ UNCHANGED <<cpc, cancelled, adding>>
    BY <1>5 DEF LinkChild
  <2>2. kpc # "walk" /\ cursor[Canceller] = NoChild
    BY <2>1 DEF WalkInv, LockInv, Canceller, NoThread
  <2>3. \A c \in Children : Linked(c)' => Linked(c) \/ c = adding
    BY <1>3, <2>1, AppendProperties DEF LinkInv, Linked
  <2>4. \A c \in Children : cpc[c] = "running" /\ Behind(Owner, c)' => Behind(Owner, c)
    BY <1>1, <1>3, <2>3 DEF Behind, Linked
  <2>5. WalkTypes'
    BY <1>1, <2>1 DEF WalkInv, WalkTypes
  <2>6. LockInv'
    BY <1>1, <1>2, <2>1, <2>2 DEF WalkInv, LockInv
  <2>7. ReachInv'
    BY <1>1, <1>2, <2>1, <2>2, <2>4 DEF WalkInv, LockInv, ReachInv
  <2> QED  BY <2>5, <2>6, <2>7 DEF WalkInv
<1>6. CASE UpdateChild
  <2>1. /\ opc = "update" /\ opc' = "store"
        /\ fresh' = (fresh \/ cancelled[adding] \/ status.cancelled)
        /\ UNCHANGED <<cpc, cancelled, children, recordLock>>
    BY <1>6 DEF UpdateChild, lists
  <2>2. /\ fresh' \in BOOLEAN /\ (fresh => fresh') /\ (status.cancelled => fresh')
    BY <2>1
  <2>3. \A t, c : Behind(t, c)' <=> Behind(t, c)
    BY <1>1, <2>1 DEF Behind, Position
  <2>4. WalkTypes'
    BY <1>1, <2>1, <2>2 DEF WalkInv, WalkTypes
  <2>5. LockInv'
    BY <1>1, <1>2, <2>1 DEF WalkInv, LockInv, Linked
  <2>6. ReachInv'
    BY <1>1, <1>2, <2>1, <2>2, <2>3 DEF WalkInv, ReachInv
  <2> QED  BY <2>4, <2>5, <2>6 DEF WalkInv
<1>7. CASE StoreChild
  <2>1. /\ opc = "store" /\ opc' = "run" /\ recordLock' = NoThread /\ fresh' = FALSE
        /\ cancelled' = [cancelled EXCEPT ![adding] = fresh]
        /\ cpc' = [cpc EXCEPT ![adding] = "running"] /\ children' = children
    BY <1>7 DEF StoreChild
  <2>2. recordLock = Owner /\ kpc # "walk" /\ cursor[Canceller] = NoChild
    BY <1>2, <2>1 DEF WalkInv, LockInv
  <2>3. \A t, c : Behind(t, c)' <=> Behind(t, c)
    BY <1>1, <2>1 DEF Behind, Position
  <2>4. /\ cancelled' \in [Children -> BOOLEAN] /\ cancelled'[adding] = fresh
        /\ \A c \in Children \ {adding} : cpc'[c] = cpc[c] /\ cancelled'[c] = cancelled[c]
    BY <1>3, <2>1 DEF CoreInv, GroupTypes, WalkInv, WalkTypes
  <2>5. WalkTypes'
    BY <1>1, <2>1, <2>4 DEF WalkInv, WalkTypes
  <2>6. LockInv'
    BY <1>1, <1>2, <2>1, <2>2, ChildrenAssumption
    DEF WalkInv, LockInv, Canceller, NoThread, Owner
  <2>7. ReachInv'
    <3>1. (Accumulating /\ status.cancelled) \/ kpc = "done" => fresh
      BY <2>1 DEF WalkInv, ReachInv
    <3> QED  BY <1>1, <1>2, <2>1, <2>2, <2>3, <2>4, <3>1 DEF WalkInv, ReachInv
  <2> QED  BY <2>5, <2>6, <2>7 DEF WalkInv
<1> QED  BY <1>5, <1>6, <1>7

(* The owner, or the thread that cancels it, starts a walk at the head of  *)
(* the list.                                                               *)
LEMMA NobodyBehindHead ==
  ASSUME LinkInv, UNCHANGED children, NEW t, cursor'[t] = FirstChild, NEW c
  PROVE  ~ Behind(t, c)'
<1> SUFFICES ASSUME Behind(t, c)' PROVE FALSE
  OBVIOUS
<1>1. PICK i \in 1 .. Len(children) :
        children[i] = c /\ (FirstChild = NoChild \/ i < Position(FirstChild))
  BY DEF Behind, Position
<1>2. FirstChild # NoChild
  BY <1>1, FirstChildFacts DEF Linked
<1> QED  BY <1>1, <1>2, FirstChildFacts, LenProperties DEF LinkInv

LEMMA StartKeepsWalks ==
  ASSUME CoreInv, LinkInv, WalkInv, CancelAll \/ BodyThrows
  PROVE  WalkInv'
<1>1. /\ opc = "run" /\ cursor[Owner] = NoChild
      /\ status' = [status EXCEPT !.cancelled = TRUE]
      /\ cursor' = [cursor EXCEPT ![Owner] = IF status.cancelled THEN NoChild ELSE FirstChild]
      /\ UNCHANGED <<kind, recordLock, children, ownerCancelled, opc, fresh, cpc, cancelled,
                     kpc>>
  BY DEF CancelAll, BodyThrows, StartCancelAll, InBody, AtRun, lists, addVars
<1>2. status'.cancelled = TRUE
  BY <1>1 DEF CoreInv, GroupTypes, Statuses
<1>3. /\ cursor' \in [Threads -> Children \cup {NoChild}]
      /\ cursor'[Owner] = IF status.cancelled THEN NoChild ELSE FirstChild
      /\ cursor'[Canceller] = cursor[Canceller]
  <2>1. Owner \in Threads /\ Canceller \in Threads /\ Owner # Canceller
    BY DEF Threads, Owner, Canceller
  <2>2. cursor \in [Threads -> Children \cup {NoChild}]
    BY DEF WalkInv, WalkTypes
  <2> DEFINE head == IF status.cancelled THEN NoChild ELSE FirstChild
  <2>3. head \in Children \cup {NoChild}
    BY FirstChildFacts
  <2>4. cursor' = [cursor EXCEPT ![Owner] = head]
    BY <1>1
  <2> HIDE DEF head
  <2>5. cursor' \in [Threads -> Children \cup {NoChild}] /\ cursor'[Owner] = head
        /\ cursor'[Canceller] = cursor[Canceller]
    BY <2>1, <2>2, <2>3, <2>4
  <2> QED  BY <2>5 DEF head
<1>4. \A x : Linked(x)' <=> Linked(x)
  BY <1>1 DEF Linked
<1>5. \A c : Behind(Canceller, c)' <=> Behind(Canceller, c)
  BY <1>1, <1>3 DEF Behind, Position
<1>6. \A c : status.cancelled => (Behind(Owner, c)' <=> Behind(Owner, c))
  BY <1>1, <1>3 DEF Behind, Position
<1>7. \A c : ~ status.cancelled => ~ Behind(Owner, c)'
  BY <1>1, <1>3, NobodyBehindHead
<1>8. WalkTypes'
  BY <1>1, <1>3 DEF WalkInv, WalkTypes
<1>9. LockInv'
  <2>1. cursor'[Owner] # NoChild => Linked(cursor'[Owner])
    BY <1>3, FirstChildFacts
  <2>2. cursor[Canceller] # NoChild => Linked(cursor'[Canceller])
    BY <1>3 DEF WalkInv, LockInv
  <2>3. /\ cursor'[Owner] # NoChild => Linked(cursor[Owner])'
        /\ cursor[Canceller] # NoChild => Linked(cursor[Canceller])'
    BY <1>1, <2>1, <2>2 DEF Linked
  <2> QED  BY <1>1, <1>2, <1>3, <2>3 DEF WalkInv, LockInv, Accumulating
<1>10. ReachInv'
  <2>1. status.cancelled => \A c \in Children :
          Accumulating /\ cpc[c] = "running" /\ Behind(Owner, c)' => cancelled[c]
    BY <1>6 DEF WalkInv, ReachInv
  <2>2. Accumulating' <=> Accumulating
    BY <1>1 DEF Accumulating
  <2> QED  BY <1>1, <1>5, <1>7, <2>1, <2>2 DEF WalkInv, ReachInv
<1> QED  BY <1>8, <1>9, <1>10 DEF WalkInv

LEMMA CancellerKeepsWalks ==
  ASSUME CoreInv, LinkInv, WalkInv, CancelOwner \/ LockRecords \/ UnlockRecords
  PROVE  WalkInv'
<1>1. UNCHANGED <<kind, status, children, opc, fresh, cpc, cancelled>>
  BY DEF CancelOwner, LockRecords, UnlockRecords, lists, addVars
<1>2. /\ \A x : Linked(x)' <=> Linked(x)
      /\ Accumulating' <=> Accumulating
      /\ Owner # Canceller /\ Owner # NoThread /\ Canceller # NoThread
      /\ Owner \in Threads /\ Canceller \in Threads
  BY <1>1 DEF Linked, Accumulating, Owner, Canceller, NoThread, Threads
<1>3. CASE CancelOwner
  <2>1. /\ kpc = "idle" /\ ownerCancelled' = TRUE /\ UNCHANGED <<recordLock, cursor>>
        /\ kpc' = IF opc = "done" THEN "done" ELSE "lock"
    BY <1>3 DEF CancelOwner, lists
  <2>2. \A c : Behind(Owner, c)' <=> Behind(Owner, c)
    BY <1>1, <2>1 DEF Behind, Position
  <2>3. opc = "done" => \A c \in Children : cpc[c] # "running"
    BY NoneCounted DEF CoreInv, CountInv, Counted
  <2>4. WalkTypes'
    BY <1>1, <2>1 DEF WalkInv, WalkTypes
  <2>5. cursor[Owner] # NoChild => (Linked(cursor[Owner]) <=> Linked(cursor[Owner])')
    BY <1>1, <2>1 DEF Linked
  <2>6. LockInv'
    BY <1>1, <1>2, <2>1, <2>5 DEF WalkInv, LockInv
  <2>7. ReachInv'
    BY <1>1, <1>2, <2>1, <2>2, <2>3 DEF WalkInv, ReachInv
  <2> QED  BY <2>4, <2>6, <2>7 DEF WalkInv
<1>4. CASE LockRecords
  <2> DEFINE head == IF opc = "done" THEN NoChild ELSE FirstChild
  <2>1. /\ kpc = "lock" /\ recordLock = NoThread /\ recordLock' = Canceller /\ kpc' = "walk"
        /\ cursor' = [cursor EXCEPT ![Canceller] = head] /\ UNCHANGED ownerCancelled
    BY <1>4 DEF LockRecords
  <2>2. head \in Children \cup {NoChild} /\ (head # NoChild => Linked(head))
    BY FirstChildFacts
  <2>3. /\ cursor' \in [Threads -> Children \cup {NoChild}] /\ cursor'[Canceller] = head
        /\ cursor'[Owner] = cursor[Owner]
    <3> HIDE DEF head
    <3>1. cursor \in [Threads -> Children \cup {NoChild}]
      BY DEF WalkInv, WalkTypes
    <3> QED  BY <1>2, <2>1, <2>2, <3>1
  <2>4. \A c : Behind(Owner, c)' <=> Behind(Owner, c)
    BY <1>1, <2>3 DEF Behind, Position
  <2>5. ASSUME NEW c \in Children, cpc[c] = "running" PROVE ~ Behind(Canceller, c)'
    <3>1. opc # "done"
      BY <2>5, NoneCounted DEF CoreInv, CountInv, Counted
    <3> QED  BY <1>1, <2>3, <3>1, NobodyBehindHead
  <2>6. opc \notin {"update", "store"}
    BY <1>2, <2>1 DEF WalkInv, LockInv
  <2>7. WalkTypes'
    BY <1>1, <2>1, <2>3 DEF WalkInv, WalkTypes
  <2>8. LockInv'
    <3>1. /\ cursor'[Canceller] # NoChild => Linked(cursor[Canceller])'
          /\ Accumulating /\ cursor[Owner] # NoChild => Linked(cursor[Owner])'
      BY <1>1, <2>2, <2>3 DEF Linked, WalkInv, LockInv
    <3> HIDE DEF head
    <3> QED  BY <1>1, <1>2, <2>1, <2>3, <2>6, <3>1 DEF WalkInv, LockInv
  <2>9. ReachInv'
    <3> HIDE DEF head
    <3> QED  BY <1>1, <1>2, <2>1, <2>4, <2>5, <2>6 DEF WalkInv, ReachInv
  <2> QED  BY <2>7, <2>8, <2>9 DEF WalkInv
<1>5. CASE UnlockRecords
  <2>1. /\ kpc = "walk" /\ cursor[Canceller] = NoChild /\ recordLock' = NoThread
        /\ kpc' = "done" /\ UNCHANGED <<ownerCancelled, cursor>>
    BY <1>5 DEF UnlockRecords
  <2>2. \A c : Behind(Owner, c)' <=> Behind(Owner, c)
    BY <1>1, <2>1 DEF Behind, Position
  <2>3. recordLock = Canceller /\ opc \notin {"update", "store"}
    BY <1>2, <2>1 DEF WalkInv, LockInv
  <2>4. \A c \in Children : cpc[c] = "running" => cancelled[c]
    BY <2>1, BehindAtEnds DEF WalkInv, ReachInv, LinkInv, Walked
  <2>5. WalkTypes'
    BY <1>1, <2>1 DEF WalkInv, WalkTypes
  <2>6. LockInv'
    <3>1. Accumulating /\ cursor[Owner] # NoChild => Linked(cursor[Owner])'
      BY <1>1, <2>1 DEF Linked, WalkInv, LockInv
    <3> QED  BY <1>1, <1>2, <2>1, <2>3, <3>1 DEF WalkInv, LockInv
  <2>7. ReachInv'
    BY <1>1, <1>2, <2>1, <2>2, <2>3, <2>4 DEF WalkInv, ReachInv
  <2> QED  BY <2>5, <2>6, <2>7 DEF WalkInv
<1> QED  BY <1>3, <1>4, <1>5

(* A walk leaves one more child behind, cancelled.                         *)
LEMMA WalkingKeepsWalks ==
  ASSUME CoreInv, LinkInv, WalkInv, NEW t \in {Owner, Canceller}, Walk(t)
  PROVE  WalkInv'
<1> DEFINE x == cursor[t]
           y == NextChild(x)
<1>1. /\ x # NoChild /\ cancelled' = [cancelled EXCEPT ![x] = TRUE]
      /\ cursor' = [cursor EXCEPT ![t] = y]
      /\ UNCHANGED <<kind, status, children, recordLock, ownerCancelled, opc, fresh, cpc, kpc>>
  BY DEF Walk, lists, addVars
<1>2. /\ cursor \in [Threads -> Children \cup {NoChild}] /\ t \in Threads /\ x \in Children
      /\ Owner # Canceller /\ Owner \in Threads /\ Canceller \in Threads
  BY <1>1 DEF WalkInv, WalkTypes, Threads, Owner, Canceller
<1>3. y \in Children \cup {NoChild}
  BY <1>2, NextChildType
<1> HIDE DEF y
<1>4. /\ cursor' \in [Threads -> Children \cup {NoChild}] /\ cursor'[t] = y
      /\ \A u \in Threads \ {t} : cursor'[u] = cursor[u]
  BY <1>1, <1>2, <1>3
<1>5. /\ cancelled' \in [Children -> BOOLEAN] /\ cancelled'[x]
      /\ \A c \in Children : cancelled[c] => cancelled'[c]
  BY <1>1, <1>2 DEF WalkInv, WalkTypes
<1>6. (Accumulating' <=> Accumulating) /\ \A c : Linked(c)' <=> Linked(c)
  BY <1>1 DEF Accumulating, Linked
<1>7. \A u \in Threads \ {t} : \A c : Behind(u, c)' <=> Behind(u, c)
  BY <1>1, <1>4 DEF Behind, Position
<1>8. ASSUME Linked(x)
      PROVE  /\ y # NoChild => Linked(y)
             /\ \A c : Behind(t, c)' => Behind(t, c) \/ c = x
  <2>1. /\ y # NoChild => Linked(y)
        /\ \A i \in 1 .. Len(children) :
             y = NoChild \/ i < Position(y) => i < Position(x) \/ children[i] = x
    BY <1>2, <1>8, NextChildFacts DEF y
  <2>2. ASSUME NEW c, Behind(t, c)' PROVE Behind(t, c) \/ c = x
    <3>1. PICK i \in 1 .. Len(children) : /\ children[i] = c
                                          /\ y = NoChild \/ i < Position(y)
      BY <1>1, <1>4, <2>2 DEF Behind, Position
    <3> QED  BY <2>1, <3>1 DEF Behind
  <2> QED  BY <2>1, <2>2
<1>9. (t = Owner => Accumulating) => Linked(x)
  BY <1>1 DEF WalkInv, LockInv
<1>10. WalkTypes'
  BY <1>1, <1>4, <1>5 DEF WalkInv, WalkTypes
<1>11. LockInv'
  <2>1. y # NoChild /\ (t = Owner => Accumulating) => Linked(y)
    BY <1>8, <1>9
  <2>2. CASE t = Owner
    <3>1. /\ cursor[Canceller] # NoChild => Linked(cursor[Canceller])'
          /\ y # NoChild /\ Accumulating => Linked(cursor[Owner])'
      BY <1>1, <1>2, <1>4, <2>1, <2>2 DEF WalkInv, LockInv, Linked
    <3>2. opc = "run" /\ status.cancelled
      BY <1>1, <2>2 DEF WalkInv, LockInv
    <3> QED  BY <1>1, <1>2, <1>4, <1>6, <2>2, <3>1, <3>2 DEF WalkInv, LockInv
  <2>3. CASE t = Canceller
    <3>1. /\ y # NoChild => Linked(cursor[Canceller])'
          /\ cursor[Owner] # NoChild /\ Accumulating => Linked(cursor[Owner])'
      BY <1>1, <1>2, <1>4, <2>1, <2>3 DEF WalkInv, LockInv, Linked
    <3>2. kpc = "walk"
      BY <1>1, <2>3 DEF WalkInv, LockInv
    <3> QED  BY <1>1, <1>2, <1>4, <1>6, <2>3, <3>1, <3>2 DEF WalkInv, LockInv
  <2> QED  BY <2>2, <2>3
<1>12. ReachInv'
  <2>1. kpc = "walk" => \A c \in Children :
          cpc[c] = "running" /\ Behind(Canceller, c)' => cancelled'[c]
    BY <1>2, <1>5, <1>7, <1>8, <1>9 DEF WalkInv, ReachInv
  <2>2. Accumulating /\ status.cancelled => \A c \in Children :
          cpc[c] = "running" /\ Behind(Owner, c)' => cancelled'[c]
    BY <1>2, <1>5, <1>7, <1>8, <1>9 DEF WalkInv, ReachInv
  <2> QED  BY <1>1, <1>5, <1>6, <2>1, <2>2 DEF WalkInv, ReachInv
<1> QED  BY <1>10, <1>11, <1>12 DEF WalkInv

LEMMA StepWalks == CoreInv /\ LinkInv /\ WalkInv /\ [Next]_vars => WalkInv'
<1> SUFFICES ASSUME CoreInv, LinkInv, WalkInv, [Next]_vars PROVE WalkInv'
  OBVIOUS
<1>1. CASE OwnerStep \/ OwnerProgress
  BY <1>1, OwnerQuietWalks, QuietKeepsWalks, AddingKeepsWalks, StartKeepsWalks,
     WalkingKeepsWalks
  DEF OwnerStep, OwnerProgress
<1>2. ASSUME NEW c \in Children, ChildStep(c) PROVE WalkInv'
  BY <1>2, ChildQuietWalks, QuietKeepsWalks
<1>3. CASE CancelOwner \/ CancellerStep \/ UNCHANGED vars
  BY <1>3, OwnerQuietWalks, QuietKeepsWalks, CancellerKeepsWalks, WalkingKeepsWalks
  DEF CancellerStep
<1> QED  BY <1>1, <1>2, <1>3 DEF Next

(* Whoever cancels the owner, or the accumulating group, and has come to   *)
(* the end of the list has cancelled every child that runs, also one that  *)
(* was being added meanwhile.                                              *)
THEOREM EveryChildIsCancelled == Spec => []CancellationReachesChildren
<1>1. LinkInv /\ WalkInv => CancellationReachesChildren
  <2> SUFFICES ASSUME LinkInv, WalkInv,
                      \/ ownerCancelled /\ kpc = "done"
                      \/ Accumulating /\ status.cancelled /\ cursor[Owner] = NoChild,
                      NEW c \in Children, cpc[c] = "running"
               PROVE  cancelled[c]
    BY DEF CancellationReachesChildren
  <2>1. Linked(c)
    BY DEF LinkInv, Walked
  <2> QED  BY <2>1, BehindAtEnds DEF WalkInv, ReachInv
<1> QED
  BY <1>1, InitIInv, StepIInv, InitCore, StepCore, InitLinks, StepLinks, InitWalks, StepWalks,
     PTL DEF Spec
=============================================================================
