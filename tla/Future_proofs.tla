---------------------------- MODULE Future_proofs ----------------------------
(***************************************************************************)
(* Every waiter of a future is on one list exactly while it sleeps, goes   *)
(* on with the outcome of the task, and finds the task, and the buffer of  *)
(* an async let, in memory: for any number of waiters, waits and visitors. *)
(***************************************************************************)
EXTENDS Future, FiniteSetTheorems, TLAPS

Outcomes == {"Executing", "Success", "Error"}

Queues == [status : Outcomes, tasks : Seq(Waiters)]

Places == {"idle", "load", "suspend", "push", "parked", "unsuspend", "completed", "enqueued",
           "returned", "cleanUp", "destroy", "over"}

Results == [Waiters -> Outcomes \cup {"none"}]

TypeInv ==
  /\ queue \in Queues /\ seen \in [Waiters -> Queues]
  /\ waking \in Seq(Waiters)
  /\ cpc \in {"running", "group", "wake", "enqueue", "done"}
  /\ wpc \in [Waiters -> Places]
  /\ result \in Results

Ended == queue.status # "Executing"

Elements(list) == {list[i] : i \in DOMAIN list}
NoRepeat(list) == \A i, j \in DOMAIN list : list[i] = list[j] => i = j

(* The list of the future is in use until the task has ended, the list of  *)
(* those to be woken after that; who is on it is asleep.                   *)
ListInv ==
  /\ cpc = "running" <=> ~ Ended
  /\ IF Ended THEN queue.tasks = <<>> ELSE waking = <<>>
  /\ NoRepeat(queue.tasks) /\ NoRepeat(waking)
  /\ \A w \in Waiters :
       wpc[w] = "parked" <=> w \in Elements(queue.tasks) \cup Elements(waking)

SeenInv ==
  \A w \in Waiters : wpc[w] \in {"suspend", "push"} => seen[w].status = "Executing"

OutcomeInv ==
  /\ cpc = "enqueue" => waking # <<>> /\ result[Head(waking)] = queue.status
  /\ \A w \in Waiters :
       wpc[w] \in {"unsuspend", "completed", "enqueued", "returned"} => Ended
  /\ OutcomeDelivered

IInv == TypeInv /\ ListInv /\ SeenInv /\ OutcomeInv

-----------------------------------------------------------------------------
(* Lists of waiters.                                                       *)

LEMMA PushedList ==
  ASSUME NEW list \in Seq(Waiters), NEW w \in Waiters, NoRepeat(list), w \notin Elements(list)
  PROVE  /\ <<w>> \o list \in Seq(Waiters)
         /\ NoRepeat(<<w>> \o list)
         /\ Elements(<<w>> \o list) = {w} \cup Elements(list)
<1> DEFINE longer == <<w>> \o list
<1>1. longer \in Seq(Waiters) /\ Len(longer) = Len(list) + 1
  OBVIOUS
<1>2. longer[1] = w /\ \A i \in 1 .. Len(list) : longer[i + 1] = list[i]
  OBVIOUS
<1>3. DOMAIN longer = 1 .. Len(list) + 1 /\ DOMAIN list = 1 .. Len(list) /\ Len(list) \in Nat
  BY <1>1
<1>4. \A i \in 2 .. Len(list) + 1 : i - 1 \in 1 .. Len(list) /\ longer[i] = list[i - 1]
  BY <1>2, <1>3
<1> HIDE DEF longer
<1>5. NoRepeat(longer)
  <2>1. \A i \in 1 .. Len(list) : list[i] # w
    BY <1>3 DEF Elements
  <2>2. \A i, j \in 2 .. Len(list) + 1 : longer[i] = longer[j] => i = j
    BY <1>3, <1>4 DEF NoRepeat
  <2>3. \A i \in 2 .. Len(list) + 1 : longer[i] # longer[1]
    BY <1>2, <1>4, <2>1
  <2>4. \A i \in DOMAIN longer : i = 1 \/ i \in 2 .. Len(list) + 1
    BY <1>3
  <2> QED BY <2>2, <2>3, <2>4 DEF NoRepeat
<1>6. Elements(longer) = {w} \cup Elements(list)
  <2>1. ASSUME NEW x \in Elements(longer) PROVE x \in {w} \cup Elements(list)
    <3>1. PICK i \in 1 .. Len(list) + 1 : x = longer[i]
      BY <1>3, <2>1 DEF Elements
    <3> QED BY <1>2, <1>3, <1>4, <3>1 DEF Elements
  <2>2. ASSUME NEW x \in Elements(list) PROVE x \in Elements(longer)
    <3>1. PICK i \in 1 .. Len(list) : x = list[i]
      BY <1>3, <2>2 DEF Elements
    <3>2. i + 1 \in DOMAIN longer /\ longer[i + 1] = x
      BY <1>2, <1>3, <3>1
    <3> QED BY <3>2 DEF Elements
  <2>3. w \in Elements(longer)
    BY <1>2, <1>3 DEF Elements
  <2> QED BY <2>1, <2>2, <2>3
<1> QED
  BY <1>1, <1>5, <1>6 DEF longer

LEMMA PoppedList ==
  ASSUME NEW list \in Seq(Waiters), list # <<>>, NoRepeat(list)
  PROVE  /\ Head(list) \in Waiters /\ Tail(list) \in Seq(Waiters)
         /\ NoRepeat(Tail(list))
         /\ Elements(Tail(list)) = Elements(list) \ {Head(list)}
<1> DEFINE shorter == Tail(list)
<1>1. Head(list) = list[1] /\ list[1] \in Waiters /\ shorter \in Seq(Waiters) /\ Len(list) \in Nat \ {0}
  OBVIOUS
<1>2. DOMAIN shorter = 1 .. Len(list) - 1 /\ DOMAIN list = 1 .. Len(list)
  BY <1>1
<1>3. \A i \in 1 .. Len(list) - 1 : i + 1 \in 1 .. Len(list) /\ shorter[i] = list[i + 1]
  BY <1>1
<1>4. \A i \in 2 .. Len(list) : i - 1 \in 1 .. Len(list) - 1 /\ shorter[i - 1] = list[i]
  BY <1>1, <1>3
<1> HIDE DEF shorter
<1>5. NoRepeat(shorter)
  <2> SUFFICES ASSUME NEW i \in 1 .. Len(list) - 1, NEW j \in 1 .. Len(list) - 1,
                      shorter[i] = shorter[j]
               PROVE  i = j
    BY <1>2 DEF NoRepeat
  <2>1. i + 1 = j + 1
    BY <1>2, <1>3 DEF NoRepeat
  <2> QED BY <2>1
<1>6. Elements(shorter) = Elements(list) \ {list[1]}
  <2>1. ASSUME NEW x \in Elements(shorter) PROVE x \in Elements(list) \ {list[1]}
    <3>1. PICK i \in 1 .. Len(list) - 1 : x = shorter[i]
      BY <1>2, <2>1 DEF Elements
    <3>2. i + 1 \in DOMAIN list /\ 1 \in DOMAIN list /\ i + 1 # 1 /\ x = list[i + 1]
      BY <1>1, <1>2, <1>3, <3>1
    <3> QED BY <3>2 DEF Elements, NoRepeat
  <2>2. ASSUME NEW x \in Elements(list), x # list[1] PROVE x \in Elements(shorter)
    <3>1. PICK i \in 1 .. Len(list) : x = list[i]
      BY <1>2, <2>2 DEF Elements
    <3>2. i \in 2 .. Len(list)
      BY <1>1, <2>2, <3>1
    <3>3. i - 1 \in DOMAIN shorter /\ shorter[i - 1] = x
      BY <1>2, <1>4, <3>1, <3>2
    <3> QED BY <3>3 DEF Elements
  <2> QED BY <2>1, <2>2
<1> QED
  BY <1>1, <1>5, <1>6 DEF shorter

LEMMA InitIInv == Init => IInv
<1> SUFFICES ASSUME Init PROVE IInv
  OBVIOUS
<1>1. TypeInv
  BY DEF Init, TypeInv, Queues, Outcomes, Places, Results
<1>2. Elements(queue.tasks) = {} /\ Elements(waking) = {} /\ NoRepeat(queue.tasks) /\ NoRepeat(waking)
  BY DEF Init, Elements, NoRepeat
<1>3. ListInv
  BY <1>2 DEF Init, ListInv, Ended
<1>4. SeenInv /\ OutcomeInv
  BY DEF Init, SeenInv, OutcomeInv, OutcomeDelivered
<1> QED
  BY <1>1, <1>3, <1>4 DEF IInv

-----------------------------------------------------------------------------
(* The steps of a waiter that neither goes to sleep nor is woken.          *)

LEMMA AwakeStep ==
  ASSUME IInv, NEW w \in Waiters, NEW where \in Places,
         UNCHANGED <<queue, waking, cpc>>,
         wpc' = [wpc EXCEPT ![w] = where], result' \in Results,
         wpc[w] # "parked", where # "parked",
         where \in {"unsuspend", "completed", "enqueued", "returned"} => Ended,
         where \in {"enqueued", "returned"} => result'[w] = queue.status,
         \A u \in Waiters \ {w} : result'[u] = result[u],
         \/ /\ seen' = [seen EXCEPT ![w] = queue]
            /\ where \in {"suspend", "push"} => ~ Ended
         \/ /\ seen' = seen
            /\ where = "push" => wpc[w] = "suspend"
            /\ where # "suspend"
  PROVE  IInv'
<1>1. TypeInv'
  BY DEF IInv, TypeInv
<1>2. wpc'[w] = where /\ \A u \in Waiters \ {w} : wpc'[u] = wpc[u]
  BY DEF IInv, TypeInv
<1>3. ListInv'
  BY <1>2 DEF IInv, ListInv, Ended
<1>4. cpc = "enqueue" => Head(waking) \in Waiters \ {w}
  <2> SUFFICES ASSUME cpc = "enqueue" PROVE Head(waking) \in Waiters \ {w}
    OBVIOUS
  <2>1. waking \in Seq(Waiters) /\ waking # <<>>
    BY DEF IInv, TypeInv, OutcomeInv
  <2>2. Head(waking) \in Elements(waking) /\ Head(waking) \in Waiters
    BY <2>1 DEF Elements
  <2> QED
    BY <2>2 DEF IInv, ListInv
<1>5. OutcomeInv'
  BY <1>2, <1>4 DEF IInv, OutcomeInv, OutcomeDelivered, Ended
<1>6. SeenInv'
  BY <1>2 DEF IInv, TypeInv, SeenInv, Ended
<1> QED
  BY <1>1, <1>3, <1>5, <1>6 DEF IInv

LEMMA Still ==
  ASSUME IInv, UNCHANGED <<queue, waking, cpc, wpc, result, seen>>
  PROVE  IInv'
BY DEF IInv, TypeInv, ListInv, SeenInv, OutcomeInv, OutcomeDelivered, Ended

LEMMA WaiterSteps ==
  ASSUME IInv, NEW w \in Waiters,
         \/ Await(w) \/ DropHandle(w) \/ Load(w) \/ Suspend(w) \/ Retry(w) \/ Unsuspend(w)
         \/ Completed(w) \/ Resume(w) \/ Return(w)
  PROVE  IInv'
<1>a. wpc \in [Waiters -> Places] /\ result \in Results /\ queue.status \in Outcomes
  BY DEF IInv, TypeInv, Queues
<1>1. CASE Await(w)
  BY <1>1, <1>a, AwakeStep DEF Places, Results, Await, Wait, At, Goto, taskVars
<1>2. CASE DropHandle(w)
  BY <1>2, <1>a, AwakeStep DEF Places, Results, DropHandle, At, Goto, taskVars
<1>3. CASE Load(w)
  <2>1. wpc' = [wpc EXCEPT ![w] = IF Ended THEN "completed" ELSE "suspend"]
    BY <1>3 DEF Load, Goto, Ended
  <2>2. UNCHANGED <<queue, waking, cpc, result>> /\ wpc[w] = "load"
        /\ seen' = [seen EXCEPT ![w] = queue]
    BY <1>3 DEF Load, At, taskVars
  <2>3. CASE Ended
    <3>1. wpc' = [wpc EXCEPT ![w] = "completed"]
      BY <2>1, <2>3
    <3> QED BY <2>2, <2>3, <3>1, <1>a, AwakeStep DEF Places
  <2>4. CASE ~ Ended
    <3>1. wpc' = [wpc EXCEPT ![w] = "suspend"]
      BY <2>1, <2>4
    <3> QED BY <2>2, <2>4, <3>1, <1>a, AwakeStep DEF Places
  <2> QED BY <2>3, <2>4
<1>4. CASE Suspend(w)
  BY <1>4, <1>a, AwakeStep DEF Places, Results, Suspend, At, Goto, taskVars, waiterVars
<1>5. CASE Retry(w)
  <2>1. wpc' = [wpc EXCEPT ![w] = IF Ended THEN "unsuspend" ELSE "push"]
    BY <1>5 DEF Retry, Goto, Ended
  <2>2. UNCHANGED <<queue, waking, cpc, result>> /\ wpc[w] = "push"
        /\ seen' = [seen EXCEPT ![w] = queue]
    BY <1>5 DEF Retry, At, taskVars
  <2>3. CASE Ended
    <3>1. wpc' = [wpc EXCEPT ![w] = "unsuspend"]
      BY <2>1, <2>3
    <3> QED BY <2>2, <2>3, <3>1, <1>a, AwakeStep DEF Places
  <2>4. CASE ~ Ended
    <3>1. wpc' = [wpc EXCEPT ![w] = "push"]
      BY <2>1, <2>4
    <3> QED BY <2>2, <2>4, <3>1, <1>a, AwakeStep DEF Places
  <2> QED BY <2>3, <2>4
<1>6. CASE Unsuspend(w)
  <2>1. Ended
    BY <1>6 DEF IInv, OutcomeInv, Unsuspend, At
  <2> QED BY <1>6, <2>1, <1>a, AwakeStep DEF Places, Results, Unsuspend, At, Goto, taskVars
<1>7. CASE Completed(w)
  <2>1. Ended /\ wpc[w] = "completed"
    BY <1>7 DEF IInv, OutcomeInv, Completed, At
  <2>2. result' = [result EXCEPT ![w] = queue.status] /\ wpc' = [wpc EXCEPT ![w] = "returned"]
        /\ UNCHANGED <<queue, waking, cpc, seen>>
    BY <1>7 DEF Completed, Deliver, Goto, taskVars
  <2> QED BY <2>1, <2>2, <1>a, AwakeStep DEF Places, Results
<1>8. CASE Resume(w)
  <2>1. Ended /\ wpc[w] = "enqueued" /\ result[w] = queue.status
    BY <1>8 DEF IInv, OutcomeInv, OutcomeDelivered, Resume, At
  <2> QED BY <1>8, <2>1, <1>a, AwakeStep DEF Places, Results, Resume, At, Goto, taskVars
<1>9. CASE Return(w)
  <2>1. wpc' = [wpc EXCEPT ![w] = IF op[w] = "value" THEN "idle" ELSE "cleanUp"]
    BY <1>9 DEF Return, Goto
  <2>2. UNCHANGED <<queue, waking, cpc, result, seen>> /\ wpc[w] = "returned"
    BY <1>9 DEF Return, At, taskVars
  <2> QED BY <2>1, <2>2, <1>a, AwakeStep DEF Places, Results
<1> QED
  BY <1>1, <1>2, <1>3, <1>4, <1>5, <1>6, <1>7, <1>8, <1>9

LEMMA ParentSteps ==
  ASSUME IInv, ParentStep
  PROVE  IInv'
<1>a. wpc \in [Waiters -> Places] /\ result \in Results /\ Parent \in Waiters
  BY ParentAssumption DEF IInv, TypeInv
<1>1. CASE Get
  BY <1>1, <1>a, AwakeStep DEF Places, Results, Get, Wait, At, Goto, taskVars
<1>2. CASE Finish
  <2>1. UNCHANGED <<queue, waking, cpc, seen>> /\ wpc[Parent] = "idle"
    BY <1>2 DEF Finish, At
  <2>2. CASE hasResult
    BY <1>2, <1>a, <2>1, <2>2, AwakeStep DEF Places, Results, Finish, Goto
  <2>3. CASE ~ hasResult
    BY <1>2, <1>a, <2>1, <2>3, AwakeStep DEF Places, Results, Finish, Wait, Goto
  <2> QED BY <2>2, <2>3
<1>3. CASE Consume
  <2>1. UNCHANGED <<queue, waking, cpc, seen>> /\ wpc[Parent] = "idle"
    BY <1>3 DEF Consume, At, taskVars
  <2>2. CASE hasResult
    BY <1>3, <1>a, <2>1, <2>2, AwakeStep DEF Places, Results, Consume, Goto
  <2>3. CASE ~ hasResult
    BY <1>3, <1>a, <2>1, <2>3, AwakeStep DEF Places, Results, Consume, Wait, Goto
  <2> QED BY <2>2, <2>3
<1>4. CASE ReturnFromGet
  BY <1>4, <1>a, AwakeStep DEF Places, Results, ReturnFromGet, At, Goto, taskVars
<1>5. CASE ReturnFromFinish
  BY <1>5, <1>a, AwakeStep DEF Places, Results, ReturnFromFinish, At, Goto, taskVars
<1>6. CASE RemoveRecord
  BY <1>6, <1>a, AwakeStep DEF Places, Results, RemoveRecord, At, Goto, taskVars
<1>7. CASE Destroy
  BY <1>7, <1>a, AwakeStep DEF Places, Results, Destroy, At, Goto
<1> QED
  BY <1>1, <1>2, <1>3, <1>4, <1>5, <1>6, <1>7 DEF ParentStep

-----------------------------------------------------------------------------
(* The steps that put waiters on a list, move the list, and wake them.     *)

LEMMA PushStep ==
  ASSUME IInv, NEW w \in Waiters, Push(w)
  PROVE  IInv'
<1>1. /\ wpc[w] = "push" /\ wpc' = [wpc EXCEPT ![w] = "parked"]
      /\ queue' = [queue EXCEPT !.tasks = <<w>> \o @]
      /\ UNCHANGED <<waking, cpc, result, seen>> /\ queue = seen[w]
  BY DEF Push, At, Goto, taskVars
<1>2. queue \in [status : Outcomes, tasks : Seq(Waiters)]
  BY DEF IInv, TypeInv, Queues
<1>3. queue'.status = queue.status /\ queue'.tasks = <<w>> \o queue.tasks
  BY <1>1, <1>2
<1>4. NoRepeat(queue.tasks) /\ w \notin Elements(queue.tasks) /\ w \notin Elements(waking)
  BY <1>1 DEF IInv, ListInv
<1>5. /\ queue'.tasks \in Seq(Waiters) /\ NoRepeat(queue'.tasks)
      /\ Elements(queue'.tasks) = {w} \cup Elements(queue.tasks)
  BY <1>2, <1>3, <1>4, PushedList
<1>6. wpc'[w] = "parked" /\ \A u \in Waiters \ {w} : wpc'[u] = wpc[u]
  BY <1>1 DEF IInv, TypeInv
<1>7. ~ Ended
  BY <1>1 DEF IInv, SeenInv, Ended
<1>8. TypeInv'
  BY <1>1, <1>2, <1>5 DEF IInv, TypeInv, Places, Queues
<1>9. ListInv'
  BY <1>1, <1>3, <1>5, <1>6, <1>7 DEF IInv, ListInv, Ended
<1>10. OutcomeInv'
  BY <1>1, <1>3, <1>6, <1>7 DEF IInv, ListInv, OutcomeInv, OutcomeDelivered, Ended
<1>11. SeenInv'
  BY <1>1, <1>6 DEF IInv, SeenInv
<1> QED
  BY <1>8, <1>9, <1>10, <1>11 DEF IInv

LEMMA CompleteStep ==
  ASSUME IInv, Complete
  PROVE  IInv'
<1>1. /\ cpc = "running" /\ cpc' = "group" /\ waking' = queue.tasks
      /\ UNCHANGED <<wpc, result, seen>>
  BY DEF Complete, waiterVars
<1>2. PICK r \in {"Success", "Error"} : queue' = [status |-> r, tasks |-> <<>>]
  BY DEF Complete
<1>3. ~ Ended /\ Ended' /\ queue'.tasks = <<>> /\ queue.tasks \in Seq(Waiters)
  BY <1>1, <1>2 DEF IInv, TypeInv, Queues, ListInv, Ended
<1>4. Elements(<<>>) = {} /\ NoRepeat(<<>>)
  BY DEF Elements, NoRepeat
<1>5. TypeInv'
  BY <1>1, <1>2, <1>3 DEF IInv, TypeInv, Queues, Outcomes
<1>6. ListInv'
  BY <1>1, <1>3, <1>4 DEF IInv, ListInv, Ended
<1>7. OutcomeInv'
  BY <1>1, <1>3 DEF IInv, OutcomeInv, OutcomeDelivered, Ended
<1> QED
  BY <1>1, <1>5, <1>6, <1>7 DEF IInv, SeenInv

LEMMA CheckGroupStep ==
  ASSUME IInv, CheckGroup \/ EndOfTask
  PROVE  IInv'
<1>1. UNCHANGED <<queue, waking, wpc, result, seen>> /\ cpc' \in {"wake", "done"} /\ cpc # "running"
  BY DEF CheckGroup, EndOfTask, waiterVars
<1> QED
  BY <1>1 DEF IInv, TypeInv, ListInv, SeenInv, OutcomeInv, OutcomeDelivered, Ended

LEMMA FillStep ==
  ASSUME IInv, Fill
  PROVE  IInv'
<1> DEFINE first == Head(waking)
<1>1. /\ cpc = "wake" /\ cpc' = "enqueue" /\ waking # <<>>
      /\ result' = [result EXCEPT ![first] = queue.status]
      /\ UNCHANGED <<queue, waking, wpc, seen>>
  BY DEF Fill, Deliver
<1>2. first \in Waiters /\ waking \in Seq(Waiters) /\ result \in Results /\ queue.status \in Outcomes
  BY <1>1 DEF IInv, TypeInv, Queues
<1>3. result'[first] = queue.status /\ \A u \in Waiters \ {first} : result'[u] = result[u]
  BY <1>1, <1>2 DEF Results
<1>4. TypeInv'
  BY <1>1, <1>2 DEF IInv, TypeInv, Results
<1>5. ListInv'
  BY <1>1 DEF IInv, ListInv, Ended
<1>6. OutcomeInv'
  BY <1>1, <1>3 DEF IInv, OutcomeInv, OutcomeDelivered, Ended
<1> QED
  BY <1>1, <1>4, <1>5, <1>6 DEF IInv, SeenInv

LEMMA EnqueueWaiterStep ==
  ASSUME IInv, EnqueueWaiter
  PROVE  IInv'
<1> DEFINE first == Head(waking)
<1>1. /\ cpc = "enqueue" /\ cpc' = "wake" /\ waking' = Tail(waking)
      /\ wpc' = [wpc EXCEPT ![first] = "enqueued"]
      /\ UNCHANGED <<queue, result, seen>>
  BY DEF EnqueueWaiter, Goto
<1>2. /\ waking # <<>> /\ waking \in Seq(Waiters) /\ NoRepeat(waking)
      /\ result[first] = queue.status /\ Ended /\ queue.tasks = <<>>
  BY <1>1 DEF IInv, TypeInv, ListInv, OutcomeInv
<1>3. /\ first \in Waiters /\ waking' \in Seq(Waiters) /\ NoRepeat(waking')
      /\ Elements(waking') = Elements(waking) \ {first}
  BY <1>1, <1>2, PoppedList
<1>4. Elements(queue.tasks) = {}
  BY <1>2 DEF Elements
<1>5. wpc'[first] = "enqueued" /\ \A u \in Waiters \ {first} : wpc'[u] = wpc[u]
  BY <1>1, <1>3 DEF IInv, TypeInv
<1>6. TypeInv'
  BY <1>1, <1>3 DEF IInv, TypeInv, Places
<1>7. ListInv'
  BY <1>1, <1>2, <1>3, <1>4, <1>5 DEF IInv, ListInv, Ended
<1>8. OutcomeInv'
  BY <1>1, <1>2, <1>3, <1>5 DEF IInv, OutcomeInv, OutcomeDelivered, Ended
<1>9. SeenInv'
  BY <1>1, <1>5 DEF IInv, SeenInv
<1> QED
  BY <1>6, <1>7, <1>8, <1>9 DEF IInv

LEMMA VisitorSteps ==
  ASSUME IInv, NEW v \in Visitors, VisitorStep(v)
  PROVE  IInv'
<1>1. UNCHANGED <<queue, waking, cpc, wpc, result, seen>>
  BY DEF VisitorStep, LockRecords, VisitTask, taskVars, waiterVars
<1> QED
  BY <1>1, Still

LEMMA StepIInv == IInv /\ [Next]_vars => IInv'
<1> SUFFICES ASSUME IInv, [Next]_vars PROVE IInv'
  OBVIOUS
<1>1. CASE UNCHANGED vars
  BY <1>1, Still DEF vars, taskVars, waiterVars
<1>2. ASSUME NEW w \in Waiters, WaiterStep(w) PROVE IInv'
  BY <1>2, WaiterSteps, PushStep DEF WaiterStep
<1>3. CASE TaskStep
  BY <1>3, CompleteStep, CheckGroupStep, FillStep, EnqueueWaiterStep DEF TaskStep
<1> QED
  BY <1>1, <1>2, <1>3, ParentSteps, VisitorSteps DEF Next

-----------------------------------------------------------------------------
(* A waiter that went to sleep is on one of the lists, once; one that saw  *)
(* the completion instead is on none: no wake-up is lost or done twice.    *)
THEOREM WaitersParkedOnce == Spec => []ParkedOnce
<1>1. ASSUME NEW list, NEW w, NoRepeat(list)
      PROVE  Cardinality(Positions(list, w)) = IF w \in Elements(list) THEN 1 ELSE 0
  <2>1. CASE w \in Elements(list)
    <3>1. PICK i \in DOMAIN list : list[i] = w
      BY <2>1 DEF Elements
    <3>2. Positions(list, w) = {i}
      BY <1>1, <3>1 DEF Positions, NoRepeat
    <3> QED BY <2>1, <3>2, FS_Singleton
  <2>2. CASE w \notin Elements(list)
    <3>1. Positions(list, w) = {}
      BY <2>2 DEF Positions, Elements
    <3> QED BY <2>2, <3>1, FS_EmptySet
  <2> QED BY <2>1, <2>2
<1>2. Elements(<<>>) = {}
  BY DEF Elements
<1>3. ASSUME IInv, NEW w \in Waiters
      PROVE  Cardinality(Positions(queue.tasks, w)) + Cardinality(Positions(waking, w))
               = IF At(w, "parked") THEN 1 ELSE 0
  <2>1. wpc[w] = "parked" <=> w \in Elements(queue.tasks) \cup Elements(waking)
    BY <1>3 DEF IInv, ListInv
  <2>2. ~ (w \in Elements(queue.tasks) /\ w \in Elements(waking))
    BY <1>2, <1>3 DEF IInv, ListInv
  <2>3. NoRepeat(queue.tasks) /\ NoRepeat(waking)
    BY <1>3 DEF IInv, ListInv
  <2> QED BY <1>1, <2>1, <2>2, <2>3 DEF At
<1>4. IInv => ParkedOnce
  BY <1>3 DEF ParkedOnce
<1> QED
  BY <1>4, InitIInv, StepIInv, PTL DEF Spec

(* Whoever goes on after waiting, woken or not, has the outcome of the     *)
(* task.                                                                   *)
THEOREM EveryoneGetsOutcome == Spec => []OutcomeDelivered
<1>1. IInv => OutcomeDelivered
  BY DEF IInv, OutcomeInv
<1> QED
  BY <1>1, InitIInv, StepIInv, PTL DEF Spec
-----------------------------------------------------------------------------
(* Who still uses the memory of the task.  The waiters of a handle and the *)
(* task itself hold a reference each; an async let lives as long as its    *)
(* parent is in the scope, which it leaves only when the task has ended.   *)
Waiting == {"load", "suspend", "push", "parked", "unsuspend", "completed", "enqueued",
            "returned"}
Left == {"cleanUp", "destroy", "over"}
Holders == {w \in Waiters : wpc[w] # "over"}

UseTypes ==
  /\ kind \in {"handle", "asyncLet"} /\ throws \in BOOLEAN /\ hasResult \in BOOLEAN
  /\ op \in [Waiters -> {"none", "value", "get", "finish", "consume"}]
  /\ depends \in [Waiters -> BOOLEAN]
  /\ lock \in [Waiters -> Visitors \cup {NoVisitor}]
  /\ buffer \in [initialised : Nat, destroyed : Nat]

RecordInv ==
  /\ \A w \in Waiters : /\ depends[w] => wpc[w] \in {"push", "parked", "unsuspend"}
                        /\ ~ Unlocked(w) => NamesTask(w)
  /\ cpc = "done" => waking = <<>>
  /\ queue.status = "Error" => throws

HandleInv ==
  ~ AsyncLet =>
    /\ ~ childRecord
    /\ refs \in Nat /\ refs = Cardinality(Holders) + (IF cpc = "done" THEN 0 ELSE 1)
    /\ alive = (refs > 0)
    /\ \A w \in Waiters : /\ wpc[w] \notin {"cleanUp", "destroy"}
                          /\ wpc[w] \in Waiting => op[w] = "value"

ScopeInv ==
  AsyncLet =>
    /\ \A w \in Waiters \ {Parent} : wpc[w] = "over"
    /\ alive = (wpc[Parent] # "over")
    /\ childRecord = (wpc[Parent] \notin {"destroy", "over"})
    /\ wpc[Parent] \in Left => Ended
    /\ wpc[Parent] \in Waiting => op[Parent] \in {"get", "finish", "consume"}

(* What is in the buffer: nothing until the wait of the parent has got a   *)
(* success, which it has before it returns, and from then on the result.   *)
Got == wpc[Parent] \in {"enqueued", "returned"} \/ cpc = "enqueue"
Content == <<buffer.initialised, buffer.destroyed>>

BufferInv ==
  AsyncLet =>
    /\ wpc[Parent] = "idle" => Content = IF hasResult THEN <<1, 0>> ELSE <<0, 0>>
    /\ wpc[Parent] = "idle" /\ hasResult => Ended
    /\ wpc[Parent] \in Waiting =>
         /\ hasResult => op[Parent] = "get" /\ ~ throws
         /\ Content = IF Got /\ queue.status = "Success" THEN <<1, 0>> ELSE <<0, 0>>
    /\ wpc[Parent] \in Left =>
         /\ op[Parent] \in {"finish", "consume"}
         /\ op[Parent] = "finish" => Content \in {<<0, 0>>, <<1, 1>>}
         /\ op[Parent] = "consume" => Content \in {<<0, 0>>, <<1, 0>>}

UseInv == UseTypes /\ RecordInv /\ HandleInv /\ ScopeInv /\ BufferInv

LEMMA InitUse == Init => UseInv
<1> SUFFICES ASSUME Init PROVE UseInv
  OBVIOUS
<1>1. UseTypes
  BY DEF Init, UseTypes
<1>2. RecordInv
  BY DEF Init, RecordInv, Unlocked
<1>3. HandleInv
  <2>1. ASSUME ~ AsyncLet PROVE Holders = Waiters
    BY <2>1 DEF Init, Holders
  <2>2. Cardinality(Waiters) \in Nat
    BY WaitersAssumption, FS_CardinalityType
  <2>3. ASSUME ~ AsyncLet
        PROVE  refs = 1 + Cardinality(Waiters) /\ alive = TRUE /\ childRecord = FALSE
    BY <2>3 DEF Init, AsyncLet
  <2>4. cpc = "running" /\ \A w \in Waiters : wpc[w] \in {"idle", "over"}
    BY DEF Init
  <2>5. ASSUME ~ AsyncLet
        PROVE  refs \in Nat /\ refs = Cardinality(Holders) + 1 /\ refs > 0
    BY <2>1, <2>2, <2>3, <2>5
  <2> QED  BY <2>3, <2>4, <2>5 DEF HandleInv, Waiting
<1>4. ScopeInv /\ BufferInv
  BY ParentAssumption DEF Init, ScopeInv, BufferInv, AsyncLet, Waiting, Left, Got, Content
<1> QED  BY <1>1, <1>2, <1>3, <1>4 DEF UseInv

(* A waiter that goes from one place to another still holds the task.      *)
LEMMA HolderMoves ==
  ASSUME TypeInv, NEW w \in Waiters, wpc[w] # "over", NEW where \in Places, where # "over",
         wpc' = [wpc EXCEPT ![w] = where]
  PROVE  Holders' = Holders
BY DEF TypeInv, Holders

(* The only waiter of an async let that can be woken is the parent.        *)
LEMMA WokenParent ==
  ASSUME IInv, UseInv, AsyncLet, waking # <<>>
  PROVE  Head(waking) = Parent /\ wpc[Parent] = "parked"
<1>1. Head(waking) \in Waiters /\ Head(waking) \in Elements(waking)
  BY DEF IInv, TypeInv, Elements
<1>2. wpc[Head(waking)] = "parked"
  BY <1>1 DEF IInv, ListInv
<1> QED  BY <1>1, <1>2 DEF UseInv, ScopeInv

LEMMA WaitKeepsUse ==
  ASSUME IInv, UseInv, NEW w \in Waiters,
         Load(w) \/ Suspend(w) \/ Push(w) \/ Retry(w) \/ Unsuspend(w) \/ Resume(w)
  PROVE  UseInv'
<1>1. PICK where \in Waiting : wpc' = [wpc EXCEPT ![w] = where]
  BY DEF Load, Suspend, Push, Retry, Unsuspend, Resume, Goto, Waiting
<1>2. wpc[w] \in {"load", "suspend", "push", "unsuspend", "enqueued"}
  BY DEF Load, Suspend, Push, Retry, Unsuspend, Resume, At
<1>3. /\ UNCHANGED <<kind, throws, taskVars, op, childRecord, hasResult, buffer, lock>>
      /\ queue'.status = queue.status
  BY DEF Load, Suspend, Push, Retry, Unsuspend, Resume, taskVars, letVars, visitVars, IInv,
     TypeInv, Queues
<1>4. Holders' = Holders
  BY <1>1, <1>2, HolderMoves DEF IInv, Waiting, Places
<1>5. wpc \in [Waiters -> Places] /\ depends \in [Waiters -> BOOLEAN]
  BY DEF IInv, TypeInv, UseInv, UseTypes
<1>6. UseTypes'
  BY <1>3, <1>5 DEF UseInv, UseTypes, Suspend, Unsuspend, Load, Push, Retry, Resume, taskVars
<1>7. RecordInv'
  <2>1. \A u \in Waiters : depends'[u] => wpc'[u] \in {"push", "parked", "unsuspend"}
    BY <1>1, <1>5 DEF UseInv, RecordInv, Suspend, Unsuspend, Load, Push, Retry, Resume,
       Goto, At
  <2>2. \A u \in Waiters : ~ Unlocked(u)' => NamesTask(u)'
    BY <1>3, <1>5 DEF UseInv, RecordInv, Suspend, Unsuspend, Load, Push, Retry, Resume,
       Unlocked, NamesTask
  <2> QED  BY <1>3, <2>1, <2>2 DEF UseInv, RecordInv, taskVars
<1>8. HandleInv'
  BY <1>1, <1>2, <1>3, <1>4, <1>5
  DEF UseInv, HandleInv, Waiting, AsyncLet, taskVars
<1>9. AsyncLet => w = Parent
  BY <1>2 DEF UseInv, ScopeInv
<1>10. ScopeInv'
  BY <1>1, <1>2, <1>3, <1>5, <1>9, ParentAssumption
  DEF UseInv, ScopeInv, Waiting, Left, AsyncLet, Ended, taskVars
<1>11. AsyncLet => Got' = Got
  <2>1. wpc[w] = "enqueued" <=> where = "returned"
    BY <1>1, <1>5 DEF Load, Suspend, Push, Retry, Unsuspend, Resume, Goto, At
  <2>2. where # "enqueued" /\ wpc[w] # "returned"
    BY <1>1, <1>2, <1>5 DEF Load, Suspend, Push, Retry, Unsuspend, Resume, Goto
  <2> QED  BY <1>1, <1>3, <1>5, <1>9, <2>1, <2>2 DEF Got, taskVars
<1>12. BufferInv'
  BY <1>1, <1>2, <1>3, <1>5, <1>9, <1>11, ParentAssumption
  DEF UseInv, BufferInv, Waiting, Left, AsyncLet, Content, Got, Ended, taskVars
<1> QED  BY <1>6, <1>7, <1>8, <1>10, <1>12 DEF UseInv

(* A new wait begins with nothing got: of a task whose waiter is idle.     *)
LEMMA BeginKeepsUse ==
  ASSUME IInv, UseInv, NEW w \in Waiters, NEW what, wpc[w] = "idle", Wait(w, what),
         UNCHANGED <<kind, throws, queue, alive, refs, cpc, waking, depends, childRecord,
                     buffer, visitVars>>,
         \/ ~ AsyncLet /\ what = "value" /\ UNCHANGED hasResult
         \/ /\ AsyncLet /\ ~ hasResult /\ what \in {"get", "finish", "consume"}
            /\ hasResult' \in BOOLEAN /\ (hasResult' => what = "get" /\ ~ throws)
  PROVE  UseInv'
<1>1. /\ wpc' = [wpc EXCEPT ![w] = "load"] /\ op' = [op EXCEPT ![w] = what]
      /\ wpc \in [Waiters -> Places]
  BY DEF Wait, Goto, IInv, TypeInv
<1>2. UseTypes'
  BY <1>1 DEF UseInv, UseTypes, visitVars
<1>3. RecordInv'
  BY <1>1 DEF UseInv, RecordInv, NamesTask, Unlocked, visitVars
<1>4. HandleInv'
  <2>1. Holders' = Holders
    BY <1>1, HolderMoves DEF IInv, Places
  <2> QED  BY <1>1, <2>1 DEF UseInv, UseTypes, HandleInv, Waiting, AsyncLet
<1>5. AsyncLet => w = Parent
  BY DEF UseInv, ScopeInv
<1>6. ScopeInv'
  BY <1>1, <1>5 DEF UseInv, UseTypes, ScopeInv, Waiting, Left, AsyncLet
<1>7. AsyncLet => ~ Got'
  <2>1. AsyncLet => cpc # "enqueue"
    BY <1>5, WokenParent DEF IInv, OutcomeInv
  <2> QED  BY <1>1, <1>5, <2>1 DEF Got
<1>8. BufferInv'
  BY <1>1, <1>5, <1>7 DEF UseInv, UseTypes, BufferInv, Waiting, Left, AsyncLet, Content
<1> QED  BY <1>2, <1>3, <1>4, <1>6, <1>8 DEF UseInv

LEMMA CompletedKeepsUse ==
  ASSUME IInv, UseInv, NEW w \in Waiters, Completed(w)
  PROVE  UseInv'
<1>1. /\ wpc' = [wpc EXCEPT ![w] = "returned"] /\ wpc[w] = "completed" /\ Ended
      /\ wpc \in [Waiters -> Places]
      /\ UNCHANGED <<kind, throws, queue, taskVars, op, depends, childRecord, hasResult,
                     visitVars>>
  BY DEF Completed, Goto, At, IInv, TypeInv, OutcomeInv
<1>2. buffer' = IF AsyncLet /\ queue.status = "Success"
                THEN [buffer EXCEPT !.initialised = @ + 1] ELSE buffer
  BY DEF Completed, Deliver
<1>3. UseTypes'
  BY <1>1, <1>2 DEF UseInv, UseTypes, visitVars
<1>4. RecordInv'
  BY <1>1 DEF UseInv, RecordInv, NamesTask, Unlocked, visitVars, taskVars
<1>5. HandleInv'
  <2>1. Holders' = Holders
    BY <1>1, HolderMoves DEF IInv, Places
  <2> QED  BY <1>1, <2>1 DEF UseInv, HandleInv, Waiting, AsyncLet, taskVars
<1>6. AsyncLet => w = Parent
  BY <1>1 DEF UseInv, ScopeInv
<1>7. ScopeInv'
  BY <1>1, <1>6 DEF UseInv, ScopeInv, Waiting, Left, AsyncLet, taskVars
<1>8. AsyncLet => ~ Got /\ Got'
  <2>1. AsyncLet => cpc # "enqueue"
    BY <1>1, <1>6, WokenParent DEF IInv, OutcomeInv
  <2> QED  BY <1>1, <1>6, <2>1 DEF Got
<1>9. BufferInv'
  <2>1. AsyncLet => Content = <<0, 0>>
    BY <1>1, <1>6, <1>8 DEF UseInv, BufferInv, Waiting
  <2>2. AsyncLet => Content' = IF queue.status = "Success" THEN <<1, 0>> ELSE <<0, 0>>
    BY <1>2, <2>1 DEF UseInv, UseTypes, Content
  <2> QED
    BY <1>1, <1>6, <1>8, <2>2 DEF UseInv, BufferInv, Waiting, Left, AsyncLet
<1> QED  BY <1>3, <1>4, <1>5, <1>7, <1>9 DEF UseInv

LEMMA ReturnKeepsUse ==
  ASSUME IInv, UseInv, NEW w \in Waiters, Return(w) \/ (w = Parent /\ ReturnFromGet)
  PROVE  UseInv'
<1>1. /\ wpc[w] = "returned" /\ Ended /\ result[w] = queue.status /\ wpc \in [Waiters -> Places]
      /\ UNCHANGED <<kind, throws, queue, taskVars, op, depends, childRecord, buffer, visitVars>>
  BY ParentAssumption DEF Return, ReturnFromGet, At, IInv, TypeInv, OutcomeInv,
     OutcomeDelivered, letVars
<1>2. PICK where \in {"idle", "cleanUp"} : wpc' = [wpc EXCEPT ![w] = where]
  BY DEF Return, ReturnFromGet, Goto
<1>3. UseTypes'
  BY <1>1 DEF UseInv, UseTypes, visitVars, Return, ReturnFromGet, letVars
<1>4. RecordInv'
  BY <1>1, <1>2 DEF UseInv, RecordInv, NamesTask, Unlocked, visitVars, taskVars
<1>5. HandleInv'
  <2>1. Holders' = Holders
    BY <1>1, <1>2, HolderMoves DEF IInv, Places
  <2>2. ~ AsyncLet => where = "idle"
    BY <1>1, <1>2 DEF UseInv, HandleInv, Waiting, Return, ReturnFromGet, Goto
  <2> QED  BY <1>1, <1>2, <2>1, <2>2 DEF UseInv, HandleInv, Waiting, AsyncLet, taskVars
<1>6. AsyncLet => w = Parent
  BY <1>1 DEF UseInv, ScopeInv
<1>7. ScopeInv'
  BY <1>1, <1>2, <1>6 DEF UseInv, ScopeInv, Waiting, Left, AsyncLet, taskVars, Ended
<1>8. BufferInv'
  <2> SUFFICES ASSUME AsyncLet PROVE BufferInv'
    BY <1>1 DEF BufferInv, AsyncLet
  <2>1. /\ Content = IF queue.status = "Success" THEN <<1, 0>> ELSE <<0, 0>>
        /\ hasResult => op[Parent] = "get" /\ ~ throws
        /\ op[Parent] \in {"get", "finish", "consume"}
    BY <1>1, <1>6 DEF UseInv, ScopeInv, BufferInv, Waiting, Got
  <2>2. Content' = Content /\ wpc'[Parent] = where /\ Ended'
    BY <1>1, <1>2, <1>6 DEF Content, Ended
  <2>3. CASE Return(w)
    <3>1. where = "cleanUp" /\ op[Parent] = "consume" /\ UNCHANGED op
      BY <1>1, <1>2, <1>6, <2>1, <2>3 DEF Return, Goto
    <3> QED  BY <2>1, <2>2, <3>1 DEF BufferInv, Waiting, Left
  <2>4. CASE ReturnFromGet
    <3>1. where = "idle" /\ hasResult' = (hasResult \/ queue.status = "Success")
      BY <1>1, <1>2, <1>6, <2>4 DEF ReturnFromGet, Goto
    <3>2. hasResult => queue.status = "Success"
      BY <1>1, <2>1 DEF UseInv, RecordInv, IInv, TypeInv, Queues, Outcomes, Ended
    <3> QED  BY <2>1, <2>2, <3>1, <3>2 DEF BufferInv, Waiting, Left
  <2> QED  BY <2>3, <2>4
<1> QED  BY <1>3, <1>4, <1>5, <1>7, <1>8 DEF UseInv

(* The parent leaves the scope, with the result in the buffer or after the *)
(* wait in finish.                                                         *)
LEMMA LeaveKeepsUse ==
  ASSUME IInv, UseInv, AsyncLet,
         (Finish /\ hasResult) \/ (Consume /\ hasResult) \/ ReturnFromFinish
  PROVE  UseInv'
<1> USE ParentAssumption
<1>1. /\ wpc[Parent] \in {"idle", "returned"} /\ wpc \in [Waiters -> Places] /\ Ended
      /\ wpc[Parent] = "returned" => result[Parent] = queue.status
  BY DEF Finish, Consume, ReturnFromFinish, At, IInv, TypeInv, OutcomeInv, OutcomeDelivered,
     UseInv, BufferInv
<1>2. /\ wpc' = [wpc EXCEPT ![Parent] = "cleanUp"]
      /\ UNCHANGED <<kind, throws, queue, alive, refs, cpc, waking, depends, childRecord,
                     hasResult, visitVars>>
  BY DEF Finish, Consume, ReturnFromFinish, Goto, taskVars, letVars
<1>3. /\ op' \in [Waiters -> {"none", "value", "get", "finish", "consume"}]
      /\ \/ op'[Parent] = "finish" /\ Content' \in {<<0, 0>>, <<1, 1>>}
         \/ op'[Parent] = "consume" /\ Content' = <<1, 0>>
      /\ buffer' \in [initialised : Nat, destroyed : Nat]
  <2>1. buffer \in [initialised : Nat, destroyed : Nat]
        /\ op \in [Waiters -> {"none", "value", "get", "finish", "consume"}]
    BY DEF UseInv, UseTypes
  <2>2. CASE Finish /\ hasResult
    <3>1. Content = <<1, 0>> /\ buffer' = [buffer EXCEPT !.destroyed = @ + 1]
          /\ op' = [op EXCEPT ![Parent] = "finish"]
      BY <2>2 DEF Finish, DestroyResult, At, UseInv, BufferInv
    <3> QED  BY <2>1, <3>1 DEF Content
  <2>3. CASE Consume /\ hasResult
    <3>1. Content = <<1, 0>> /\ buffer' = buffer /\ op' = [op EXCEPT ![Parent] = "consume"]
      BY <2>3 DEF Consume, At, UseInv, BufferInv, letVars
    <3> QED  BY <2>1, <3>1 DEF Content
  <2>4. CASE ReturnFromFinish
    <3>1. Content = IF queue.status = "Success" THEN <<1, 0>> ELSE <<0, 0>>
      BY <2>4 DEF ReturnFromFinish, At, UseInv, BufferInv, Waiting, Got
    <3>2. /\ op' = op /\ op[Parent] = "finish"
          /\ buffer' = IF queue.status = "Success"
                       THEN [buffer EXCEPT !.destroyed = @ + 1] ELSE buffer
      BY <1>1, <2>4 DEF ReturnFromFinish, At, DestroyResult
    <3> QED  BY <2>1, <3>1, <3>2 DEF Content
  <2> QED  BY <2>2, <2>3, <2>4
<1>4. UseTypes'
  BY <1>2, <1>3 DEF UseInv, UseTypes, visitVars
<1>5. RecordInv'
  BY <1>1, <1>2 DEF UseInv, RecordInv, NamesTask, Unlocked, visitVars
<1>6. HandleInv'
  BY <1>2 DEF HandleInv, AsyncLet
<1>7. ScopeInv'
  BY <1>1, <1>2 DEF UseInv, ScopeInv, Waiting, Left, AsyncLet, Ended
<1>8. BufferInv'
  BY <1>1, <1>2, <1>3 DEF BufferInv, Waiting, Left
<1> QED  BY <1>4, <1>5, <1>6, <1>7, <1>8 DEF UseInv

LEMMA FreeKeepsUse ==
  ASSUME IInv, UseInv, RemoveRecord \/ Destroy
  PROVE  UseInv'
<1> USE ParentAssumption
<1>1. /\ AsyncLet /\ wpc[Parent] \in {"cleanUp", "destroy"} /\ wpc \in [Waiters -> Places]
      /\ UNCHANGED <<kind, throws, queue, refs, cpc, waking, op, depends, hasResult, buffer,
                     visitVars>>
  BY DEF RemoveRecord, Destroy, At, IInv, TypeInv, UseInv, UseTypes, HandleInv, AsyncLet,
     taskVars, letVars
<1>2. PICK where \in {"destroy", "over"} : wpc' = [wpc EXCEPT ![Parent] = where]
  BY DEF RemoveRecord, Destroy, Goto
<1>3. UseTypes'
  BY <1>1 DEF UseInv, UseTypes, visitVars
<1>4. RecordInv'
  BY <1>1, <1>2 DEF UseInv, RecordInv, ScopeInv, NamesTask, Unlocked, visitVars, RemoveRecord,
     Destroy, letVars, At
<1>5. HandleInv'
  BY <1>1 DEF HandleInv, AsyncLet
<1>6. ScopeInv'
  BY <1>1, <1>2 DEF UseInv, ScopeInv, Waiting, Left, AsyncLet, Ended, RemoveRecord, Destroy,
     Goto, At, taskVars, letVars
<1>7. BufferInv'
  BY <1>1, <1>2 DEF UseInv, BufferInv, Waiting, Left, Content
<1> QED  BY <1>3, <1>4, <1>5, <1>6, <1>7 DEF UseInv

(* The references of a task with a handle.                                 *)
LEMMA DropKeepsUse ==
  ASSUME IInv, UseInv, NEW w \in Waiters, DropHandle(w)
  PROVE  UseInv'
<1>1. /\ ~ AsyncLet /\ wpc[w] = "idle" /\ wpc' = [wpc EXCEPT ![w] = "over"]
      /\ refs' = refs - 1 /\ alive' = (refs > 1) /\ wpc \in [Waiters -> Places]
      /\ UNCHANGED <<kind, throws, queue, cpc, waking, op, depends, letVars, visitVars>>
  BY DEF DropHandle, Release, At, Goto, IInv, TypeInv
<1>2. UseTypes'
  BY <1>1 DEF UseInv, UseTypes, letVars, visitVars
<1>3. RecordInv'
  BY <1>1 DEF UseInv, RecordInv, NamesTask, Unlocked, letVars, visitVars
<1>4. HandleInv'
  <2>1. Holders' = Holders \ {w} /\ w \in Holders
    BY <1>1 DEF Holders
  <2>2. IsFiniteSet(Holders)
    BY WaitersAssumption, FS_Subset DEF Holders
  <2>3. /\ Cardinality(Holders)' = Cardinality(Holders) - 1
        /\ Cardinality(Holders) \in Nat /\ Cardinality(Holders)' \in Nat
    BY <2>1, <2>2, FS_RemoveElement, FS_CardinalityType
  <2>4. refs' = Cardinality(Holders)' + (IF cpc = "done" THEN 0 ELSE 1)
        /\ refs' \in Nat /\ refs \in Nat
    BY <1>1, <2>3 DEF UseInv, HandleInv
  <2>5. (refs > 1) = (refs' > 0)
    BY <1>1, <2>4
  <2> QED  BY <1>1, <2>4, <2>5 DEF UseInv, HandleInv, Waiting, AsyncLet, letVars
<1>5. ScopeInv' /\ BufferInv'
  BY <1>1 DEF ScopeInv, BufferInv, AsyncLet
<1> QED  BY <1>2, <1>3, <1>4, <1>5 DEF UseInv

LEMMA EndOfTaskKeepsUse ==
  ASSUME IInv, UseInv, EndOfTask
  PROVE  UseInv'
<1>1. /\ cpc = "wake" /\ cpc' = "done" /\ waking = <<>>
      /\ UNCHANGED <<kind, throws, queue, waking, waiterVars, depends, letVars, visitVars>>
      /\ IF AsyncLet THEN UNCHANGED <<alive, refs>> ELSE Release
  BY DEF EndOfTask
<1>2. UseTypes' /\ RecordInv'
  BY <1>1 DEF UseInv, UseTypes, RecordInv, NamesTask, Unlocked, letVars, waiterVars, visitVars
<1>3. HandleInv'
  <2> SUFFICES ASSUME ~ AsyncLet PROVE HandleInv'
    BY <1>1 DEF HandleInv, AsyncLet
  <2>1. Cardinality(Holders) \in Nat /\ Holders' = Holders
    BY <1>1, WaitersAssumption, FS_Subset, FS_CardinalityType DEF Holders, waiterVars
  <2>2. refs' = refs - 1 /\ alive' = (refs > 1) /\ refs = Cardinality(Holders) + 1
    BY <1>1 DEF UseInv, HandleInv, Release
  <2>3. refs' = Cardinality(Holders)' /\ refs' \in Nat /\ refs \in Nat
    BY <2>1, <2>2
  <2>4. (refs > 1) = (refs' > 0)
    BY <2>2, <2>3
  <2> QED  BY <1>1, <2>2, <2>3, <2>4 DEF UseInv, HandleInv, Waiting, AsyncLet, waiterVars, letVars
<1>4. ScopeInv' /\ BufferInv'
  BY <1>1 DEF UseInv, ScopeInv, BufferInv, AsyncLet, waiterVars, letVars, Content, Got, Waiting,
     Left, Ended
<1> QED  BY <1>2, <1>3, <1>4 DEF UseInv

LEMMA CompleteKeepsUse ==
  ASSUME IInv, UseInv, Complete \/ CheckGroup
  PROVE  UseInv'
<1>1. /\ cpc \in {"running", "group"} /\ cpc' \in {"group", "wake"}
      /\ UNCHANGED <<kind, throws, alive, refs, waiterVars, depends, letVars, visitVars>>
      /\ queue'.status = "Error" => throws
  BY DEF Complete, CheckGroup, UseInv, RecordInv
<1>2. Ended'
  BY DEF Complete, CheckGroup, IInv, ListInv, Ended
<1>3. UseTypes' /\ RecordInv'
  BY <1>1 DEF UseInv, UseTypes, RecordInv, NamesTask, Unlocked, letVars, waiterVars, visitVars
<1>4. HandleInv'
  <2>1. Holders' = Holders
    BY <1>1 DEF Holders, waiterVars
  <2> QED  BY <1>1, <2>1 DEF UseInv, HandleInv, Waiting, AsyncLet, waiterVars, letVars
<1>5. ScopeInv'
  BY <1>1, <1>2 DEF UseInv, ScopeInv, AsyncLet, waiterVars, letVars, Waiting, Left
<1>6. BufferInv'
  <2>1. ~ Ended => ~ Got /\ ~ Got'
    BY <1>1, ParentAssumption DEF Got, IInv, OutcomeInv, waiterVars
  <2>2. Ended => queue'.status = queue.status /\ Got' = Got
    BY <1>1 DEF Complete, CheckGroup, IInv, ListInv, Got, waiterVars
  <2> QED
    BY <1>1, <1>2, <2>1, <2>2
    DEF UseInv, BufferInv, AsyncLet, waiterVars, letVars, Content, Waiting, Left
<1> QED  BY <1>3, <1>4, <1>5, <1>6 DEF UseInv

LEMMA WakeKeepsUse ==
  ASSUME IInv, UseInv, Fill \/ EnqueueWaiter
  PROVE  UseInv'
<1> DEFINE first == Head(waking)
<1>1. /\ waking # <<>> /\ first \in Waiters /\ wpc[first] = "parked" /\ Ended
      /\ wpc \in [Waiters -> Places]
  <2>1. waking # <<>> /\ waking \in Seq(Waiters) /\ Ended
    BY DEF Fill, EnqueueWaiter, IInv, TypeInv, ListInv, OutcomeInv
  <2>2. first \in Waiters /\ first \in Elements(waking)
    BY <2>1 DEF Elements
  <2> QED  BY <2>1, <2>2 DEF IInv, TypeInv, ListInv
<1>2. AsyncLet => first = Parent
  BY <1>1, WokenParent
<1>3. CASE Fill
  <2>1. /\ cpc = "wake" /\ cpc' = "enqueue"
        /\ UNCHANGED <<kind, throws, queue, alive, refs, waking, wpc, op, depends,
                       childRecord, hasResult, visitVars>>
        /\ buffer' = IF AsyncLet /\ queue.status = "Success"
                     THEN [buffer EXCEPT !.initialised = @ + 1] ELSE buffer
    BY <1>3 DEF Fill, Deliver
  <2>2. UseTypes' /\ RecordInv'
    BY <2>1 DEF UseInv, UseTypes, RecordInv, NamesTask, Unlocked, visitVars
  <2>3. HandleInv'
    BY <2>1 DEF UseInv, HandleInv, Waiting, AsyncLet, Holders
  <2>4. ScopeInv'
    BY <2>1 DEF UseInv, ScopeInv, AsyncLet, Waiting, Left, Ended
  <2>5. BufferInv'
    <3>1. AsyncLet => Content = <<0, 0>> /\ Got'
      BY <1>1, <1>2, <2>1 DEF UseInv, BufferInv, Got, Waiting
    <3>2. AsyncLet => Content' = IF queue.status = "Success" THEN <<1, 0>> ELSE <<0, 0>>
      BY <2>1, <3>1 DEF UseInv, UseTypes, Content
    <3> QED
      BY <1>1, <1>2, <2>1, <3>1, <3>2 DEF UseInv, BufferInv, AsyncLet, Waiting, Left
  <2> QED  BY <2>2, <2>3, <2>4, <2>5 DEF UseInv
<1>4. CASE EnqueueWaiter
  <2>1. /\ cpc = "enqueue" /\ cpc' = "wake" /\ Unlocked(first)
        /\ wpc' = [wpc EXCEPT ![first] = "enqueued"]
        /\ depends' = [depends EXCEPT ![first] = FALSE]
        /\ UNCHANGED <<kind, throws, queue, alive, refs, op, letVars, visitVars>>
    BY <1>4 DEF EnqueueWaiter, Goto
  <2>2. UseTypes'
    BY <2>1 DEF UseInv, UseTypes, letVars, visitVars
  <2>3. RecordInv'
    BY <1>1, <2>1 DEF UseInv, UseTypes, RecordInv, NamesTask, Unlocked, letVars, visitVars
  <2>4. HandleInv'
    <3>1. Holders' = Holders
      BY <1>1, <2>1, HolderMoves DEF IInv, Places
    <3> QED  BY <1>1, <2>1, <3>1 DEF UseInv, HandleInv, Waiting, AsyncLet, letVars
  <2>5. ScopeInv'
    BY <1>1, <1>2, <2>1 DEF UseInv, ScopeInv, AsyncLet, Waiting, Left, letVars
  <2>6. BufferInv'
    BY <1>1, <1>2, <2>1
    DEF UseInv, BufferInv, AsyncLet, Waiting, Left, letVars, Content, Got
  <2> QED  BY <2>2, <2>3, <2>4, <2>5, <2>6 DEF UseInv
<1> QED  BY <1>3, <1>4

LEMMA VisitorKeepsUse ==
  ASSUME IInv, UseInv, NEW v \in Visitors, VisitorStep(v)
  PROVE  UseInv'
<1>1. PICK w \in Waiters : LockRecords(v, w) \/ VisitTask(v, w)
  BY DEF VisitorStep
<1>2. UNCHANGED <<kind, throws, queue, alive, refs, cpc, waking, waiterVars, depends, letVars>>
  BY <1>1 DEF LockRecords, VisitTask, taskVars
<1>3. UseTypes'
  BY <1>1, <1>2 DEF UseInv, UseTypes, LockRecords, VisitTask, letVars, waiterVars
<1>4. RecordInv'
  BY <1>1, <1>2 DEF UseInv, UseTypes, RecordInv, LockRecords, VisitTask, letVars, waiterVars,
     NamesTask, Unlocked
<1>5. HandleInv' /\ ScopeInv' /\ BufferInv'
  BY <1>2 DEF UseInv, HandleInv, ScopeInv, BufferInv, AsyncLet, Waiting, Left, Content, Got,
     Ended, Holders, letVars, waiterVars
<1> QED  BY <1>3, <1>4, <1>5 DEF UseInv

LEMMA StepUse == IInv /\ UseInv /\ [Next]_vars => UseInv'
<1> SUFFICES ASSUME IInv, UseInv, [Next]_vars PROVE UseInv'
  OBVIOUS
<1>1. ASSUME NEW w \in Waiters, WaiterStep(w) PROVE UseInv'
  <2>1. ASSUME Await(w) PROVE UseInv'
    BY <2>1, BeginKeepsUse DEF Await, At, taskVars, letVars
  <2> QED
    BY <1>1, <2>1, WaitKeepsUse, CompletedKeepsUse, ReturnKeepsUse, DropKeepsUse
    DEF WaiterStep
<1>2. CASE ParentStep
  <2>1. CASE Get
    <3>1. (~ throws) \in BOOLEAN
      OBVIOUS
    <3> QED
      BY <2>1, <3>1, ParentAssumption, BeginKeepsUse DEF Get, At, taskVars, UseInv, UseTypes
  <2>2. CASE (Finish \/ Consume) /\ ~ hasResult
    <3>1. PICK what \in {"finish", "consume"} : Wait(Parent, what)
      BY <2>2 DEF Finish, Consume
    <3> QED
      BY <2>2, <3>1, ParentAssumption, BeginKeepsUse
      DEF Finish, Consume, At, taskVars, letVars, UseInv, UseTypes
  <2>3. CASE (Finish \/ Consume) /\ hasResult
    BY <2>3, LeaveKeepsUse DEF Finish, Consume
  <2>4. CASE ReturnFromFinish
    <3>1. AsyncLet
      BY <2>4, ParentAssumption DEF ReturnFromFinish, At, UseInv, HandleInv, Waiting
    <3> QED  BY <2>4, <3>1, LeaveKeepsUse
  <2> QED
    BY <1>2, <2>1, <2>2, <2>3, <2>4, ParentAssumption, ReturnKeepsUse, FreeKeepsUse
    DEF ParentStep
<1>3. CASE TaskStep
  BY <1>3, EndOfTaskKeepsUse, CompleteKeepsUse, WakeKeepsUse DEF TaskStep
<1>4. CASE UNCHANGED vars
  BY <1>4 DEF vars, taskVars, waiterVars, letVars, visitVars, UseInv, UseTypes, RecordInv,
     HandleInv, ScopeInv, BufferInv, AsyncLet, Waiting, Left, Content, Got, Ended, Holders,
     NamesTask, Unlocked
<1> QED  BY <1>1, <1>2, <1>3, <1>4, VisitorKeepsUse DEF Next

(* Nobody uses the memory of a task after it was freed: not its own thread *)
(* that wakes the waiters, not a waiter on its way to the queue or to the  *)
(* result, and not a thread that cancels or escalates through a record.    *)
THEOREM TaskOutlivesItsUsers == Spec => []TaskAliveWhileUsed
<1>1. ASSUME IInv, UseInv PROVE TaskAliveWhileUsed
  <2>1. CASE AsyncLet
    <3>1. wpc[Parent] = "over" => Ended
      BY <1>1, <2>1 DEF UseInv, ScopeInv, Left
    <3>2. waking # <<>> => wpc[Parent] = "parked"
      BY <1>1, <2>1, WokenParent
    <3>3. ASSUME NEW w \in Waiters, wpc[Parent] = "over"
          PROVE  /\ ~ NamesTask(w) /\ Unlocked(w)
                 /\ wpc[w] \notin {"load", "suspend", "push", "unsuspend", "completed"}
      BY <1>1, <2>1, <3>3 DEF UseInv, ScopeInv, RecordInv, NamesTask, Unlocked
    <3> QED
      BY <1>1, <2>1, <3>1, <3>2, <3>3 DEF UseInv, ScopeInv, TaskAliveWhileUsed, Ended
  <2>2. CASE ~ AsyncLet
    <3>1. Cardinality(Holders) \in Nat /\ IsFiniteSet(Holders)
      BY WaitersAssumption, FS_Subset, FS_CardinalityType DEF Holders
    <3>2. cpc # "done" => alive
      <4>1. cpc # "done" => refs > 0
        BY <1>1, <2>2, <3>1 DEF UseInv, HandleInv
      <4> QED  BY <1>1, <2>2, <4>1 DEF UseInv, HandleInv
    <3>3. ASSUME NEW w \in Waiters, wpc[w] # "over" PROVE alive
      <4>1. Holders # {}
        BY <3>3 DEF Holders
      <4>2. Cardinality(Holders) > 0
        BY <3>1, <4>1, FS_EmptySet
      <4>3. refs > 0
        BY <1>1, <2>2, <3>1, <4>2 DEF UseInv, HandleInv
      <4> QED  BY <1>1, <2>2, <4>3 DEF UseInv, HandleInv
    <3>4. queue.status = "Executing" \/ waking # <<>> => cpc # "done"
      BY <1>1 DEF IInv, ListInv, UseInv, RecordInv, Ended
    <3>5. ASSUME NEW w \in Waiters, NamesTask(w) \/ ~ Unlocked(w) PROVE wpc[w] # "over"
      BY <1>1, <2>2, <3>5 DEF UseInv, RecordInv, HandleInv, NamesTask
    <3> QED  BY <3>2, <3>3, <3>4, <3>5 DEF TaskAliveWhileUsed
  <2> QED  BY <2>1, <2>2
<1> QED  BY <1>1, InitIInv, StepIInv, InitUse, StepUse, PTL DEF Spec

(* The result of an async let is put into its buffer once, is there when   *)
(* the parent goes on with it, and is destroyed exactly if it was there,   *)
(* whether the task ends before, during or after what the parent does.     *)
THEOREM BufferInitialisedOnce == Spec => []BufferSound
<1>1. ASSUME IInv, UseInv PROVE BufferSound
  <2> SUFFICES ASSUME AsyncLet PROVE BufferSound
    BY DEF BufferSound
  <2>1. Content \in {<<0, 0>>, <<1, 0>>, <<1, 1>>}
    <3>1. wpc[Parent] \in {"idle"} \cup Waiting \cup Left
      BY <1>1, ParentAssumption DEF IInv, TypeInv, Places, Waiting, Left
    <3> QED  BY <1>1, <3>1 DEF UseInv, BufferInv
  <2>2. buffer.initialised <= 1 /\ buffer.destroyed <= buffer.initialised
    BY <2>1 DEF Content
  <2> QED  BY <1>1, <2>2 DEF UseInv, BufferInv, BufferSound, Content, Left, At
<1> QED  BY <1>1, InitIInv, StepIInv, InitUse, StepUse, PTL DEF Spec
=============================================================================
