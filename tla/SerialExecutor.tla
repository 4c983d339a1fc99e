--------------------------- MODULE SerialExecutor ---------------------------
(***************************************************************************)
(* What a default actor promises the tasks that hop to it: one of them     *)
(* runs at a time, and those that wait run by priority and, within one     *)
(* priority, in the order in which they came.                              *)
(***************************************************************************)
EXTENDS Integers, Sequences

CONSTANTS
  Jobs,
  Priority,  \* Priority[j]: higher runs first
  NoJob

VARIABLES
  queue,    \* jobs that wait, in the order of their arrival
  running   \* the job that has the executor, or NoJob

execVars == <<queue, running>>

Init == queue = <<>> /\ running = NoJob

Waiting == {queue[i] : i \in DOMAIN queue}

(* The first of those with the highest priority.                           *)
First ==
  CHOOSE i \in DOMAIN queue :
    \A k \in DOMAIN queue \ {i} :
      \/ Priority[queue[i]] > Priority[queue[k]]
      \/ Priority[queue[i]] = Priority[queue[k]] /\ i < k

Arrive(j) ==
  /\ j \notin Waiting
  /\ queue' = Append(queue, j)
  /\ UNCHANGED running

Start ==
  /\ running = NoJob /\ queue # <<>>
  /\ running' = queue[First]
  /\ queue' = SubSeq(queue, 1, First - 1) \o SubSeq(queue, First + 1, Len(queue))

(* A job that finds the executor free need not wait.                       *)
Enter(j) ==
  /\ running = NoJob /\ queue = <<>>
  /\ running' = j
  /\ UNCHANGED queue

Leave ==
  /\ running # NoJob
  /\ running' = NoJob
  /\ UNCHANGED queue

Next == (\E j \in Jobs : Arrive(j) \/ Enter(j)) \/ Start \/ Leave

Spec == Init /\ [][Next]_execVars
=============================================================================
