------------------------- MODULE DefaultActor_proofs -------------------------
(***************************************************************************)
(* Proofs about the default actor, for any tasks, threads, escalators and  *)
(* priorities.  At most one thread is on it; its references obey the rules *)
(* of ownership, so that it is there as long as it is used; its maximum    *)
(* priority covers its queue; and it implements the serial executor, for   *)
(* which the list merger is shown to keep every node and their order.      *)
(***************************************************************************)
EXTENDS DefaultActor, TLAPS, SequenceTheorems, FiniteSetTheorems, WellFoundedInduction,
        NaturalsInduction

States == {"Idle", "Scheduled", "Running", "Zombie"}

Places == Inside \cup {"idle", "generic", "enqueue", "lock", "leave", "isolated"}

WordType ==
  /\ status = [state |-> status.state, priority |-> status.priority, owner |-> status.owner]
  /\ status.state \in States

LocationType == pc \in [Threads -> Places]

(* The inductive invariant: the lock is held exactly inside.               *)
LockInv == WordType /\ LocationType /\ MutualExclusion

LEMMA InitLock == Init => LockInv
BY DEF Init, LockInv, WordType, LocationType, MutualExclusion, IdleStatus, States, Places, Inside

-----------------------------------------------------------------------------
(* What the steps do to the word and to the thread that takes them.        *)

Moves(t, where) == pc' = [pc EXCEPT ![t] = where]

(* A step of a thread that neither takes nor gives up the lock.            *)
LEMMA StaysOut ==
  ASSUME LockInv, NEW t \in Threads, NEW where \in Places,
         Moves(t, where), pc[t] \in Inside <=> where \in Inside,
         WordType', status'.owner = status.owner,
         status'.state \in {"Running", "Zombie"} <=> status.state \in {"Running", "Zombie"}
  PROVE  LockInv'
<1>1. LocationType'
  BY DEF LockInv, LocationType, Moves
<1>2. \A s \in Threads : pc'[s] \in Inside <=> pc[s] \in Inside
  BY DEF LockInv, LocationType, Moves
<1>3. MutualExclusion'
  BY <1>2 DEF LockInv, MutualExclusion
<1> QED  BY <1>1, <1>3 DEF LockInv

(* A thread takes the lock of an actor that nobody runs.                   *)
LEMMA TakesLock ==
  ASSUME LockInv, NEW t \in Threads, NEW where \in Inside,
         Moves(t, where), WordType',
         status.state \notin {"Running", "Zombie"},
         status'.state = "Running", status'.owner = t
  PROVE  LockInv'
<1>1. LocationType'
  BY DEF LockInv, LocationType, Moves, Places
<1>2. \A s \in Threads : pc[s] \notin Inside
  BY DEF LockInv, MutualExclusion
<1>3. \A s \in Threads : pc'[s] \in Inside <=> s = t
  BY <1>2 DEF LockInv, LocationType, Moves
<1>4. MutualExclusion'
  BY <1>3 DEF MutualExclusion
<1> QED  BY <1>1, <1>4 DEF LockInv

(* The owner gives it up.                                                  *)
LEMMA GivesUpLock ==
  ASSUME LockInv, NEW t \in Threads, NEW where \in Places \ Inside,
         Moves(t, where), pc[t] \in Inside, WordType',
         status'.state \in {"Idle", "Scheduled"}
  PROVE  LockInv'
<1>1. LocationType'
  BY DEF LockInv, LocationType, Moves
<1>2. \A s \in Threads : s # t => pc[s] \notin Inside
  BY DEF LockInv, MutualExclusion
<1>3. \A s \in Threads : pc'[s] \notin Inside
  BY <1>2 DEF LockInv, LocationType, Moves
<1>4. MutualExclusion'
  BY <1>3 DEF MutualExclusion
<1> QED  BY <1>1, <1>4 DEF LockInv

-----------------------------------------------------------------------------
(* The steps that several actions share.                                   *)

LEMMA DeallocateKeepsOwner ==
  ASSUME WordType, Deallocate \/ Release
  PROVE  /\ WordType' /\ status'.owner = status.owner
         /\ status'.state \in {"Running", "Zombie"} <=> status.state \in {"Running", "Zombie"}
BY DEF Deallocate, Release, WordType, States

LEMMA GiveUpResult ==
  ASSUME WordType, NEW t \in Threads, GiveUpActor(t)
  PROVE  WordType' /\ status'.state \in {"Idle", "Scheduled"}
<1>1. \/ status' = IdleStatus
      \/ status' = [status EXCEPT !.state = "Scheduled", !.owner = NoThread]
  BY DEF GiveUpActor
<1>2. CASE status' = IdleStatus
  BY <1>2 DEF IdleStatus, WordType, States
<1>3. CASE status' = [status EXCEPT !.state = "Scheduled", !.owner = NoThread]
  BY <1>3 DEF WordType, States
<1> QED  BY <1>1, <1>2, <1>3

LEMMA ReturnMoves ==
  ASSUME NEW t \in Threads, Return(t)
  PROVE  \E where \in {"leave", "idle"} : Moves(t, where)
BY DEF Return, Goto, Moves

(* A step that leaves the word and all threads where they are.             *)
LEMMA Unmoved ==
  ASSUME LockInv, UNCHANGED pc, WordType', status'.owner = status.owner,
         status'.state \in {"Running", "Zombie"} <=> status.state \in {"Running", "Zombie"}
  PROVE  LockInv'
BY DEF LockInv, LocationType, MutualExclusion

-----------------------------------------------------------------------------

LEMMA ThreadStepKeepsLock ==
  ASSUME LockInv, NEW t \in Threads, ThreadStep(t)
  PROVE  LockInv'
<1> USE DEF LockInv, At, Goto, Places, Inside
<1>0. WordType  OBVIOUS
<1>1. CASE \E j \in Jobs : RunTask(t, j) \/ ResumeOnActor(t, j) \/ RunIsolated(t, j)
  <2>1. UNCHANGED status /\ pc[t] = "idle" /\ \E where \in Places \ Inside : Moves(t, where)
    BY <1>1 DEF RunTask, ResumeOnActor, RunIsolated, Moves, wordVars
  <2> QED  BY <2>1, StaysOut DEF WordType
<1>2. CASE SwitchFast(t)
  <2>1. Moves(t, "actor")
    BY <1>2 DEF SwitchFast, Moves
  <2>2. WordType' /\ status.state = "Idle" /\ status'.state = "Running" /\ status'.owner = t
    BY <1>0, <1>2 DEF SwitchFast, WordType, States
  <2> QED  BY <2>1, <2>2, TakesLock
<1>3. CASE SwitchSlow(t)
  BY <1>3, StaysOut DEF SwitchSlow, Moves, wordVars, WordType
<1>4. CASE Enqueue(t)
  <2>1. pc[t] = "enqueue" /\ Return(t)
    BY <1>4 DEF Enqueue
  <2>2. PICK where \in {"leave", "idle"} : Moves(t, where)
    BY <2>1, ReturnMoves
  <2>3. /\ WordType' /\ status'.owner = status.owner
        /\ status'.state \in {"Running", "Zombie"} <=> status.state \in {"Running", "Zombie"}
    BY <1>0, <1>4 DEF Enqueue, WordType, States
  <2> QED  BY <2>1, <2>2, <2>3, StaysOut
<1>5. CASE EnqueueOnTaskExecutor(t)
  <2>1. pc[t] = "enqueue" /\ Return(t) /\ UNCHANGED status
    BY <1>5 DEF EnqueueOnTaskExecutor, wordVars
  <2>2. PICK where \in {"leave", "idle"} : Moves(t, where)
    BY <2>1, ReturnMoves
  <2> QED  BY <2>1, <2>2, StaysOut DEF WordType
<1>6. CASE Schedule(t) \/ Steal(t) \/ Override(t) \/ PreprocessNew(t)
  BY <1>6, Unmoved DEF Schedule, Steal, Override, PreprocessNew, wordVars, threadVars, WordType
<1>7. CASE Process(t)
  BY <1>7, StaysOut DEF Process, Moves, wordVars, WordType
<1>8. CASE LockToDrain(t)
  <2>1. Moves(t, "drain")
    BY <1>8 DEF LockToDrain, Moves
  <2>2. WordType' /\ status.state = "Scheduled" /\ status'.state = "Running" /\ status'.owner = t
    BY <1>0, <1>8 DEF LockToDrain, WordType, States
  <2> QED  BY <2>1, <2>2, TakesLock
<1>9. CASE LoseRace(t) \/ LeaveDrain(t)
  <2>1. Release /\ pc[t] \notin Inside /\ \E where \in Places \ Inside : Moves(t, where)
    BY <1>9 DEF LoseRace, LeaveDrain, Moves
  <2> QED  BY <1>0, <2>1, DeallocateKeepsOwner, StaysOut
<1>10. CASE Preprocess(t) \/ DrainNothing(t) \/ DrainOne(t) \/ Start(t) \/ UnlockFails(t)
  <2>1. UNCHANGED status /\ pc[t] \in Inside /\ \E where \in Inside : Moves(t, where)
    BY <1>10 DEF Preprocess, DrainNothing, DrainOne, Start, UnlockFails, Moves, wordVars
  <2> QED  BY <2>1, StaysOut DEF WordType
<1>11. CASE UnlockIdle(t) \/ GiveUp(t)
  <2>1. GiveUpActor(t) /\ Return(t) /\ pc[t] \in Inside
    BY <1>11 DEF UnlockIdle, GiveUp
  <2>2. PICK where \in {"leave", "idle"} : Moves(t, where)
    BY <2>1, ReturnMoves
  <2> QED  BY <1>0, <2>1, <2>2, GiveUpResult, GivesUpLock
<1>12. CASE HopOff(t)
  <2>1. GiveUpActor(t) /\ pc[t] \in Inside /\ Moves(t, "generic")
    BY <1>12 DEF HopOff, Moves
  <2> QED  BY <1>0, <2>1, GiveUpResult, GivesUpLock
<1>13. CASE DropReference(t)
  BY <1>0, <1>13, DeallocateKeepsOwner, Unmoved DEF DropReference, threadVars
<1>14. CASE EndOfStretch(t)
  <2>1. CASE pc[t] # "actor"
    <3>1. pc[t] \notin Inside /\ Return(t) /\ UNCHANGED status
      BY <1>14, <2>1 DEF EndOfStretch, wordVars
    <3>2. PICK where \in {"leave", "idle"} : Moves(t, where)
      BY <3>1, ReturnMoves
    <3> QED  BY <3>1, <3>2, StaysOut DEF WordType
  <2>2. CASE pc[t] = "actor"
    <3>1. UNCHANGED status /\ \E where \in Inside : Moves(t, where)
      BY <1>14, <2>2 DEF EndOfStretch, Moves, wordVars
    <3> QED  BY <2>2, <3>1, StaysOut DEF WordType
  <2> QED  BY <2>1, <2>2
<1>15. CASE LeaveIsolation(t)
  BY <1>15, StaysOut DEF LeaveIsolation, Moves, wordVars, WordType
<1> QED
  BY <1>1, <1>2, <1>3, <1>4, <1>5, <1>6, <1>7, <1>8, <1>9, <1>10, <1>11, <1>12, <1>13,
     <1>14, <1>15 DEF ThreadStep

LEMMA EscalatorStepKeepsLock ==
  ASSUME LockInv, NEW e \in Escalators, EscalatorStep(e)
  PROVE  LockInv'
<1>1. UNCHANGED pc
  BY DEF EscalatorStep, LockTask, RaisePriority, EscalatorOverrides, EscalatorSteals,
         UnlockTask, threadVars
<1>2. /\ WordType' /\ status'.owner = status.owner
      /\ status'.state \in {"Running", "Zombie"} <=> status.state \in {"Running", "Zombie"}
  BY DEF EscalatorStep, LockTask, RaisePriority, EscalatorOverrides, EscalatorSteals,
         UnlockTask, wordVars, LockInv, WordType, States
<1> QED  BY <1>1, <1>2, Unmoved

LEMMA StepKeepsLock == LockInv /\ [Next]_vars => LockInv'
<1> SUFFICES ASSUME LockInv, [Next]_vars PROVE LockInv'
  OBVIOUS
<1>1. CASE \E t \in Threads : ThreadStep(t)
  BY <1>1, ThreadStepKeepsLock
<1>2. CASE \E e \in Escalators : EscalatorStep(e)
  BY <1>2, EscalatorStepKeepsLock
<1>3. CASE UNCHANGED vars
  BY <1>3, Unmoved DEF vars, wordVars, threadVars, LockInv, WordType
<1> QED  BY <1>1, <1>2, <1>3 DEF Next

(* The drain lock works: through switches, lost races of processing jobs,  *)
(* forced unlocks and the zombie state, the thread that drains the actor   *)
(* or runs a task on it is its owner, so that there is one such thread.    *)
THEOREM OneThreadOnTheActor == Spec => []MutualExclusion
<1>1. LockInv => MutualExclusion
  BY DEF LockInv
<1> QED  BY InitLock, StepKeepsLock, <1>1, PTL DEF Spec

-----------------------------------------------------------------------------
(* Induction over an interval, for a set of numbers rather than a formula. *)

LEMMA LeastNumber ==
  ASSUME NEW T \in SUBSET Nat, T # {}
  PROVE  \E k \in T : \A i \in T : k <= i
<1> DEFINE Less == OpToRel(<, Nat)
<1>1. \A x, y \in Nat : x < y => <<x, y>> \in Less
  BY DEF OpToRel
<1>2. IsWellFoundedOn(Less, Nat)
  BY NatLessThanWellFounded
<1> HIDE DEF Less
<1>3. PICK k \in T : \A i \in T : ~ (<<i, k>> \in Less)
  BY <1>2, WFMin
<1>4. \A i \in T : ~ (i < k)
  BY <1>1, <1>3
<1> QED  BY <1>4

LEMMA InductionUpTo ==
  ASSUME NEW n \in Nat, NEW P, 0 \in P, \A k \in 1 .. n : k - 1 \in P => k \in P
  PROVE  \A k \in 0 .. n : k \in P
<1> DEFINE Missing == (0 .. n) \ P
<1> SUFFICES ASSUME Missing # {} PROVE FALSE
  OBVIOUS
<1>1. Missing \in SUBSET Nat
  OBVIOUS
<1>2. PICK k \in Missing : \A i \in Missing : k <= i
  BY <1>1, LeastNumber
<1>3. k \in 1 .. n /\ k - 1 \in 0 .. n
  BY <1>2
<1>4. k - 1 \notin Missing
  BY <1>2, <1>3
<1> QED  BY <1>2, <1>3, <1>4

-----------------------------------------------------------------------------
(* The list merger keeps every node it is given, once.                     *)

Nodes(s) == {s[i] : i \in DOMAIN s}

(* The list s consists of the nodes of E, each of them once.               *)
Lists(s, E) ==
  /\ s \in Seq(E) /\ Nodes(s) = E
  /\ \A i, k \in DOMAIN s : s[i] = s[k] => i = k

LEMMA EmptyLists == Lists(<<>>, {})
BY DEF Lists, Nodes

LEMMA NoNodes ==
  ASSUME NEW s, s = <<>>
  PROVE  Nodes(s) = {} /\ Lists(s, Nodes(s))
<1>1. Nodes(s) = {}
  BY DEF Nodes
<1> QED  BY <1>1, EmptyLists

LEMMA AppendLists ==
  ASSUME NEW s, NEW E, Lists(s, E), NEW x, x \notin E
  PROVE  Lists(Append(s, x), E \cup {x})
<1> DEFINE r == Append(s, x)
<1>1. s \in Seq(E \cup {x}) /\ Len(s) \in Nat /\ DOMAIN s = 1 .. Len(s)
  BY DEF Lists
<1>2. r \in Seq(E \cup {x}) /\ DOMAIN r = 1 .. Len(s) + 1
  BY <1>1
<1>3. \A i \in 1 .. Len(s) : r[i] = s[i] /\ r[i] \in E
  BY <1>1 DEF Lists
<1>4. r[Len(s) + 1] = x
  BY <1>1
<1> HIDE DEF r
<1>5. \A i, k \in DOMAIN r : r[i] = r[k] => i = k
  <2>1. \A i \in DOMAIN r : i \in 1 .. Len(s) \/ i = Len(s) + 1
    BY <1>1, <1>2
  <2> QED  BY <1>1, <1>3, <1>4, <2>1 DEF Lists
<1>6. Nodes(r) = E \cup {x}
  <2>1. Nodes(r) \subseteq E \cup {x}
    BY <1>1, <1>2 DEF Nodes
  <2>2. x \in Nodes(r)
    BY <1>1, <1>2, <1>4 DEF Nodes
  <2>3. ASSUME NEW y \in E PROVE y \in Nodes(r)
    <3>1. PICK i \in DOMAIN s : y = s[i]
      BY DEF Lists, Nodes
    <3> QED  BY <1>1, <1>2, <1>3, <3>1 DEF Nodes
  <2> QED  BY <2>1, <2>2, <2>3
<1> QED  BY <1>2, <1>5, <1>6 DEF Lists, r

Inserted(s, x, at) == SubSeq(s, 1, at - 1) \o <<x>> \o SubSeq(s, at, Len(s))

WithInserted(s, x, at, r) ==
  /\ DOMAIN r = 1 .. Len(s) + 1
  /\ \A i \in 1 .. Len(s) + 1 : r[i] = IF i < at THEN s[i] ELSE IF i = at THEN x ELSE s[i - 1]

LEMMA InsertEntries ==
  ASSUME NEW s, NEW E, s \in Seq(E), NEW x, NEW at \in 1 .. Len(s) + 1
  PROVE  /\ Inserted(s, x, at) \in Seq(E \cup {x})
         /\ WithInserted(s, x, at, Inserted(s, x, at))
<1> DEFINE front == SubSeq(s, 1, at - 1)
           back == SubSeq(s, at, Len(s))
           r == front \o <<x>> \o back
<1>1. s \in Seq(E \cup {x}) /\ Len(s) \in Nat /\ DOMAIN s = 1 .. Len(s)
  OBVIOUS
<1>2. /\ front \in Seq(E \cup {x}) /\ Len(front) = at - 1
      /\ \A i \in 1 .. at - 1 : front[i] = s[i]
  BY <1>1
<1>3. /\ back \in Seq(E \cup {x}) /\ Len(back) = Len(s) + 1 - at
      /\ \A i \in 1 .. Len(s) + 1 - at : back[i] = s[at + i - 1]
  BY <1>1
<1>4. r = Inserted(s, x, at)
  BY DEF Inserted
<1> HIDE DEF front, back
<1>5. /\ r \in Seq(E \cup {x}) /\ DOMAIN r = 1 .. Len(s) + 1
      /\ \A i \in 1 .. Len(s) + 1 :
           r[i] = IF i < at THEN front[i] ELSE IF i = at THEN x ELSE back[i - at]
  <2> DEFINE a == front \o <<x>>
  <2>1. /\ a \in Seq(E \cup {x}) /\ Len(a) = at
        /\ \A i \in 1 .. at : a[i] = IF i < at THEN front[i] ELSE x
    BY <1>2
  <2> HIDE DEF a
  <2>2. /\ a \o back \in Seq(E \cup {x}) /\ Len(a \o back) = Len(s) + 1
        /\ \A i \in 1 .. Len(s) + 1 :
             (a \o back)[i] = IF i <= at THEN a[i] ELSE back[i - at]
    <3>1. a \o back \in Seq(E \cup {x}) /\ Len(a \o back) = Len(a) + Len(back)
      BY <1>3, <2>1, ConcatProperties
    <3>2. Len(a \o back) = Len(s) + 1
      BY <1>1, <1>3, <2>1, <3>1
    <3>3. \A i \in 1 .. Len(a) + Len(back) :
            (a \o back)[i] = IF i <= Len(a) THEN a[i] ELSE back[i - Len(a)]
      BY <1>3, <2>1
    <3>4. Len(a) + Len(back) = Len(s) + 1 /\ Len(a) = at
      BY <1>1, <1>3, <2>1
    <3> QED  BY <3>1, <3>2, <3>3, <3>4
  <2>3. r = a \o back
    BY DEF a
  <2> HIDE DEF r
  <2>4. r \in Seq(E \cup {x}) /\ DOMAIN r = 1 .. Len(s) + 1
    BY <2>2, <2>3
  <2>5. ASSUME NEW i \in 1 .. Len(s) + 1
        PROVE  r[i] = IF i < at THEN front[i] ELSE IF i = at THEN x ELSE back[i - at]
    <3>1. r[i] = IF i <= at THEN a[i] ELSE back[i - at]
      BY <2>2, <2>3
    <3>2. i <= at => i \in 1 .. at
      OBVIOUS
    <3>3. i <= at => a[i] = IF i < at THEN front[i] ELSE x
      BY <2>1, <3>2
    <3> QED  BY <1>1, <3>1, <3>3
  <2> QED  BY <2>4, <2>5
<1> HIDE DEF r
<1>6. \A i \in 1 .. Len(s) + 1 : i < at => front[i] = s[i]
  BY <1>2
<1>7. ASSUME NEW i \in 1 .. Len(s) + 1, i > at
      PROVE  back[i - at] = s[i - 1]
  <2>1. i - at \in 1 .. Len(s) + 1 - at /\ at + (i - at) - 1 = i - 1
    BY <1>1, <1>7
  <2> QED  BY <1>3, <2>1
<1>8. \A i \in 1 .. Len(s) + 1 :
        r[i] = IF i < at THEN s[i] ELSE IF i = at THEN x ELSE s[i - 1]
  <2> SUFFICES ASSUME NEW i \in 1 .. Len(s) + 1
               PROVE  r[i] = IF i < at THEN s[i] ELSE IF i = at THEN x ELSE s[i - 1]
    OBVIOUS
  <2>1. r[i] = IF i < at THEN front[i] ELSE IF i = at THEN x ELSE back[i - at]
    BY <1>5
  <2>2. i < at \/ i = at \/ i > at
    BY <1>1
  <2> QED  BY <1>1, <1>6, <1>7, <2>1, <2>2
<1> QED  BY <1>4, <1>5, <1>8 DEF WithInserted

LEMMA InsertLists ==
  ASSUME NEW s, NEW E, Lists(s, E), NEW x, x \notin E, NEW at \in 1 .. Len(s) + 1
  PROVE  Lists(SubSeq(s, 1, at - 1) \o <<x>> \o SubSeq(s, at, Len(s)), E \cup {x})
<1> DEFINE r == Inserted(s, x, at)
<1>1. s \in Seq(E) /\ Len(s) \in Nat /\ DOMAIN s = 1 .. Len(s)
  BY DEF Lists
<1>2. r \in Seq(E \cup {x}) /\ WithInserted(s, x, at, r)
  BY <1>1, InsertEntries
<1>3. DOMAIN r = 1 .. Len(s) + 1
  BY <1>2 DEF WithInserted
<1>4. \A i \in 1 .. Len(s) + 1 :
        r[i] = IF i < at THEN s[i] ELSE IF i = at THEN x ELSE s[i - 1]
  BY <1>2 DEF WithInserted
<1> HIDE DEF r
<1>5. \A i \in 1 .. Len(s) : s[i] \in E /\ s[i] # x
  BY <1>1
<1>6. \A i, k \in DOMAIN r : r[i] = r[k] => i = k
  <2>1. ASSUME NEW i \in 1 .. Len(s) + 1, i # at
        PROVE  \E d \in 1 .. Len(s) : r[i] = s[d] /\ d = IF i < at THEN i ELSE i - 1
    BY <1>1, <1>4, <2>1
  <2>2. r[at] = x
    BY <1>4
  <2>3. ASSUME NEW i \in 1 .. Len(s) + 1, NEW k \in 1 .. Len(s) + 1, i # at, k # at,
               r[i] = r[k]
        PROVE  i = k
    <3>1. PICK d \in 1 .. Len(s) : r[i] = s[d] /\ d = IF i < at THEN i ELSE i - 1
      BY <2>1, <2>3
    <3>2. PICK e \in 1 .. Len(s) : r[k] = s[e] /\ e = IF k < at THEN k ELSE k - 1
      BY <2>1, <2>3
    <3>3. d = e
      BY <1>1, <2>3, <3>1, <3>2 DEF Lists
    <3> QED  BY <2>3, <3>1, <3>2, <3>3
  <2>4. \A i \in 1 .. Len(s) + 1 : i # at => r[i] # x
    BY <1>5, <2>1
  <2> QED  BY <1>3, <2>2, <2>3, <2>4
<1>7. Nodes(r) = E \cup {x}
  <2>1. Nodes(r) \subseteq E \cup {x}
    <3>1. \A i \in DOMAIN r : r[i] \in E \cup {x}
      BY <1>2
    <3> QED  BY <3>1 DEF Nodes
  <2>2. x \in Nodes(r)
    BY <1>3, <1>4 DEF Nodes
  <2>3. ASSUME NEW y \in E PROVE y \in Nodes(r)
    <3>1. PICK i \in 1 .. Len(s) : y = s[i]
      BY <1>1 DEF Lists, Nodes
    <3>2. i + 1 \in 1 .. Len(s) + 1 /\ i \in 1 .. Len(s) + 1 /\ (i + 1) - 1 = i
      BY <1>1
    <3>3. CASE i < at
      BY <1>3, <1>4, <3>1, <3>2, <3>3 DEF Nodes
    <3>4. CASE i >= at
      <4>1. ~ (i + 1 < at) /\ i + 1 # at
        BY <1>1, <3>4
      <4>2. r[i + 1] = s[(i + 1) - 1]
        BY <1>4, <3>2, <4>1
      <4> QED  BY <1>3, <3>1, <3>2, <4>2 DEF Nodes
    <3> QED  BY <3>3, <3>4
  <2> QED  BY <2>1, <2>2, <2>3
<1>8. Lists(r, E \cup {x})
  BY <1>2, <1>6, <1>7 DEF Lists
<1> QED  BY <1>8 DEF r, Inserted

LEMMA InsertAtFrontLists ==
  ASSUME NEW m, NEW E, Lists(m.list, E), m.point \in Nat, NEW n, n \notin E
  PROVE  /\ Lists(InsertAtFront(m, n).list, E \cup {n})
         /\ InsertAtFront(m, n).point \in Nat
<1> DEFINE stops == {k \in SearchStart(m, n) .. Len(m.list) : NotBefore(m.list[k], n)}
           at == IF stops = {} THEN Len(m.list) + 1
                 ELSE CHOOSE k \in stops : \A i \in stops : k <= i
<1>1. Len(m.list) \in Nat
  BY DEF Lists
<1>2. SearchStart(m, n) \in Nat \ {0}
  BY DEF SearchStart
<1>3. stops \in SUBSET (1 .. Len(m.list)) /\ stops \in SUBSET Nat
  BY <1>1, <1>2
<1>4. at \in 1 .. Len(m.list) + 1
  <2> HIDE DEF stops
  <2>1. CASE stops # {}
    <3>1. at \in stops
      BY <1>3, <2>1, LeastNumber
    <3> HIDE DEF at
    <3> QED  BY <1>1, <1>3, <3>1
  <2> QED  BY <1>1, <2>1
<1>5. InsertAtFront(m, n) =
        [list  |-> SubSeq(m.list, 1, at - 1) \o <<n>> \o SubSeq(m.list, at, Len(m.list)),
         point |-> at - 1]
  BY DEF InsertAtFront
<1> HIDE DEF at
<1>6. Lists(SubSeq(m.list, 1, at - 1) \o <<n>> \o SubSeq(m.list, at, Len(m.list)), E \cup {n})
  BY <1>4, InsertLists
<1> QED  BY <1>1, <1>4, <1>5, <1>6

(* The recursion of SortReversed, as a function of the function it defines.*)
Sorting(nodes, f) ==
  [k \in 0 .. Len(nodes) |->
     IF k = 0 THEN [list |-> <<>>, point |-> 0] ELSE InsertAtFront(f[k - 1], nodes[k])]

LEMMA SortingDefined ==
  ASSUME NEW nodes, Len(nodes) \in Nat
  PROVE  \E f : f = Sorting(nodes, f)
<1> DEFINE n == Len(nodes)
           Good(f, k) == \A i \in 0 .. k : f[i] = Sorting(nodes, f)[i]
           P == {k \in 0 .. n : \E f : Good(f, k)}
<1>1. 0 \in P
  <2>1. Good(Sorting(nodes, <<>>), 0)
    BY DEF Sorting
  <2> QED  BY <2>1
<1>2. ASSUME NEW k \in 1 .. n, k - 1 \in P
      PROVE  k \in P
  <2>1. PICK f : Good(f, k - 1)
    BY <1>2
  <2> DEFINE g == Sorting(nodes, f)
  <2>2. \A i \in 0 .. k - 1 : g[i] = f[i]
    BY <2>1
  <2>3. ASSUME NEW i \in 0 .. k
        PROVE  g[i] = Sorting(nodes, g)[i]
    <3>1. i = 0 \/ (i - 1 \in 0 .. k - 1 /\ g[i - 1] = f[i - 1])
      BY <1>2, <2>2
    <3>2. i \in 0 .. n
      BY <1>2
    <3> HIDE DEF g
    <3>3. Sorting(nodes, f)[i] = Sorting(nodes, g)[i]
      BY <3>1, <3>2 DEF Sorting
    <3> QED  BY <3>3 DEF g
  <2> QED  BY <2>3
<1>3. n \in P
  <2>1. n \in Nat /\ n \in 0 .. n
    OBVIOUS
  <2> HIDE DEF P, n
  <2> QED  BY <1>1, <1>2, <2>1, InductionUpTo
<1>4. PICK f : Good(f, n)
  BY <1>3
<1> DEFINE g == Sorting(nodes, f)
<1>5. Sorting(nodes, f) = Sorting(nodes, g)
  <2>1. \A i \in 0 .. n : f[i] = g[i]
    BY <1>4
  <2> HIDE DEF g
  <2>2. \A i \in 0 .. n : i # 0 => i - 1 \in 0 .. n
    OBVIOUS
  <2> QED  BY <2>1, <2>2 DEF Sorting
<1> QED  BY <1>5

LEMMA SortSteps ==
  ASSUME NEW nodes, Len(nodes) \in Nat
  PROVE  \E f : /\ SortReversed(nodes) = f[Len(nodes)].list
                /\ f[0] = [list |-> <<>>, point |-> 0]
                /\ \A k \in 1 .. Len(nodes) : f[k] = InsertAtFront(f[k - 1], nodes[k])
<1> DEFINE f == CHOOSE g : g = Sorting(nodes, g)
<1>1. SortReversed(nodes) = f[Len(nodes)].list
  BY DEF SortReversed, Sorting
<1>2. f = Sorting(nodes, f)
  BY SortingDefined
<1> HIDE DEF f
<1>3. f[0] = [list |-> <<>>, point |-> 0]
  BY <1>2 DEF Sorting
<1>4. \A k \in 1 .. Len(nodes) : f[k] = InsertAtFront(f[k - 1], nodes[k])
  BY <1>2 DEF Sorting
<1> QED  BY <1>1, <1>3, <1>4

LEMMA SortReversedLists ==
  ASSUME NEW nodes, NEW E, Lists(nodes, E)
  PROVE  Lists(SortReversed(nodes), E)
<1> DEFINE n == Len(nodes)
           Upto(k) == {nodes[i] : i \in 1 .. k}
<1>1. n \in Nat /\ DOMAIN nodes = 1 .. n
  BY DEF Lists
<1>2. PICK f : /\ SortReversed(nodes) = f[n].list
               /\ f[0] = [list |-> <<>>, point |-> 0]
               /\ \A k \in 1 .. n : f[k] = InsertAtFront(f[k - 1], nodes[k])
  BY <1>1, SortSteps
<1> DEFINE P == {k \in 0 .. n : Lists(f[k].list, Upto(k)) /\ f[k].point \in Nat}
<1>3. 0 \in P
  <2>1. Upto(0) = {} /\ 0 \in 0 .. n
    BY <1>1
  <2>2. f[0].list = <<>> /\ f[0].point \in Nat
    BY <1>2
  <2> HIDE DEF Upto, n
  <2>3. Lists(f[0].list, Upto(0))
    BY <2>1, <2>2, EmptyLists
  <2> QED  BY <2>1, <2>2, <2>3
<1>4. ASSUME NEW k \in 1 .. n, k - 1 \in P
      PROVE  k \in P
  <2>1. nodes[k] \notin Upto(k - 1)
    BY <1>1 DEF Lists
  <2>2. Upto(k) = Upto(k - 1) \cup {nodes[k]}
    BY <1>1
  <2>3. Lists(f[k - 1].list, Upto(k - 1)) /\ f[k - 1].point \in Nat
    BY <1>4
  <2>4. f[k] = InsertAtFront(f[k - 1], nodes[k])
    BY <1>2
  <2> HIDE DEF Upto
  <2>5. Lists(f[k].list, Upto(k - 1) \cup {nodes[k]}) /\ f[k].point \in Nat
    BY <2>1, <2>3, <2>4, InsertAtFrontLists
  <2>6. Lists(f[k].list, Upto(k)) /\ k \in 0 .. n
    BY <1>1, <2>2, <2>5
  <2> HIDE DEF n
  <2> QED  BY <2>5, <2>6
<1>5. n \in P
  <2>1. n \in 0 .. n
    BY <1>1
  <2> HIDE DEF P, n
  <2> QED  BY <1>1, <1>3, <1>4, <2>1, InductionUpTo
<1>6. Upto(n) = E
  BY <1>1 DEF Lists, Nodes
<1> QED  BY <1>2, <1>5, <1>6

(* The recursion of Merge.                                                 *)
Merging(list, new, f) ==
  [k \in 0 .. Len(list) + Len(new) |->
     IF k = 0 THEN [taken |-> 0, nodes |-> <<>>] ELSE TakeNext(list, new, f[k - 1], k)]

LEMMA MergingDefined ==
  ASSUME NEW list, NEW new, Len(list) + Len(new) \in Nat
  PROVE  \E f : f = Merging(list, new, f)
<1> DEFINE n == Len(list) + Len(new)
           Good(f, k) == \A i \in 0 .. k : f[i] = Merging(list, new, f)[i]
           P == {k \in 0 .. n : \E f : Good(f, k)}
<1>0. ASSUME NEW f, NEW g, NEW i \in 0 .. n, i = 0 \/ f[i - 1] = g[i - 1]
      PROVE  Merging(list, new, f)[i] = Merging(list, new, g)[i]
  BY <1>0 DEF Merging
<1>1. 0 \in P
  <2>1. Good(Merging(list, new, <<>>), 0)
    BY DEF Merging
  <2> QED  BY <2>1
<1>2. ASSUME NEW k \in 1 .. n, k - 1 \in P
      PROVE  k \in P
  <2>1. PICK f : Good(f, k - 1)
    BY <1>2
  <2> DEFINE g == Merging(list, new, f)
  <2>2. \A i \in 0 .. k - 1 : g[i] = f[i]
    BY <2>1
  <2>3. ASSUME NEW i \in 0 .. k
        PROVE  g[i] = Merging(list, new, g)[i]
    <3>1. i = 0 \/ (i - 1 \in 0 .. k - 1 /\ g[i - 1] = f[i - 1])
      BY <1>2, <2>2
    <3>2. i \in 0 .. n
      BY <1>2
    <3> HIDE DEF g, n
    <3>3. Merging(list, new, f)[i] = Merging(list, new, g)[i]
      BY <1>0, <3>1, <3>2
    <3> QED  BY <3>3 DEF g
  <2> QED  BY <2>3
<1>3. n \in P
  <2>1. n \in Nat /\ n \in 0 .. n
    OBVIOUS
  <2> HIDE DEF P, n
  <2> QED  BY <1>1, <1>2, <2>1, InductionUpTo
<1>4. PICK f : Good(f, n)
  BY <1>3
<1> DEFINE g == Merging(list, new, f)
<1>5. Merging(list, new, f) = Merging(list, new, g)
  <2>1. \A i \in 0 .. n : f[i] = g[i]
    BY <1>4
  <2> HIDE DEF g
  <2>2. ASSUME NEW i \in 0 .. n
        PROVE  Merging(list, new, f)[i] = Merging(list, new, g)[i]
    <3>1. i = 0 \/ i - 1 \in 0 .. n
      OBVIOUS
    <3>2. i = 0 \/ f[i - 1] = g[i - 1]
      BY <2>1, <3>1
    <3> HIDE DEF n
    <3> QED  BY <1>0, <3>2
  <2> QED  BY <2>2 DEF Merging
<1> QED  BY <1>5

MergedBy(list, new, f) ==
  /\ Merge(list, new) = f[Len(list) + Len(new)].nodes
  /\ f[0] = [taken |-> 0, nodes |-> <<>>]
  /\ \A k \in 1 .. Len(list) + Len(new) : f[k] = TakeNext(list, new, f[k - 1], k)

LEMMA MergeSteps ==
  ASSUME NEW list, NEW new, Len(list) + Len(new) \in Nat
  PROVE  \E f : MergedBy(list, new, f)
<1> DEFINE n == Len(list) + Len(new)
           f == CHOOSE g : g = Merging(list, new, g)
<1>1. Merge(list, new) = f[n].nodes
  BY DEF Merge, Merging
<1>2. f = Merging(list, new, f)
  BY MergingDefined
<1> HIDE DEF f
<1>3. f[0] = [taken |-> 0, nodes |-> <<>>]
  BY <1>2 DEF Merging
<1>4. \A k \in 1 .. n : f[k] = TakeNext(list, new, f[k - 1], k)
  BY <1>2 DEF Merging
<1>5. MergedBy(list, new, f)
  BY <1>1, <1>3, <1>4 DEF MergedBy
<1> QED  BY <1>5

(* One step takes the next node of the list or the next new one.           *)
Takes(list, new, nodes, i, j, r) ==
  \/ /\ i + 1 \in 1 .. Len(list)
     /\ j + 1 \in 1 .. Len(new) => NotAfter(list[i + 1], new[j + 1])
     /\ r = [taken |-> i + 1, nodes |-> Append(nodes, list[i + 1])]
  \/ /\ j + 1 \in 1 .. Len(new)
     /\ i + 1 \in 1 .. Len(list) => ~ NotAfter(list[i + 1], new[j + 1])
     /\ r = [taken |-> i, nodes |-> Append(nodes, new[j + 1])]

LEMMA TakeNextTakes ==
  ASSUME NEW list, NEW new, Len(list) \in Nat, Len(new) \in Nat, NEW m,
         NEW i \in 0 .. Len(list), NEW j \in 0 .. Len(new), m.taken = i,
         NEW k, k = i + j + 1, k <= Len(list) + Len(new)
  PROVE  Takes(list, new, m.nodes, i, j, TakeNext(list, new, m, k))
<1>1. k - i = j + 1
  OBVIOUS
<1>2. TakeNext(list, new, m, k)
        = IF i + 1 <= Len(list) /\ (j + 1 > Len(new) \/ NotAfter(list[i + 1], new[j + 1]))
          THEN [taken |-> i + 1, nodes |-> Append(m.nodes, list[i + 1])]
          ELSE [taken |-> i, nodes |-> Append(m.nodes, new[j + 1])]
  BY <1>1 DEF TakeNext
<1>3. /\ i + 1 <= Len(list) <=> i + 1 \in 1 .. Len(list)
      /\ j + 1 > Len(new) <=> ~ (j + 1 \in 1 .. Len(new))
  OBVIOUS
<1>4. i + 1 \in 1 .. Len(list) \/ j + 1 \in 1 .. Len(new)
  OBVIOUS
<1> QED  BY <1>2, <1>3, <1>4 DEF Takes

(* The first k nodes of a list.                                            *)
Upto(s, k) == {s[i] : i \in 1 .. k}

LEMMA UptoNext ==
  ASSUME NEW s, NEW E, Lists(s, E), NEW i \in Nat, i + 1 \in 1 .. Len(s)
  PROVE  /\ Upto(s, i + 1) = Upto(s, i) \cup {s[i + 1]} /\ s[i + 1] \notin Upto(s, i)
         /\ s[i + 1] \in E /\ Upto(s, i) \subseteq E
<1>1. Len(s) \in Nat /\ DOMAIN s = 1 .. Len(s) /\ \A d \in 1 .. Len(s) : s[d] \in E
  BY DEF Lists
<1>2. \A d \in 1 .. i : d \in 1 .. Len(s) /\ d # i + 1
  BY <1>1
<1>3. Upto(s, i + 1) = Upto(s, i) \cup {s[i + 1]}
  <2>1. 1 .. i + 1 = (1 .. i) \cup {i + 1}
    OBVIOUS
  <2> QED  BY <2>1 DEF Upto
<1>4. s[i + 1] \notin Upto(s, i)
  BY <1>1, <1>2 DEF Lists, Upto
<1>5. s[i + 1] \in E /\ Upto(s, i) \subseteq E
  BY <1>1, <1>2 DEF Upto
<1> QED  BY <1>3, <1>4, <1>5

(* After k steps of a merge the first so many nodes of both are taken.     *)
LEMMA MergeTakes ==
  ASSUME NEW list, NEW A, Lists(list, A), NEW new, NEW B, Lists(new, B), A \cap B = {},
         NEW f, f[0] = [taken |-> 0, nodes |-> <<>>],
         \A k \in 1 .. Len(list) + Len(new) : f[k] = TakeNext(list, new, f[k - 1], k)
  PROVE  \A k \in 0 .. Len(list) + Len(new) :
           /\ f[k].taken \in 0 .. Len(list) /\ k - f[k].taken \in 0 .. Len(new)
           /\ Lists(f[k].nodes, Upto(list, f[k].taken) \cup Upto(new, k - f[k].taken))
<1> DEFINE n == Len(list) + Len(new)
           Good(k) == /\ f[k].taken \in 0 .. Len(list) /\ k - f[k].taken \in 0 .. Len(new)
                      /\ Lists(f[k].nodes,
                               Upto(list, f[k].taken) \cup Upto(new, k - f[k].taken))
           P == {k \in 0 .. n : Good(k)}
<1>1. Len(list) \in Nat /\ Len(new) \in Nat
  BY DEF Lists
<1>2. 0 \in P
  <2>1. Upto(list, 0) \cup Upto(new, 0) = {} /\ 0 \in 0 .. n
    BY <1>1 DEF Upto
  <2>2. f[0].nodes = <<>> /\ f[0].taken = 0 /\ 0 - 0 = 0
    OBVIOUS
  <2>3. 0 \in 0 .. Len(list) /\ 0 \in 0 .. Len(new)
    BY <1>1
  <2>4. Lists(f[0].nodes, Upto(list, 0) \cup Upto(new, 0))
    BY <2>1, <2>2, EmptyLists
  <2> HIDE DEF n
  <2> QED  BY <2>1, <2>2, <2>3, <2>4
<1>3. ASSUME NEW k \in 1 .. n, k - 1 \in P
      PROVE  k \in P
  <2>1. Good(k - 1) /\ k \in 0 .. n
    <3>1. k \in 0 .. n
      BY <1>1
    <3> HIDE DEF Good
    <3> QED  BY <1>3, <3>1
  <2>2. f[k] = TakeNext(list, new, f[k - 1], k)
    OBVIOUS
  <2> DEFINE i == f[k - 1].taken
             j == k - 1 - i
  <2>3. /\ i \in 0 .. Len(list) /\ j \in 0 .. Len(new) /\ f[k - 1].taken = i
        /\ k = i + j + 1 /\ k <= Len(list) + Len(new) /\ k - i = j + 1 /\ k - (i + 1) = j
    <3>1. i \in 0 .. Len(list) /\ j \in 0 .. Len(new)
      BY <2>1
    <3>2. k \in Int /\ k <= Len(list) + Len(new) /\ j = (k - 1) - i
      BY <1>1
    <3> HIDE DEF i, j
    <3>3. k = i + j + 1 /\ k - i = j + 1 /\ k - (i + 1) = j
      BY <1>1, <3>1, <3>2
    <3> QED  BY <3>1, <3>2, <3>3 DEF i
  <2>4. Lists(f[k - 1].nodes, Upto(list, i) \cup Upto(new, j))
    BY <2>1
  <2> HIDE DEF Good, n, i, j
  <2>5. CASE /\ i + 1 \in 1 .. Len(list)
             /\ f[k] = [taken |-> i + 1, nodes |-> Append(f[k - 1].nodes, list[i + 1])]
    <3>1. f[k].taken = i + 1 /\ f[k].nodes = Append(f[k - 1].nodes, list[i + 1])
      BY <2>5
    <3>2. i + 1 \in 0 .. Len(list) /\ i \in Nat
      BY <1>1, <2>3, <2>5
    <3>3. /\ Upto(list, i + 1) = Upto(list, i) \cup {list[i + 1]}
          /\ list[i + 1] \notin Upto(list, i) /\ list[i + 1] \in A
      BY <2>5, <3>2, UptoNext
    <3>4. Upto(new, j) \subseteq B
      BY <1>1, <2>3 DEF Upto, Lists
    <3>5. Lists(f[k].nodes, Upto(list, i + 1) \cup Upto(new, j))
      <4>1. list[i + 1] \notin Upto(list, i) \cup Upto(new, j)
        BY <3>3, <3>4
      <4>2. Lists(f[k].nodes, (Upto(list, i) \cup Upto(new, j)) \cup {list[i + 1]})
        BY <2>4, <3>1, <4>1, AppendLists
      <4>3. (Upto(list, i) \cup Upto(new, j)) \cup {list[i + 1]}
              = Upto(list, i + 1) \cup Upto(new, j)
        BY <3>3
      <4> QED  BY <4>2, <4>3
    <3>6. Good(k)
      BY <2>3, <3>1, <3>2, <3>5 DEF Good
    <3> QED  BY <2>1, <3>6
  <2>6. CASE /\ j + 1 \in 1 .. Len(new)
             /\ f[k] = [taken |-> i, nodes |-> Append(f[k - 1].nodes, new[j + 1])]
    <3>1. f[k].taken = i /\ f[k].nodes = Append(f[k - 1].nodes, new[j + 1])
      BY <2>6
    <3>2. j + 1 \in 0 .. Len(new) /\ j \in Nat
      BY <1>1, <2>3, <2>6
    <3>3. /\ Upto(new, j + 1) = Upto(new, j) \cup {new[j + 1]}
          /\ new[j + 1] \notin Upto(new, j) /\ new[j + 1] \in B
      BY <2>6, <3>2, UptoNext
    <3>4. Upto(list, i) \subseteq A
      BY <1>1, <2>3 DEF Upto, Lists
    <3>5. Lists(f[k].nodes, Upto(list, i) \cup Upto(new, j + 1))
      <4>1. new[j + 1] \notin Upto(list, i) \cup Upto(new, j)
        BY <3>3, <3>4
      <4>2. Lists(f[k].nodes, (Upto(list, i) \cup Upto(new, j)) \cup {new[j + 1]})
        BY <2>4, <3>1, <4>1, AppendLists
      <4>3. (Upto(list, i) \cup Upto(new, j)) \cup {new[j + 1]}
              = Upto(list, i) \cup Upto(new, j + 1)
        BY <3>3
      <4> QED  BY <4>2, <4>3
    <3>6. Good(k)
      BY <2>3, <3>1, <3>2, <3>5 DEF Good
    <3> QED  BY <2>1, <3>6
  <2>7. \/ /\ i + 1 \in 1 .. Len(list)
           /\ f[k] = [taken |-> i + 1, nodes |-> Append(f[k - 1].nodes, list[i + 1])]
        \/ /\ j + 1 \in 1 .. Len(new)
           /\ f[k] = [taken |-> i, nodes |-> Append(f[k - 1].nodes, new[j + 1])]
    <3>1. Takes(list, new, f[k - 1].nodes, i, j, f[k])
      BY <1>1, <2>2, <2>3, TakeNextTakes
    <3> QED  BY <3>1 DEF Takes
  <2> QED  BY <2>5, <2>6, <2>7
<1>4. \A k \in 0 .. n : k \in P
  <2>1. n \in Nat
    BY <1>1
  <2> HIDE DEF P, n
  <2> QED  BY <1>2, <1>3, <2>1, InductionUpTo
<1> QED  BY <1>4

LEMMA MergeLists ==
  ASSUME NEW list, NEW A, Lists(list, A), NEW new, NEW B, Lists(new, B), A \cap B = {}
  PROVE  Lists(Merge(list, new), A \cup B)
<1> DEFINE n == Len(list) + Len(new)
<1>1. Len(list) \in Nat /\ Len(new) \in Nat /\ n \in Nat /\ n \in 0 .. n
  BY DEF Lists
<1>2. PICK f : MergedBy(list, new, f)
  BY <1>1, MergeSteps
<1>3. /\ Merge(list, new) = f[n].nodes
      /\ f[0] = [taken |-> 0, nodes |-> <<>>]
      /\ \A k \in 1 .. n : f[k] = TakeNext(list, new, f[k - 1], k)
  BY <1>2 DEF MergedBy
<1>4. /\ f[n].taken \in 0 .. Len(list) /\ n - f[n].taken \in 0 .. Len(new)
      /\ Lists(f[n].nodes, Upto(list, f[n].taken) \cup Upto(new, n - f[n].taken))
  BY <1>1, <1>3, MergeTakes
<1>5. f[n].taken = Len(list) /\ n - f[n].taken = Len(new)
  BY <1>1, <1>4
<1>6. Upto(list, Len(list)) = A /\ Upto(new, Len(new)) = B
  BY DEF Lists, Nodes, Upto
<1> QED  BY <1>3, <1>4, <1>5, <1>6

-----------------------------------------------------------------------------
(* The list merger keeps the order: higher priorities first and, within    *)
(* one priority, who came before.                                          *)

Ahead(x, y, before) ==
  \/ Priority[x] > Priority[y]
  \/ Priority[x] = Priority[y] /\ <<x, y>> \in before

Ranked(s, before) == \A i, k \in DOMAIN s : i < k => Ahead(s[i], s[k], before)

NewestFirst(s, before) == \A i, k \in DOMAIN s : i < k => <<s[k], s[i]>> \in before

Ranks(E) == \A x \in E : Priority[x] \in Int

LEMMA AppendRanked ==
  ASSUME NEW s, NEW E, s \in Seq(E), NEW before, Ranked(s, before),
         NEW y, \A x \in Nodes(s) : Ahead(x, y, before)
  PROVE  Ranked(Append(s, y), before)
<1> DEFINE r == Append(s, y)
<1>1. Len(s) \in Nat /\ DOMAIN s = 1 .. Len(s)
  OBVIOUS
<1>2. /\ DOMAIN r = 1 .. Len(s) + 1 /\ r[Len(s) + 1] = y
      /\ \A i \in 1 .. Len(s) : r[i] = s[i] /\ r[i] \in Nodes(s)
  <2>1. s \in Seq(E \cup {y})
    OBVIOUS
  <2>2. DOMAIN r = 1 .. Len(s) + 1 /\ r[Len(s) + 1] = y /\ \A i \in 1 .. Len(s) : r[i] = s[i]
    BY <2>1
  <2> HIDE DEF r
  <2> QED  BY <1>1, <2>2 DEF Nodes
<1> HIDE DEF r
<1>3. ASSUME NEW i \in DOMAIN r, NEW k \in DOMAIN r, i < k
      PROVE  Ahead(r[i], r[k], before)
  <2>1. i \in 1 .. Len(s)
    BY <1>1, <1>2, <1>3
  <2>2. CASE k = Len(s) + 1
    BY <1>2, <2>1, <2>2
  <2>3. CASE k \in 1 .. Len(s)
    BY <1>1, <1>2, <1>3, <2>1, <2>3 DEF Ranked
  <2> QED  BY <1>1, <1>2, <2>2, <2>3
<1>4. Ranked(r, before)
  BY <1>3 DEF Ranked
<1> QED  BY <1>4 DEF r

LEMMA InsertRanked ==
  ASSUME NEW s, NEW E, s \in Seq(E), NEW before, Ranked(s, before), Ranks(E),
         NEW x, Priority[x] \in Int, \A y \in E : <<x, y>> \in before,
         NEW at \in 1 .. Len(s) + 1,
         \A i \in 1 .. Len(s) : IF i < at THEN Priority[s[i]] > Priority[x]
                                ELSE Priority[s[i]] <= Priority[x]
  PROVE  Ranked(Inserted(s, x, at), before)
<1> DEFINE r == Inserted(s, x, at)
<1>1. /\ DOMAIN r = 1 .. Len(s) + 1
      /\ \A i \in 1 .. Len(s) + 1 :
           r[i] = IF i < at THEN s[i] ELSE IF i = at THEN x ELSE s[i - 1]
  <2>1. WithInserted(s, x, at, r)
    BY InsertEntries
  <2> QED  BY <2>1 DEF WithInserted
<1> HIDE DEF r
<1>2. Len(s) \in Nat /\ DOMAIN s = 1 .. Len(s) /\ \A i \in 1 .. Len(s) : s[i] \in E
  OBVIOUS
<1>3. \A i \in 1 .. Len(s) : Priority[s[i]] \in Int
  BY <1>2 DEF Ranks
<1>4. ASSUME NEW i \in 1 .. Len(s), i < at
      PROVE  Ahead(s[i], x, before)
  BY <1>4 DEF Ahead
<1>5. ASSUME NEW i \in 1 .. Len(s), i >= at
      PROVE  Ahead(x, s[i], before)
  <2>1. Priority[s[i]] <= Priority[x] /\ <<x, s[i]>> \in before
    BY <1>2, <1>5
  <2> QED  BY <1>3, <2>1 DEF Ahead
<1>6. ASSUME NEW i \in 1 .. Len(s) + 1, NEW k \in 1 .. Len(s) + 1, i < k
      PROVE  Ahead(r[i], r[k], before)
  <2>1. CASE i = at
    <3>1. r[i] = x /\ r[k] = s[k - 1] /\ k - 1 \in 1 .. Len(s) /\ k - 1 >= at
      BY <1>1, <1>2, <1>6, <2>1
    <3> QED  BY <1>5, <3>1
  <2>2. CASE k = at
    <3>1. r[k] = x /\ r[i] = s[i] /\ i \in 1 .. Len(s) /\ i < at
      BY <1>1, <1>2, <1>6, <2>2
    <3> QED  BY <1>4, <3>1
  <2>3. CASE i # at /\ k # at
    <3> DEFINE d == IF i < at THEN i ELSE i - 1
               e == IF k < at THEN k ELSE k - 1
    <3>1. d \in 1 .. Len(s) /\ e \in 1 .. Len(s) /\ d < e
      BY <1>2, <1>6, <2>3
    <3>2. r[i] = s[d] /\ r[k] = s[e]
      BY <1>1, <2>3
    <3> HIDE DEF d, e
    <3> QED  BY <1>2, <3>1, <3>2 DEF Ranked
  <2> QED  BY <2>1, <2>2, <2>3
<1>7. Ranked(r, before)
  BY <1>1, <1>6 DEF Ranked
<1> QED  BY <1>7 DEF r

(* insertAtFront finds its place: the node before the last insertion point *)
(* is more urgent than the one after it.                                   *)
PointSound(m) ==
  m.point > 0 => /\ m.point \in 1 .. Len(m.list) - 1
                 /\ Priority[m.list[m.point]] > Priority[m.list[m.point + 1]]

LEMMA StartRanked ==
  ASSUME NEW m, NEW E, m.list \in Seq(E), NEW before, Ranked(m.list, before), Ranks(E),
         m.point \in Nat, PointSound(m), NEW n, Priority[n] \in Int
  PROVE  /\ SearchStart(m, n) \in 1 .. Len(m.list) + 1
         /\ \A i \in 1 .. Len(m.list) :
              i < SearchStart(m, n) => Priority[m.list[i]] > Priority[n]
<1> DEFINE s == m.list
           p == m.point
<1>1. Len(s) \in Nat /\ DOMAIN s = 1 .. Len(s) /\ \A i \in 1 .. Len(s) : Priority[s[i]] \in Int
  BY DEF Ranks
<1>2. CASE p = 0 \/ ~ NotAfter(s[p + 1], n)
  <2>1. SearchStart(m, n) = 1
    <3>1. p > 0 => p + 1 <= Len(s)
      BY <1>1 DEF PointSound
    <3> QED  BY <1>1, <1>2, <3>1 DEF SearchStart
  <2> QED  BY <1>1, <2>1
<1>3. CASE p > 0 /\ NotAfter(s[p + 1], n)
  <2>1. p \in 1 .. Len(s) - 1 /\ Priority[s[p]] > Priority[s[p + 1]]
    BY <1>3 DEF PointSound
  <2>2. SearchStart(m, n) = p + 1
    BY <1>1, <1>3, <2>1 DEF SearchStart
  <2>3. p \in 1 .. Len(s) /\ p + 1 \in 1 .. Len(s)
    BY <1>1, <2>1
  <2>4. Priority[s[p]] > Priority[n]
    BY <1>1, <1>3, <2>1, <2>3 DEF NotAfter
  <2>5. ASSUME NEW i \in 1 .. Len(s), i < p + 1
        PROVE  Priority[s[i]] > Priority[n]
    <3>1. i = p \/ i < p
      BY <2>3, <2>5
    <3>2. CASE i < p
      <4>1. Ahead(s[i], s[p], before)
        BY <1>1, <2>3, <3>2 DEF Ranked
      <4> QED  BY <1>1, <2>3, <2>4, <4>1 DEF Ahead
    <3> QED  BY <2>4, <3>1, <3>2
  <2> QED  BY <1>1, <2>2, <2>3, <2>5
<1> QED  BY <1>2, <1>3

LEMMA InsertAtFrontRanked ==
  ASSUME NEW m, NEW E, m.list \in Seq(E), NEW before, Ranked(m.list, before), Ranks(E),
         m.point \in Nat, PointSound(m),
         NEW n, Priority[n] \in Int, \A y \in E : <<n, y>> \in before
  PROVE  /\ Ranked(InsertAtFront(m, n).list, before)
         /\ InsertAtFront(m, n).point \in Nat /\ PointSound(InsertAtFront(m, n))
<1> DEFINE s == m.list
           start == SearchStart(m, n)
           stops == {k \in start .. Len(s) : NotBefore(s[k], n)}
           at == IF stops = {} THEN Len(s) + 1
                 ELSE CHOOSE k \in stops : \A i \in stops : k <= i
           r == Inserted(s, n, at)
<1>1. Len(s) \in Nat /\ DOMAIN s = 1 .. Len(s) /\ \A i \in 1 .. Len(s) : Priority[s[i]] \in Int
  BY DEF Ranks
<1>2. /\ start \in 1 .. Len(s) + 1
      /\ \A i \in 1 .. Len(s) : i < start => Priority[s[i]] > Priority[n]
  BY StartRanked
<1> HIDE DEF start
<1>3. stops \in SUBSET (1 .. Len(s)) /\ stops \in SUBSET Nat
  BY <1>1, <1>2
<1>4. at \in stops \/ (stops = {} /\ at = Len(s) + 1)
  <2> HIDE DEF stops
  <2>1. CASE stops # {}
    BY <1>3, <2>1, LeastNumber
  <2> QED  BY <2>1
<1>5. \A i \in stops : at <= i
  <2> HIDE DEF stops
  <2>1. CASE stops # {}
    BY <1>3, <2>1, LeastNumber
  <2> QED  BY <2>1
<1>6. InsertAtFront(m, n) = [list |-> r, point |-> at - 1]
  BY DEF InsertAtFront, Inserted, start
<1> HIDE DEF at
<1>7. at \in 1 .. Len(s) + 1
  BY <1>1, <1>3, <1>4
<1>8. ASSUME NEW i \in 1 .. Len(s), i < at
      PROVE  Priority[s[i]] > Priority[n]
  <2>1. CASE i < start
    BY <1>2, <2>1
  <2>2. CASE i >= start
    <3>1. i \in start .. Len(s)
      BY <1>1, <1>2, <2>2
    <3>2. i \notin stops
      BY <1>1, <1>5, <1>7, <1>8
    <3>3. ~ (Priority[s[i]] <= Priority[n])
      BY <3>1, <3>2 DEF NotBefore
    <3> QED  BY <1>1, <3>3
  <2> QED  BY <1>1, <1>2, <2>1, <2>2
<1>9. ASSUME NEW i \in 1 .. Len(s), i >= at
      PROVE  Priority[s[i]] <= Priority[n]
  <2>1. at \in stops /\ at \in 1 .. Len(s)
    BY <1>1, <1>3, <1>4, <1>7, <1>9
  <2>2. Priority[s[at]] <= Priority[n]
    BY <2>1 DEF NotBefore
  <2>3. CASE i > at
    <3>1. Ahead(s[at], s[i], before)
      BY <1>1, <2>1, <2>3 DEF Ranked
    <3> QED  BY <1>1, <2>1, <2>2, <3>1 DEF Ahead
  <2> QED  BY <1>1, <1>9, <2>1, <2>2, <2>3
<1> HIDE DEF stops
<1>10. \A i \in 1 .. Len(s) : IF i < at THEN Priority[s[i]] > Priority[n]
                              ELSE Priority[s[i]] <= Priority[n]
  BY <1>1, <1>7, <1>8, <1>9
<1>11. Ranked(r, before)
  BY <1>7, <1>10, InsertRanked
<1>12. /\ DOMAIN r = 1 .. Len(s) + 1 /\ r \in Seq(E \cup {n})
       /\ \A i \in 1 .. Len(s) + 1 :
            r[i] = IF i < at THEN s[i] ELSE IF i = at THEN n ELSE s[i - 1]
  <2>1. WithInserted(s, n, at, r) /\ r \in Seq(E \cup {n})
    BY <1>7, InsertEntries
  <2> QED  BY <2>1 DEF WithInserted
<1> HIDE DEF r
<1>13. Len(r) = Len(s) + 1
  BY <1>1, <1>12
<1>14. ASSUME at - 1 > 0
       PROVE  at - 1 \in 1 .. Len(r) - 1 /\ Priority[r[at - 1]] > Priority[r[(at - 1) + 1]]
  <2>1. at - 1 \in 1 .. Len(s) /\ (at - 1) + 1 = at
    BY <1>1, <1>7, <1>14
  <2>2. r[at - 1] = s[at - 1] /\ r[at] = n
    BY <1>1, <1>7, <1>12, <2>1
  <2>3. Priority[s[at - 1]] > Priority[n]
    BY <1>8, <2>1
  <2> QED  BY <1>1, <1>13, <2>1, <2>2, <2>3
<1>15. InsertAtFront(m, n).list = r /\ InsertAtFront(m, n).point = at - 1
  BY <1>6
<1> QED  BY <1>7, <1>11, <1>14, <1>15 DEF PointSound

LEMMA SortReversedRanked ==
  ASSUME NEW nodes, NEW E, Lists(nodes, E), Ranks(E), NEW before, NewestFirst(nodes, before)
  PROVE  Ranked(SortReversed(nodes), before)
<1> DEFINE n == Len(nodes)
<1>1. n \in Nat /\ DOMAIN nodes = 1 .. n /\ \A i \in 1 .. n : nodes[i] \in E
  BY DEF Lists
<1>2. PICK f : /\ SortReversed(nodes) = f[n].list
               /\ f[0] = [list |-> <<>>, point |-> 0]
               /\ \A k \in 1 .. n : f[k] = InsertAtFront(f[k - 1], nodes[k])
  BY <1>1, SortSteps
<1> DEFINE Good(m, k) == /\ Lists(m.list, Upto(nodes, k)) /\ m.point \in Nat
                         /\ Ranked(m.list, before) /\ PointSound(m)
           P == {k \in 0 .. n : Good(f[k], k)}
<1>3. 0 \in P
  <2>1. Upto(nodes, 0) = {} /\ 0 \in 0 .. n
    BY <1>1 DEF Upto
  <2>2. f[0].list = <<>> /\ f[0].point = 0
    BY <1>2
  <2>3. Lists(f[0].list, Upto(nodes, 0))
    BY <2>1, <2>2, EmptyLists
  <2>4. Ranked(f[0].list, before) /\ PointSound(f[0])
    BY <2>2 DEF Ranked, PointSound
  <2> HIDE DEF n
  <2> QED  BY <2>1, <2>2, <2>3, <2>4
<1>4. ASSUME NEW k \in 1 .. n, k - 1 \in P
      PROVE  k \in P
  <2> DEFINE m == f[k - 1]
             U == Upto(nodes, k - 1)
  <2>1. Good(m, k - 1)
    <3> HIDE DEF Good
    <3> QED  BY <1>4
  <2>2. k - 1 \in Nat /\ (k - 1) + 1 = k /\ k \in 0 .. n
    BY <1>1
  <2>3. /\ Upto(nodes, k) = U \cup {nodes[k]} /\ nodes[k] \notin U
        /\ nodes[k] \in E /\ U \subseteq E
    BY <2>2, UptoNext
  <2>4. ASSUME NEW y \in U
        PROVE  <<nodes[k], y>> \in before
    <3>1. PICK d \in 1 .. k - 1 : y = nodes[d]
      BY DEF Upto
    <3>2. d \in DOMAIN nodes /\ k \in DOMAIN nodes /\ d < k
      BY <1>1
    <3> QED  BY <3>1, <3>2 DEF NewestFirst
  <2>5. f[k] = InsertAtFront(m, nodes[k])
    BY <1>2
  <2>6. /\ Lists(m.list, U) /\ Ranked(m.list, before)
        /\ m.point \in Nat /\ PointSound(m)
    BY <2>1
  <2> HIDE DEF m, U
  <2>9. m.list \in Seq(U) /\ Ranks(U) /\ Priority[nodes[k]] \in Int
    BY <2>3, <2>6 DEF Lists, Ranks
  <2>7. Lists(f[k].list, Upto(nodes, k))
    <3>1. Lists(InsertAtFront(m, nodes[k]).list, U \cup {nodes[k]})
      BY <2>3, <2>6, InsertAtFrontLists
    <3> QED  BY <2>3, <2>5, <3>1
  <2>8. Ranked(f[k].list, before) /\ f[k].point \in Nat /\ PointSound(f[k])
    BY <2>4, <2>5, <2>6, <2>9, InsertAtFrontRanked
  <2> HIDE DEF n
  <2> QED  BY <2>2, <2>7, <2>8
<1>5. n \in P
  <2>1. n \in 0 .. n
    BY <1>1
  <2> HIDE DEF P, n
  <2> QED  BY <1>1, <1>3, <1>4, <2>1, InductionUpTo
<1>6. Ranked(f[n].list, before)
  <2> HIDE DEF n
  <2> QED  BY <1>5
<1> QED  BY <1>2, <1>6

(* The rest of both lists is behind what was merged already.               *)
Behind(s, k, nodes, before) ==
  \A x \in Nodes(nodes), d \in k + 1 .. Len(s) : Ahead(x, s[d], before)

LEMMA AppendBehind ==
  ASSUME NEW s, NEW k \in Nat, NEW nodes, NEW U, nodes \in Seq(U), NEW before,
         Behind(s, k, nodes, before), NEW d \in Nat, d >= k, NEW x,
         \A i \in d + 1 .. Len(s) : Ahead(x, s[i], before), Len(s) \in Nat
  PROVE  Behind(s, d, Append(nodes, x), before)
<1>1. Nodes(Append(nodes, x)) = Nodes(nodes) \cup {x}
  <2> DEFINE r == Append(nodes, x)
  <2>1. nodes \in Seq(U \cup {x}) /\ Len(nodes) \in Nat /\ DOMAIN nodes = 1 .. Len(nodes)
    OBVIOUS
  <2>2. /\ DOMAIN r = 1 .. Len(nodes) + 1 /\ r[Len(nodes) + 1] = x
        /\ \A i \in 1 .. Len(nodes) : r[i] = nodes[i]
    BY <2>1
  <2> HIDE DEF r
  <2>3. DOMAIN r = DOMAIN nodes \cup {Len(nodes) + 1}
    BY <2>1, <2>2
  <2>4. \A i \in DOMAIN nodes : r[i] = nodes[i]
    BY <2>1, <2>2
  <2>5. Nodes(r) = Nodes(nodes) \cup {x}
    BY <2>2, <2>3, <2>4 DEF Nodes
  <2> QED  BY <2>5 DEF r
<1>2. \A i \in d + 1 .. Len(s) : i \in k + 1 .. Len(s)
  OBVIOUS
<1> QED  BY <1>1, <1>2 DEF Behind

LEMMA MergeStepRanked ==
  ASSUME NEW before,
         NEW list, NEW A, Lists(list, A), Ranked(list, before), Ranks(A),
         NEW new, NEW B, Lists(new, B), Ranked(new, before), Ranks(B),
         \A x \in A, y \in B : <<x, y>> \in before,
         NEW i \in 0 .. Len(list), NEW j \in 0 .. Len(new),
         NEW nodes, NEW U, nodes \in Seq(U), Ranked(nodes, before),
         Behind(list, i, nodes, before), Behind(new, j, nodes, before),
         NEW r, Takes(list, new, nodes, i, j, r)
  PROVE  /\ Ranked(r.nodes, before)
         /\ Behind(list, r.taken, r.nodes, before)
         /\ Behind(new, (i + j + 1) - r.taken, r.nodes, before)
<1>1. /\ Len(list) \in Nat /\ DOMAIN list = 1 .. Len(list)
      /\ Len(new) \in Nat /\ DOMAIN new = 1 .. Len(new)
      /\ \A d \in 1 .. Len(list) : list[d] \in A /\ Priority[list[d]] \in Int
      /\ \A d \in 1 .. Len(new) : new[d] \in B /\ Priority[new[d]] \in Int
  BY DEF Lists, Ranks
<1>2. CASE /\ i + 1 \in 1 .. Len(list)
           /\ j + 1 \in 1 .. Len(new) => NotAfter(list[i + 1], new[j + 1])
           /\ r = [taken |-> i + 1, nodes |-> Append(nodes, list[i + 1])]
  <2> DEFINE x == list[i + 1]
  <2>1. r.taken = i + 1 /\ r.nodes = Append(nodes, x) /\ (i + j + 1) - (i + 1) = j
    BY <1>2
  <2>2. \A y \in Nodes(nodes) : Ahead(y, x, before)
    BY <1>1, <1>2 DEF Behind
  <2>3. Ranked(r.nodes, before)
    BY <2>1, <2>2, AppendRanked
  <2>4. \A d \in (i + 1) + 1 .. Len(list) : Ahead(x, list[d], before)
    <3>1. \A d \in (i + 1) + 1 .. Len(list) : d \in 1 .. Len(list) /\ i + 1 < d
      BY <1>1
    <3> QED  BY <1>1, <1>2, <3>1 DEF Ranked
  <2>5. ASSUME NEW d \in j + 1 .. Len(new)
        PROVE  Ahead(x, new[d], before)
    <3>1. d \in 1 .. Len(new) /\ j + 1 \in 1 .. Len(new) /\ (d = j + 1 \/ j + 1 < d)
      BY <1>1
    <3>2. Priority[x] >= Priority[new[j + 1]]
      BY <1>2, <3>1 DEF NotAfter
    <3>3. Priority[new[j + 1]] >= Priority[new[d]]
      <4>1. CASE d = j + 1
        BY <1>1, <3>1, <4>1
      <4>2. CASE j + 1 < d
        <5>1. Ahead(new[j + 1], new[d], before)
          BY <1>1, <3>1, <4>2 DEF Ranked
        <5> QED  BY <1>1, <3>1, <5>1 DEF Ahead
      <4> QED  BY <3>1, <4>1, <4>2
    <3>4. Priority[x] >= Priority[new[d]]
      BY <1>1, <1>2, <3>1, <3>2, <3>3
    <3>5. <<x, new[d]>> \in before
      BY <1>1, <1>2, <3>1
    <3> QED  BY <1>1, <1>2, <3>1, <3>4, <3>5 DEF Ahead
  <2>6. i \in Nat /\ j \in Nat /\ i + 1 \in Nat /\ i + 1 >= i
    BY <1>1
  <2>7. Behind(list, i + 1, Append(nodes, x), before)
    BY <1>1, <2>4, <2>6, AppendBehind
  <2>8. Behind(new, j, Append(nodes, x), before)
    BY <1>1, <2>5, <2>6, AppendBehind
  <2> QED  BY <2>1, <2>3, <2>7, <2>8
<1>3. CASE /\ j + 1 \in 1 .. Len(new)
           /\ i + 1 \in 1 .. Len(list) => ~ NotAfter(list[i + 1], new[j + 1])
           /\ r = [taken |-> i, nodes |-> Append(nodes, new[j + 1])]
  <2> DEFINE x == new[j + 1]
  <2>1. r.taken = i /\ r.nodes = Append(nodes, x) /\ (i + j + 1) - i = j + 1
    BY <1>3
  <2>2. \A y \in Nodes(nodes) : Ahead(y, x, before)
    BY <1>1, <1>3 DEF Behind
  <2>3. Ranked(r.nodes, before)
    BY <2>1, <2>2, AppendRanked
  <2>4. \A d \in (j + 1) + 1 .. Len(new) : Ahead(x, new[d], before)
    <3>1. \A d \in (j + 1) + 1 .. Len(new) : d \in 1 .. Len(new) /\ j + 1 < d
      BY <1>1
    <3> QED  BY <1>1, <1>3, <3>1 DEF Ranked
  <2>5. ASSUME NEW d \in i + 1 .. Len(list)
        PROVE  Ahead(x, list[d], before)
    <3>1. d \in 1 .. Len(list) /\ i + 1 \in 1 .. Len(list) /\ (d = i + 1 \/ i + 1 < d)
      BY <1>1
    <3>2. ~ (Priority[list[i + 1]] >= Priority[x])
      BY <1>3, <3>1 DEF NotAfter
    <3>3. Priority[list[i + 1]] >= Priority[list[d]]
      <4>1. CASE d = i + 1
        BY <1>1, <3>1, <4>1
      <4>2. CASE i + 1 < d
        <5>1. Ahead(list[i + 1], list[d], before)
          BY <1>1, <3>1, <4>2 DEF Ranked
        <5> QED  BY <1>1, <3>1, <5>1 DEF Ahead
      <4> QED  BY <3>1, <4>1, <4>2
    <3>4. Priority[x] > Priority[list[d]]
      BY <1>1, <1>3, <3>1, <3>2, <3>3
    <3> QED  BY <3>4 DEF Ahead
  <2>6. i \in Nat /\ j \in Nat /\ j + 1 \in Nat /\ j + 1 >= j
    BY <1>1
  <2>7. Behind(new, j + 1, Append(nodes, x), before)
    BY <1>1, <2>4, <2>6, AppendBehind
  <2>8. Behind(list, i, Append(nodes, x), before)
    BY <1>1, <2>5, <2>6, AppendBehind
  <2> QED  BY <2>1, <2>3, <2>7, <2>8
<1> QED  BY <1>2, <1>3 DEF Takes

LEMMA MergeRanked ==
  ASSUME NEW before,
         NEW list, NEW A, Lists(list, A), Ranked(list, before), Ranks(A),
         NEW new, NEW B, Lists(new, B), Ranked(new, before), Ranks(B),
         A \cap B = {}, \A x \in A, y \in B : <<x, y>> \in before
  PROVE  Ranked(Merge(list, new), before)
<1> DEFINE n == Len(list) + Len(new)
<1>1. Len(list) \in Nat /\ Len(new) \in Nat /\ n \in Nat
  BY DEF Lists
<1>2. PICK f : MergedBy(list, new, f)
  BY <1>1, MergeSteps
<1>3. /\ Merge(list, new) = f[n].nodes
      /\ f[0] = [taken |-> 0, nodes |-> <<>>]
      /\ \A k \in 1 .. n : f[k] = TakeNext(list, new, f[k - 1], k)
  BY <1>2 DEF MergedBy
<1> DEFINE Good(k) == /\ Ranked(f[k].nodes, before)
                      /\ Behind(list, f[k].taken, f[k].nodes, before)
                      /\ Behind(new, k - f[k].taken, f[k].nodes, before)
           P == {k \in 0 .. n : Good(k)}
<1>4. 0 \in P
  <2>1. f[0].nodes = <<>> /\ 0 \in 0 .. n
    BY <1>1, <1>3
  <2>2. Good(0)
    BY <2>1 DEF Ranked, Behind, Nodes
  <2> HIDE DEF Good, n
  <2> QED  BY <2>1, <2>2
<1>5. ASSUME NEW k \in 1 .. n, k - 1 \in P
      PROVE  k \in P
  <2> DEFINE i == f[k - 1].taken
             j == (k - 1) - i
  <2>1. Good(k - 1)
    <3> HIDE DEF Good
    <3> QED  BY <1>5
  <2>2. k - 1 \in 0 .. n /\ k \in 0 .. n
    BY <1>1
  <2>11. \A d \in 0 .. n :
           /\ f[d].taken \in 0 .. Len(list) /\ d - f[d].taken \in 0 .. Len(new)
           /\ Lists(f[d].nodes, Upto(list, f[d].taken) \cup Upto(new, d - f[d].taken))
    BY <1>3, MergeTakes
  <2>3. /\ i \in 0 .. Len(list) /\ j \in 0 .. Len(new)
        /\ f[k - 1].nodes \in Seq(Upto(list, i) \cup Upto(new, j))
    BY <2>2, <2>11 DEF Lists
  <2>4. f[k - 1].taken = i /\ k = i + j + 1 /\ k <= Len(list) + Len(new)
    BY <1>1, <2>3
  <2>5. f[k] = TakeNext(list, new, f[k - 1], k)
    BY <1>3
  <2>6. Behind(list, i, f[k - 1].nodes, before) /\ Behind(new, j, f[k - 1].nodes, before)
    BY <2>1
  <2>7. Ranked(f[k - 1].nodes, before)
    BY <2>1
  <2> HIDE DEF Good, i, j
  <2>8. Takes(list, new, f[k - 1].nodes, i, j, f[k])
    BY <1>1, <2>3, <2>4, <2>5, TakeNextTakes
  <2>9. /\ Ranked(f[k].nodes, before)
        /\ Behind(list, f[k].taken, f[k].nodes, before)
        /\ Behind(new, (i + j + 1) - f[k].taken, f[k].nodes, before)
    BY <2>3, <2>6, <2>7, <2>8, MergeStepRanked
  <2>10. Good(k)
    BY <2>4, <2>9 DEF Good
  <2> HIDE DEF n
  <2> QED  BY <2>2, <2>10
<1>6. n \in P
  <2>1. n \in 0 .. n
    BY <1>1
  <2> HIDE DEF P, n
  <2> QED  BY <1>1, <1>4, <1>5, <2>1, InductionUpTo
<1>7. Ranked(f[n].nodes, before)
  <2> HIDE DEF n
  <2> QED  BY <1>6
<1> QED  BY <1>3, <1>7

-----------------------------------------------------------------------------
(* The order of arrival.                                                   *)

Earlier(s) ==
  {p \in Nodes(s) \X Nodes(s) : \E i, k \in DOMAIN s : i < k /\ p = <<s[i], s[k]>>}

LEMMA EarlierIs ==
  ASSUME NEW s, NEW x, NEW y
  PROVE  <<x, y>> \in Earlier(s) <=> \E i, k \in DOMAIN s : i < k /\ s[i] = x /\ s[k] = y
BY DEF Earlier, Nodes

LEMMA RankedStill ==
  ASSUME NEW s, NEW before, Ranked(s, before), NEW after,
         \A x, y \in Nodes(s) : <<x, y>> \in before => <<x, y>> \in after
  PROVE  Ranked(s, after)
<1>1. \A i \in DOMAIN s : s[i] \in Nodes(s)
  BY DEF Nodes
<1> QED  BY <1>1 DEF Ranked, Ahead

LEMMA AppendEarlier ==
  ASSUME NEW s, NEW E, Lists(s, E), NEW x
  PROVE  /\ \A y, z \in E : <<y, z>> \in Earlier(s) => <<y, z>> \in Earlier(Append(s, x))
         /\ \A y \in E : <<y, x>> \in Earlier(Append(s, x))
<1> DEFINE r == Append(s, x)
<1>1. s \in Seq(E \cup {x}) /\ Len(s) \in Nat /\ DOMAIN s = 1 .. Len(s)
  BY DEF Lists
<1>2. /\ DOMAIN r = 1 .. Len(s) + 1 /\ r[Len(s) + 1] = x
      /\ \A i \in 1 .. Len(s) : r[i] = s[i]
  BY <1>1
<1> HIDE DEF r
<1>3. ASSUME NEW y, NEW z, <<y, z>> \in Earlier(s)
      PROVE  <<y, z>> \in Earlier(r)
  <2>1. PICK i \in DOMAIN s, k \in DOMAIN s : i < k /\ s[i] = y /\ s[k] = z
    BY <1>3, EarlierIs
  <2>2. i \in DOMAIN r /\ k \in DOMAIN r /\ r[i] = y /\ r[k] = z
    BY <1>1, <1>2, <2>1
  <2> QED  BY <2>1, <2>2, EarlierIs
<1>4. ASSUME NEW y \in E
      PROVE  <<y, x>> \in Earlier(r)
  <2>1. PICK i \in DOMAIN s : s[i] = y
    BY DEF Lists, Nodes
  <2>2. /\ i \in DOMAIN r /\ Len(s) + 1 \in DOMAIN r /\ i < Len(s) + 1
        /\ r[i] = y /\ r[Len(s) + 1] = x
    BY <1>1, <1>2, <2>1
  <2> QED  BY <2>2, EarlierIs
<1> QED  BY <1>3, <1>4 DEF r

(* r is s without its entry at a place.                                    *)
WithoutAt(s, at, r) ==
  /\ DOMAIN r = 1 .. Len(s) - 1
  /\ \A i \in 1 .. Len(s) - 1 : r[i] = IF i < at THEN s[i] ELSE s[i + 1]

LEMMA LengthAfter ==
  ASSUME NEW n \in Nat, NEW at \in 1 .. n
  PROVE  (IF at + 1 <= n THEN (n - (at + 1)) + 1 ELSE 0) = n - at
OBVIOUS

LEMMA RemoveEntries ==
  ASSUME NEW s, NEW E, s \in Seq(E), NEW at \in 1 .. Len(s)
  PROVE  /\ SubSeq(s, 1, at - 1) \o SubSeq(s, at + 1, Len(s)) \in Seq(E)
         /\ WithoutAt(s, at, SubSeq(s, 1, at - 1) \o SubSeq(s, at + 1, Len(s)))
<1> DEFINE front == SubSeq(s, 1, at - 1)
           back == SubSeq(s, at + 1, Len(s))
           r == front \o back
<1>1. Len(s) \in Nat /\ DOMAIN s = 1 .. Len(s)
  OBVIOUS
<1>2. front \in Seq(E) /\ Len(front) = at - 1 /\ \A i \in 1 .. at - 1 : front[i] = s[i]
  BY <1>1
<1>3. /\ back \in Seq(E) /\ Len(back) = Len(s) - at
      /\ \A i \in 1 .. Len(s) - at : back[i] = s[at + i]
  <2>1. back \in Seq(E) /\ Len(back) = Len(s) - at
    <3>1. \A i \in at + 1 .. Len(s) : s[i] \in E
      BY <1>1
    <3>2. at + 1 \in Int /\ Len(s) \in Int
      BY <1>1
    <3>3. /\ back \in Seq(E)
          /\ Len(back) = IF at + 1 <= Len(s) THEN (Len(s) - (at + 1)) + 1 ELSE 0
      BY <3>1, <3>2, SubSeqProperties
    <3> QED  BY <1>1, <3>3, LengthAfter
  <2>2. \A i \in 1 .. Len(s) - at : back[i] = s[(at + 1) + i - 1]
    BY <1>1
  <2>3. \A i \in 1 .. Len(s) - at : (at + 1) + i - 1 = at + i
    BY <1>1
  <2> HIDE DEF back
  <2> QED  BY <2>1, <2>2, <2>3
<1> HIDE DEF front, back
<1>4. r \in Seq(E) /\ Len(r) = Len(front) + Len(back)
  BY <1>2, <1>3, ConcatProperties
<1>5. \A i \in 1 .. Len(front) + Len(back) :
        r[i] = IF i <= Len(front) THEN front[i] ELSE back[i - Len(front)]
  BY <1>2, <1>3
<1> HIDE DEF r
<1>6. Len(r) = Len(s) - 1 /\ Len(front) + Len(back) = Len(s) - 1
  BY <1>1, <1>2, <1>3, <1>4
<1>7. DOMAIN r = 1 .. Len(s) - 1
  BY <1>4, <1>6
<1>8. ASSUME NEW i \in 1 .. Len(s) - 1
      PROVE  r[i] = IF i < at THEN s[i] ELSE s[i + 1]
  <2>1. CASE i < at
    <3>1. i \in 1 .. at - 1 /\ i <= Len(front)
      BY <1>1, <1>2, <2>1
    <3> QED  BY <1>2, <1>5, <1>6, <2>1, <3>1
  <2>2. CASE ~ (i < at)
    <3>1. /\ ~ (i <= Len(front)) /\ i - Len(front) = (i - at) + 1
          /\ (i - at) + 1 \in 1 .. Len(s) - at /\ at + ((i - at) + 1) = i + 1
      BY <1>1, <1>2, <2>2
    <3>2. r[i] = back[(i - at) + 1]
      BY <1>5, <1>6, <3>1
    <3>3. back[(i - at) + 1] = s[i + 1]
      BY <1>3, <3>1
    <3> QED  BY <2>2, <3>2, <3>3
  <2> QED  BY <2>1, <2>2
<1>9. WithoutAt(s, at, r)
  BY <1>7, <1>8 DEF WithoutAt
<1> QED  BY <1>4, <1>9 DEF r, front, back

LEMMA RemoveLists ==
  ASSUME NEW s, NEW E, Lists(s, E), NEW at \in 1 .. Len(s), NEW r, r \in Seq(E),
         WithoutAt(s, at, r)
  PROVE  /\ Lists(r, E \ {s[at]})
         /\ \A y, z \in E \ {s[at]} : <<y, z>> \in Earlier(s) => <<y, z>> \in Earlier(r)
<1>1. s \in Seq(E) /\ Len(s) \in Nat /\ DOMAIN s = 1 .. Len(s)
  BY DEF Lists
<1> DEFINE from(i) == IF i < at THEN i ELSE i + 1
           to(i) == IF i < at THEN i ELSE i - 1
<1>2. /\ DOMAIN r = 1 .. Len(s) - 1
      /\ \A i \in 1 .. Len(s) - 1 : r[i] = s[from(i)]
  BY DEF WithoutAt
<1>3. \A i \in 1 .. Len(s) - 1 : from(i) \in 1 .. Len(s) /\ from(i) # at
  BY <1>1
<1>4. ASSUME NEW i \in 1 .. Len(s), i # at
      PROVE  to(i) \in 1 .. Len(s) - 1 /\ from(to(i)) = i
  <2>1. CASE i < at
    <3>1. to(i) = i /\ from(i) = i
      BY <2>1
    <3>2. i \in 1 .. Len(s) - 1
      BY <1>1, <2>1
    <3> QED  BY <3>1, <3>2
  <2>2. CASE ~ (i < at)
    <3>1. i - 1 \in 1 .. Len(s) - 1 /\ ~ (i - 1 < at) /\ (i - 1) + 1 = i
      BY <1>1, <1>4, <2>2
    <3>2. to(i) = i - 1 /\ from(i - 1) = (i - 1) + 1
      BY <2>2, <3>1
    <3> QED  BY <3>1, <3>2
  <2> QED  BY <2>1, <2>2
<1>5. ASSUME NEW i \in 1 .. Len(s) - 1, NEW k \in 1 .. Len(s) - 1, from(i) = from(k)
      PROVE  i = k
  <2>1. i \in Int /\ k \in Int /\ at \in Int
    BY <1>1
  <2> QED  BY <1>5, <2>1
<1>6. ASSUME NEW i \in 1 .. Len(s), NEW k \in 1 .. Len(s), i < k, i # at, k # at
      PROVE  to(i) < to(k)
  <2>1. i \in Int /\ k \in Int /\ at \in Int
    BY <1>1
  <2>2. CASE i < at
    BY <1>6, <2>1, <2>2
  <2>3. CASE ~ (i < at)
    BY <1>6, <2>1, <2>3
  <2> QED  BY <2>2, <2>3
<1> HIDE DEF from, to
<1>7. \A i, k \in DOMAIN r : r[i] = r[k] => i = k
  <2>1. ASSUME NEW i \in 1 .. Len(s) - 1, NEW k \in 1 .. Len(s) - 1, r[i] = r[k]
        PROVE  i = k
    <3>1. s[from(i)] = s[from(k)] /\ from(i) \in DOMAIN s /\ from(k) \in DOMAIN s
      BY <1>1, <1>2, <1>3, <2>1
    <3>2. from(i) = from(k)
      BY <3>1 DEF Lists
    <3> QED  BY <1>5, <3>2
  <2> QED  BY <1>2, <2>1
<1>8. ASSUME NEW i \in 1 .. Len(s) - 1
      PROVE  r[i] \in E \ {s[at]}
  <2>1. r[i] = s[from(i)] /\ from(i) \in DOMAIN s /\ at \in DOMAIN s /\ from(i) # at
    BY <1>1, <1>2, <1>3
  <2> QED  BY <2>1 DEF Lists, Nodes
<1>9. ASSUME NEW y \in E \ {s[at]}, NEW i \in 1 .. Len(s), s[i] = y
      PROVE  to(i) \in DOMAIN r /\ r[to(i)] = y /\ i # at
  BY <1>2, <1>4, <1>9
<1>10. Nodes(r) = E \ {s[at]}
  <2>1. ASSUME NEW y \in E \ {s[at]} PROVE y \in Nodes(r)
    <3>1. PICK i \in 1 .. Len(s) : s[i] = y
      BY <1>1 DEF Lists, Nodes
    <3> QED  BY <1>9, <3>1 DEF Nodes
  <2> QED  BY <1>2, <1>8, <2>1 DEF Nodes
<1>11. r \in Seq(E \ {s[at]})
  <2>1. Len(r) = Len(s) - 1 /\ \A i \in 1 .. Len(r) : r[i] \in E \ {s[at]}
    <3>1. Len(s) - 1 \in Nat /\ DOMAIN r = 1 .. Len(r) /\ Len(r) \in Nat
      BY <1>1
    <3>2. Len(r) = Len(s) - 1
      BY <1>2, <3>1
    <3> QED  BY <1>8, <3>2
  <2> QED  BY <2>1
<1>12. ASSUME NEW y \in E \ {s[at]}, NEW z \in E \ {s[at]}, <<y, z>> \in Earlier(s)
       PROVE  <<y, z>> \in Earlier(r)
  <2>1. PICK i \in 1 .. Len(s), k \in 1 .. Len(s) : i < k /\ s[i] = y /\ s[k] = z
    BY <1>1, <1>12, EarlierIs
  <2>2. /\ to(i) \in DOMAIN r /\ r[to(i)] = y /\ i # at
        /\ to(k) \in DOMAIN r /\ r[to(k)] = z /\ k # at
    BY <1>9, <2>1
  <2>3. to(i) < to(k)
    BY <1>6, <2>1, <2>2
  <2> QED  BY <2>2, <2>3, EarlierIs
<1> QED  BY <1>7, <1>10, <1>11, <1>12 DEF Lists

(* The place of a node in a list.                                          *)
PlaceOf(s, x) == CHOOSE i \in DOMAIN s : s[i] = x

LEMMA PlaceFound ==
  ASSUME NEW s, NEW E, Lists(s, E), NEW x \in E
  PROVE  PlaceOf(s, x) \in 1 .. Len(s) /\ s[PlaceOf(s, x)] = x
<1>1. DOMAIN s = 1 .. Len(s) /\ \E i \in DOMAIN s : s[i] = x
  BY DEF Lists, Nodes
<1> QED  BY <1>1 DEF PlaceOf

LEMMA WithoutLists ==
  ASSUME NEW s, NEW E, Lists(s, E), NEW x \in E
  PROVE  /\ Lists(Without(s, x), E \ {x})
         /\ \A y, z \in E \ {x} :
              <<y, z>> \in Earlier(s) => <<y, z>> \in Earlier(Without(s, x))
<1> DEFINE at == PlaceOf(s, x)
           r == SubSeq(s, 1, at - 1) \o SubSeq(s, at + 1, Len(s))
<1>1. at \in 1 .. Len(s) /\ s[at] = x
  BY PlaceFound
<1>2. Without(s, x) = r
  BY DEF Without, PlaceOf
<1> HIDE DEF at
<1>3. s \in Seq(E)
  BY DEF Lists
<1>4. r \in Seq(E) /\ WithoutAt(s, at, r)
  BY <1>1, <1>3, RemoveEntries
<1> HIDE DEF r
<1>5. /\ Lists(r, E \ {s[at]})
      /\ \A y, z \in E \ {s[at]} : <<y, z>> \in Earlier(s) => <<y, z>> \in Earlier(r)
  BY <1>1, <1>4, RemoveLists
<1> QED  BY <1>1, <1>2, <1>5

-----------------------------------------------------------------------------
(* The queue, the references and the priority.  A job is in the queue once *)
(* or on one thread, a queued job has its reference, and the references    *)
(* that keep the actor alive are counted along the rules of ownership.     *)

Queued == Nodes(fresh) \cup Nodes(sorted)

JobPlaces == {"global", "suspended", "thread", "queued", "isolated", "done"}

ActorTypes ==
  /\ status.priority \in Nat /\ alive \in BOOLEAN /\ processing \in Nat
  /\ place \in [Jobs -> JobPlaces] /\ holds \in [Jobs -> BOOLEAN]
  /\ task \in [Threads -> Jobs \cup {NoJob}]
  /\ nest \in [Threads -> {"none", "other", "this"}]
  /\ owes \in [Threads -> {"nothing", "process", "steal", "override"}]
  /\ epc \in [Escalators -> {"idle", "raise", "override", "steal", "done"}]
  /\ target \in [Escalators -> Jobs \cup {NoJob}]
  /\ level \in [Escalators -> Nat]

QueueInv ==
  /\ Lists(fresh, Nodes(fresh)) /\ Lists(sorted, Nodes(sorted))
  /\ Nodes(fresh) \cap Nodes(sorted) = {}
  /\ \A j \in Queued : j \in Jobs /\ place[j] = "queued"

Carrying == {"generic", "enqueue", "start", "actor", "isolated"}

JobsInv ==
  /\ \A t \in Threads : IF pc[t] \in Carrying THEN task[t] \in Jobs ELSE task[t] = NoJob
  /\ \A t \in Threads : task[t] \in Jobs => place[task[t]] = "thread"
  /\ \A s, t \in Threads : task[s] = task[t] /\ task[s] \in Jobs => s = t
  /\ \A j \in Jobs : place[j] \in {"queued", "isolated"} => holds[j]
  /\ \A t \in Threads : pc[t] \in {"enqueue", "start"} => holds[task[t]]

NestInv ==
  \A t \in Threads : /\ pc[t] = "idle" => nest[t] = "none"
                     /\ pc[t] \in {"lock", "leave"} => nest[t] = "this"

Escalating == {"raise", "override", "steal"}

(* A task whose record an escalator has locked does not run on.            *)
EscalatorInv ==
  \A e \in Escalators : epc[e] \in Escalating => target[e] \in Jobs /\ Enqueued(target[e])

WordInv ==
  /\ status.state = "Scheduled" => Queued # {}
  /\ status.state = "Idle" => Queued = {}
  /\ status.state \in {"Running", "Zombie"} => status.owner \in Threads
  /\ \A t \in Threads : pc[t] = "take" => sorted # <<>>

PriorityInv == \A j \in Queued : Priority[j] <= status.priority

Balanced ==
  /\ N >= R
  /\ refs = Cardinality({j \in Jobs : holds[j]})
            + Cardinality({t \in Threads : nest[t] = "this"}) + (N - R)

(* Nobody is on an actor that was freed, and a zombie is only kept by the  *)
(* thread that will free it.                                               *)
LifeInv ==
  /\ ~ alive => refs = 0 /\ status.state \notin {"Running", "Zombie"}
  /\ status.state = "Zombie" => refs = 0

ActorInv ==
  /\ LockInv /\ ActorTypes /\ QueueInv /\ JobsInv /\ NestInv /\ EscalatorInv
  /\ WordInv /\ PriorityInv /\ Balanced /\ LifeInv

-----------------------------------------------------------------------------
(* What the steps do to the queue.                                         *)

LEMMA EmptyList ==
  ASSUME NEW s, NEW E, Lists(s, E)
  PROVE  s = <<>> <=> E = {}
<1>1. s \in Seq(E) /\ DOMAIN s = 1 .. Len(s) /\ Len(s) \in Nat
  BY DEF Lists
<1>2. ASSUME s = <<>> PROVE E = {}
  BY <1>2 DEF Lists, Nodes
<1>3. ASSUME E = {} PROVE s = <<>>
  <2>1. Len(s) = 0
    BY <1>1, <1>3 DEF Lists, Nodes
  <2> QED  BY <1>1, <2>1
<1> QED  BY <1>2, <1>3

LEMMA PrependLists ==
  ASSUME NEW s, NEW E, Lists(s, E), NEW x, x \notin E
  PROVE  Lists(<<x>> \o s, E \cup {x})
<1>1. s \in Seq(E \cup {x}) /\ Len(s) \in Nat
  BY DEF Lists
<1>2. SubSeq(s, 1, 1 - 1) = <<>> /\ SubSeq(s, 1, Len(s)) = s
  BY <1>1
<1>3. <<>> \o <<x>> \o s = <<x>> \o s
  BY <1>1
<1>4. 1 \in 1 .. Len(s) + 1
  BY <1>1
<1>5. Lists(SubSeq(s, 1, 1 - 1) \o <<x>> \o SubSeq(s, 1, Len(s)), E \cup {x})
  BY <1>4, InsertLists
<1> QED  BY <1>2, <1>3, <1>5

LEMMA TailLists ==
  ASSUME NEW s, NEW E, Lists(s, E), s # <<>>
  PROVE  Head(s) \in E /\ Lists(Tail(s), E \ {Head(s)})
<1> DEFINE r == Tail(s)
<1>1. s \in Seq(E) /\ DOMAIN s = 1 .. Len(s) /\ Len(s) \in Nat \ {0}
  BY DEF Lists
<1>2. /\ Head(s) = s[1] /\ r \in Seq(E) /\ DOMAIN r = 1 .. Len(s) - 1
      /\ \A i \in 1 .. Len(s) - 1 : r[i] = s[i + 1]
  BY <1>1
<1>3. 1 \in 1 .. Len(s) /\ \A i \in 1 .. Len(s) - 1 : i + 1 \in 1 .. Len(s) /\ i + 1 # 1
  BY <1>1
<1> HIDE DEF r
<1>4. \A i, k \in DOMAIN r : r[i] = r[k] => i = k
  <2>1. ASSUME NEW i \in 1 .. Len(s) - 1, NEW k \in 1 .. Len(s) - 1, r[i] = r[k]
        PROVE  i = k
    <3>1. s[i + 1] = s[k + 1] /\ i + 1 \in DOMAIN s /\ k + 1 \in DOMAIN s
      BY <1>1, <1>2, <1>3, <2>1
    <3>2. i + 1 = k + 1
      BY <3>1 DEF Lists
    <3> QED  BY <1>1, <3>2
  <2> QED  BY <1>2, <2>1
<1>5. Nodes(r) = E \ {Head(s)}
  <2>1. ASSUME NEW i \in 1 .. Len(s) - 1 PROVE r[i] \in E \ {Head(s)}
    <3>1. r[i] = s[i + 1] /\ i + 1 \in DOMAIN s /\ 1 \in DOMAIN s /\ i + 1 # 1
      BY <1>1, <1>2, <1>3
    <3> QED  BY <1>2, <3>1 DEF Lists, Nodes
  <2>2. ASSUME NEW y \in E \ {Head(s)} PROVE y \in Nodes(r)
    <3>1. PICK i \in 1 .. Len(s) : y = s[i]
      BY <1>1 DEF Lists, Nodes
    <3>2. i # 1 /\ i - 1 \in 1 .. Len(s) - 1 /\ (i - 1) + 1 = i
      BY <1>1, <1>2, <3>1
    <3> QED  BY <1>2, <3>1, <3>2 DEF Nodes
  <2> QED  BY <1>2, <2>1, <2>2 DEF Nodes
<1>6. r \in Seq(Nodes(r))
  <2>1. \A i \in 1 .. Len(s) - 1 : r[i] \in Nodes(r)
    BY <1>2 DEF Nodes
  <2> QED  BY <1>1, <1>2, <2>1
<1> QED  BY <1>1, <1>2, <1>3, <1>4, <1>5, <1>6 DEF Lists, r

LEMMA ListsItsNodes ==
  ASSUME NEW s, NEW E, Lists(s, E)
  PROVE  Nodes(s) = E /\ Lists(s, Nodes(s))
BY DEF Lists

LEMMA HasJobsIfQueued ==
  ASSUME QueueInv
  PROVE  HasJobs <=> Queued # {}
BY EmptyList DEF QueueInv, HasJobs, Queued

LEMMA QueuedSame ==
  ASSUME UNCHANGED <<fresh, sorted>>
  PROVE  Queued' = Queued /\ HasJobs' = HasJobs
BY DEF Queued, HasJobs, Nodes

(* A thread that carries a job has taken it out of the queue.              *)
LEMMA CarriedNotQueued ==
  ASSUME ActorInv, NEW t \in Threads, task[t] \in Jobs
  PROVE  task[t] \notin Queued
BY DEF ActorInv, JobsInv, QueueInv

LEMMA EnqueueQueue ==
  ASSUME ActorInv, NEW t \in Threads, Enqueue(t)
  PROVE  /\ task[t] \in Jobs /\ task[t] \notin Queued
         /\ Lists(fresh', Nodes(fresh')) /\ UNCHANGED sorted
         /\ Nodes(fresh') \cap Nodes(sorted) = {}
         /\ Queued' = Queued \cup {task[t]}
<1>1. /\ fresh' = <<task[t]>> \o fresh /\ UNCHANGED sorted /\ pc[t] = "enqueue"
  BY DEF Enqueue, At
<1>2. task[t] \in Jobs
  BY <1>1 DEF ActorInv, JobsInv, Carrying
<1>3. task[t] \notin Queued
  BY <1>2, CarriedNotQueued
<1>4. Lists(fresh', Nodes(fresh) \cup {task[t]})
  BY <1>1, <1>3, PrependLists DEF ActorInv, QueueInv, Queued
<1>5. Nodes(fresh') = Nodes(fresh) \cup {task[t]}
  BY <1>4, ListsItsNodes
<1>6. Nodes(sorted') = Nodes(sorted)
  BY <1>1
<1>7. Queued' = Queued \cup {task[t]}
  BY <1>5, <1>6 DEF Queued
<1>8. Nodes(fresh') \cap Nodes(sorted) = {}
  BY <1>3, <1>5 DEF ActorInv, QueueInv, Queued
<1> QED  BY <1>1, <1>2, <1>3, <1>4, <1>5, <1>7, <1>8

LEMMA PreprocessQueue ==
  ASSUME ActorInv, NEW t \in Threads, Preprocess(t) \/ PreprocessNew(t)
  PROVE  /\ fresh' = <<>> /\ Lists(sorted', Nodes(sorted'))
         /\ Queued' = Queued /\ sorted' # <<>> /\ Queued # {}
<1>1. fresh' = <<>> /\ sorted' = Merge(sorted, SortReversed(fresh)) /\ HasJobs
  BY DEF Preprocess, PreprocessNew, HasJobs
<1>2. Lists(SortReversed(fresh), Nodes(fresh))
  BY SortReversedLists DEF ActorInv, QueueInv
<1>3. Lists(sorted', Nodes(sorted) \cup Nodes(fresh))
  BY <1>1, <1>2, MergeLists DEF ActorInv, QueueInv
<1>4. Nodes(sorted') = Nodes(sorted) \cup Nodes(fresh) /\ Lists(sorted', Nodes(sorted'))
  BY <1>3, ListsItsNodes
<1>5. Nodes(fresh') = {}
  BY <1>1 DEF Nodes
<1>6. Queued' = Queued
  BY <1>4, <1>5 DEF Queued
<1>7. Queued # {}
  BY <1>1, HasJobsIfQueued DEF ActorInv
<1>8. sorted' # <<>>
  BY <1>4, <1>7, EmptyList DEF Queued
<1> QED  BY <1>1, <1>4, <1>6, <1>7, <1>8

LEMMA DrainOneQueue ==
  ASSUME ActorInv, NEW t \in Threads, DrainOne(t)
  PROVE  /\ fresh = <<>> /\ fresh' = <<>> /\ Lists(sorted', Nodes(sorted'))
         /\ Head(sorted) \in Queued /\ Queued' = Queued \ {Head(sorted)}
         /\ Head(sorted) \in Jobs /\ place[Head(sorted)] = "queued"
<1>1. fresh = <<>> /\ fresh' = <<>> /\ sorted' = Tail(sorted) /\ pc[t] = "take"
  BY DEF DrainOne, At
<1>2. sorted # <<>>
  BY <1>1 DEF ActorInv, WordInv
<1>3. Head(sorted) \in Nodes(sorted) /\ Lists(sorted', Nodes(sorted) \ {Head(sorted)})
  BY <1>1, <1>2, TailLists DEF ActorInv, QueueInv
<1>4. Nodes(sorted') = Nodes(sorted) \ {Head(sorted)} /\ Lists(sorted', Nodes(sorted'))
  BY <1>3, ListsItsNodes
<1>5. Nodes(fresh) = {} /\ Nodes(fresh') = {}
  BY <1>1 DEF Nodes
<1>6. Head(sorted) \in Queued /\ Queued' = Queued \ {Head(sorted)}
  BY <1>3, <1>4, <1>5 DEF Queued
<1> QED  BY <1>1, <1>4, <1>6 DEF ActorInv, QueueInv

(* The other steps leave the queue alone and no queued job elsewhere.      *)
QueueSteps(t) == Enqueue(t) \/ Preprocess(t) \/ PreprocessNew(t) \/ DrainOne(t)

LEMMA OtherStepsKeepQueue ==
  ASSUME ActorInv,
         \/ \E t \in Threads : ThreadStep(t) /\ ~ QueueSteps(t)
         \/ \E e \in Escalators : EscalatorStep(e)
         \/ UNCHANGED vars
  PROVE  /\ UNCHANGED <<fresh, sorted>>
         /\ \A j \in Queued : place'[j] = "queued"
<1>1. CASE \E e \in Escalators : EscalatorStep(e)
  <2>1. UNCHANGED <<fresh, sorted, place>>
    BY <1>1 DEF EscalatorStep, LockTask, RaisePriority, EscalatorOverrides, EscalatorSteals,
       UnlockTask, wordVars, jobVars
  <2> QED  BY <2>1 DEF ActorInv, QueueInv
<1>2. CASE UNCHANGED vars
  BY <1>2 DEF vars, wordVars, jobVars, ActorInv, QueueInv
<1>3. ASSUME NEW t \in Threads, ThreadStep(t), ~ QueueSteps(t)
      PROVE  /\ UNCHANGED <<fresh, sorted>>
             /\ \A j \in Queued : place'[j] = "queued"
  <2>1. UNCHANGED <<fresh, sorted>>
    BY <1>3 DEF ThreadStep, QueueSteps, RunTask, ResumeOnActor, RunIsolated, SwitchFast,
       SwitchSlow, EnqueueOnTaskExecutor, Schedule, Steal, Override, Process, LockToDrain,
       LoseRace, LeaveDrain, DrainNothing, Start, UnlockFails, UnlockIdle, HopOff,
       DropReference, EndOfStretch, GiveUp, LeaveIsolation, wordVars
  <2>2. \/ UNCHANGED place
        \/ \E j \in Jobs, where \in JobPlaces :
             place[j] \in {"global", "suspended", "isolated"} /\ Put(j, where)
        \/ \E where \in JobPlaces : Put(task[t], where) /\ pc[t] \in Carrying
    BY <1>3 DEF ThreadStep, QueueSteps, RunTask, ResumeOnActor, RunIsolated, SwitchFast,
       SwitchSlow, EnqueueOnTaskExecutor, Schedule, Steal, Override, Process, LockToDrain,
       LoseRace, LeaveDrain, DrainNothing, Start, UnlockFails, UnlockIdle, HopOff,
       DropReference, EndOfStretch, GiveUp, LeaveIsolation, jobVars, JobPlaces, Carrying, At
  <2>3. \A j \in Queued : j \in Jobs /\ place[j] = "queued"
    BY DEF ActorInv, QueueInv
  <2>4. CASE \E where \in JobPlaces : Put(task[t], where) /\ pc[t] \in Carrying
    <3>1. task[t] \in Jobs /\ task[t] \notin Queued
      BY <2>4, CarriedNotQueued DEF ActorInv, JobsInv
    <3> QED  BY <2>1, <2>3, <2>4, <3>1 DEF Put, ActorInv, ActorTypes
  <2>5. CASE \E j \in Jobs, where \in JobPlaces :
               place[j] \in {"global", "suspended", "isolated"} /\ Put(j, where)
    BY <2>1, <2>3, <2>5 DEF Put, ActorInv, ActorTypes
  <2> QED  BY <2>1, <2>2, <2>3, <2>4, <2>5
<1> QED  BY <1>1, <1>2, <1>3

LEMMA StepKeepsQueue ==
  ASSUME ActorInv, [Next]_vars
  PROVE  QueueInv'
<1>1. CASE \E t \in Threads : Enqueue(t)
  <2>1. PICK t \in Threads : Enqueue(t)
    BY <1>1
  <2>2. place' = [place EXCEPT ![task[t]] = "queued"]
    BY <2>1 DEF Enqueue, Put
  <2>3. \A j \in Queued' : j \in Jobs /\ place'[j] = "queued"
    BY <2>1, <2>2, EnqueueQueue DEF ActorInv, ActorTypes, QueueInv
  <2> QED  BY <2>1, <2>3, EnqueueQueue DEF QueueInv, ActorInv
<1>2. CASE \E t \in Threads : Preprocess(t) \/ PreprocessNew(t)
  <2>1. PICK t \in Threads : Preprocess(t) \/ PreprocessNew(t)
    BY <1>2
  <2>2. UNCHANGED place
    BY <2>1 DEF Preprocess, PreprocessNew, jobVars
  <2>3. Nodes(fresh') = {} /\ Lists(fresh', Nodes(fresh'))
    BY <2>1, PreprocessQueue, NoNodes
  <2> QED  BY <2>1, <2>2, <2>3, PreprocessQueue DEF QueueInv, ActorInv
<1>3. CASE \E t \in Threads : DrainOne(t)
  <2>1. PICK t \in Threads : DrainOne(t)
    BY <1>3
  <2>2. place' = [place EXCEPT ![Head(sorted)] = "thread"]
    BY <2>1 DEF DrainOne, Put
  <2>3. \A j \in Queued' : j \in Jobs /\ place'[j] = "queued"
    BY <2>1, <2>2, DrainOneQueue DEF ActorInv, ActorTypes, QueueInv
  <2>4. Nodes(fresh') = {} /\ Lists(fresh', Nodes(fresh'))
    BY <2>1, DrainOneQueue, NoNodes
  <2> QED  BY <2>1, <2>3, <2>4, DrainOneQueue DEF QueueInv, ActorInv
<1>4. CASE \/ \E t \in Threads : ThreadStep(t) /\ ~ QueueSteps(t)
           \/ \E e \in Escalators : EscalatorStep(e)
           \/ UNCHANGED vars
  <2>1. UNCHANGED <<fresh, sorted>> /\ \A j \in Queued : place'[j] = "queued"
    BY <1>4, OtherStepsKeepQueue
  <2> QED  BY <2>1, QueuedSame DEF QueueInv, ActorInv
<1> QED  BY <1>1, <1>2, <1>3, <1>4 DEF Next, QueueSteps

-----------------------------------------------------------------------------
(* Types.                                                                  *)

LEMMA ReleaseTypes ==
  ASSUME WordType, ActorTypes, Release
  PROVE  status'.priority = status.priority /\ alive' \in BOOLEAN
BY DEF Release, Deallocate, WordType, ActorTypes

LEMMA GiveUpTypes ==
  ASSUME WordType, ActorTypes, NEW t \in Threads, GiveUpActor(t)
  PROVE  /\ status'.priority \in {0, status.priority} /\ alive' \in BOOLEAN
         /\ owes' \in [Threads -> {"nothing", "process", "steal", "override"}]
<1>1. status'.priority \in {0, status.priority}
  <2>1. \/ status' = IdleStatus
        \/ status' = [status EXCEPT !.state = "Scheduled", !.owner = NoThread]
    BY DEF GiveUpActor
  <2>2. CASE status' = IdleStatus
    BY <2>2 DEF IdleStatus
  <2>3. CASE status' = [status EXCEPT !.state = "Scheduled", !.owner = NoThread]
    BY <2>3 DEF WordType
  <2> QED  BY <2>1, <2>2, <2>3
<1>2. alive' \in BOOLEAN
  BY DEF GiveUpActor, ActorTypes
<1>3. owes' \in [Threads -> {"nothing", "process", "steal", "override"}]
  BY DEF GiveUpActor, ActorTypes, Owe
<1> QED  BY <1>1, <1>2, <1>3

LEMMA ThreadStepKeepsTypes ==
  ASSUME ActorInv, NEW t \in Threads, ThreadStep(t)
  PROVE  ActorTypes'
<1> USE DEF ThreadStep
<1>0. WordType /\ ActorTypes /\ JobsInv /\ task[t] \in Jobs \cup {NoJob}
  BY DEF ActorInv, LockInv, ActorTypes
<1>1. status'.priority \in Nat
  <2>1. CASE Enqueue(t)
    <3>1. task[t] \in Jobs
      BY <2>1, EnqueueQueue
    <3> QED  BY <1>0, <2>1, <3>1, PriorityAssumption DEF Enqueue, WordType, ActorTypes
  <2>2. CASE LoseRace(t) \/ LeaveDrain(t) \/ DropReference(t)
    BY <1>0, <2>2, ReleaseTypes DEF LoseRace, LeaveDrain, DropReference, ActorTypes
  <2>3. CASE UnlockIdle(t) \/ HopOff(t) \/ GiveUp(t)
    BY <1>0, <2>3, GiveUpTypes DEF UnlockIdle, HopOff, GiveUp, ActorTypes
  <2>4. CASE SwitchFast(t) \/ LockToDrain(t)
    BY <1>0, <2>4 DEF SwitchFast, LockToDrain, WordType, ActorTypes
  <2>5. CASE ~ (\/ Enqueue(t) \/ LoseRace(t) \/ LeaveDrain(t) \/ DropReference(t)
                \/ UnlockIdle(t) \/ HopOff(t) \/ GiveUp(t) \/ SwitchFast(t) \/ LockToDrain(t))
    <3>1. UNCHANGED status
      BY <2>5 DEF RunTask, ResumeOnActor, RunIsolated, SwitchSlow, EnqueueOnTaskExecutor,
         Schedule, Steal, Override, Process, Preprocess, DrainNothing, PreprocessNew,
         DrainOne, Start, UnlockFails, EndOfStretch, LeaveIsolation, wordVars
    <3> QED  BY <1>0, <3>1 DEF ActorTypes
  <2> QED  BY <2>1, <2>2, <2>3, <2>4, <2>5
<1>2. alive' \in BOOLEAN
  <2>1. CASE LoseRace(t) \/ LeaveDrain(t) \/ DropReference(t)
    BY <1>0, <2>1, ReleaseTypes DEF LoseRace, LeaveDrain, DropReference
  <2>2. CASE UnlockIdle(t) \/ HopOff(t) \/ GiveUp(t)
    BY <1>0, <2>2, GiveUpTypes DEF UnlockIdle, HopOff, GiveUp
  <2>3. CASE ~ (\/ LoseRace(t) \/ LeaveDrain(t) \/ DropReference(t)
                \/ UnlockIdle(t) \/ HopOff(t) \/ GiveUp(t))
    <3>1. UNCHANGED alive
      BY <2>3 DEF RunTask, ResumeOnActor, RunIsolated, SwitchFast, SwitchSlow, Enqueue,
         EnqueueOnTaskExecutor, Schedule, Steal, Override, Process, LockToDrain, Preprocess,
         DrainNothing, PreprocessNew, DrainOne, Start, UnlockFails, EndOfStretch,
         LeaveIsolation, memoryVars
    <3> QED  BY <1>0, <3>1 DEF ActorTypes
  <2> QED  BY <2>1, <2>2, <2>3
<1>3. processing' \in Nat
  <2>1. processing \in Nat
    BY <1>0 DEF ActorTypes
  <2> QED
    BY <2>1 DEF RunTask, ResumeOnActor, RunIsolated, SwitchFast, SwitchSlow, Enqueue,
       EnqueueOnTaskExecutor, Schedule, Steal, Override, Process, LockToDrain, LoseRace,
       LeaveDrain, Preprocess, DrainNothing, PreprocessNew, DrainOne, Start, UnlockFails,
       UnlockIdle, HopOff, DropReference, EndOfStretch, GiveUp, LeaveIsolation
<1>4. place' \in [Jobs -> JobPlaces]
  <2>1. place \in [Jobs -> JobPlaces]
    BY <1>0 DEF ActorTypes
  <2>2. UNCHANGED place \/ \E j, where : where \in JobPlaces /\ Put(j, where)
    BY DEF RunTask, ResumeOnActor, RunIsolated, SwitchFast, SwitchSlow, Enqueue,
       EnqueueOnTaskExecutor, Schedule, Steal, Override, Process, LockToDrain, LoseRace,
       LeaveDrain, Preprocess, DrainNothing, PreprocessNew, DrainOne, Start, UnlockFails,
       UnlockIdle, HopOff, DropReference, EndOfStretch, GiveUp, LeaveIsolation, jobVars,
       JobPlaces
  <2> QED  BY <2>1, <2>2 DEF Put
<1>5. holds' \in [Jobs -> BOOLEAN]
  <2>1. UNCHANGED holds \/ holds' = [holds EXCEPT ![task[t]] = FALSE]
    BY DEF RunTask, ResumeOnActor, RunIsolated, SwitchFast, SwitchSlow, Enqueue,
       EnqueueOnTaskExecutor, Schedule, Steal, Override, Process, LockToDrain, LoseRace,
       LeaveDrain, Preprocess, DrainNothing, PreprocessNew, DrainOne, Start, UnlockFails,
       UnlockIdle, HopOff, DropReference, EndOfStretch, GiveUp, LeaveIsolation, jobVars
  <2> QED  BY <1>0, <2>1 DEF ActorTypes
<1>6. task' \in [Threads -> Jobs \cup {NoJob}]
  <2>1. UNCHANGED task \/ \E j \in Jobs \cup {NoJob} : Take(t, j)
    <3>1. CASE DrainOne(t)
      BY <3>1, DrainOneQueue DEF DrainOne
    <3>2. CASE ~ DrainOne(t)
      BY <3>2 DEF RunTask, ResumeOnActor, RunIsolated, SwitchFast, SwitchSlow, Enqueue,
         EnqueueOnTaskExecutor, Schedule, Steal, Override, Process, LockToDrain, LoseRace,
         LeaveDrain, Preprocess, DrainNothing, PreprocessNew, Start, UnlockFails,
         UnlockIdle, HopOff, DropReference, EndOfStretch, GiveUp, LeaveIsolation, threadVars
    <3> QED  BY <3>1, <3>2
  <2> QED  BY <1>0, <2>1 DEF ActorTypes, Take
<1>7. nest' \in [Threads -> {"none", "other", "this"}]
  <2>1. UNCHANGED nest \/ \E n \in {"none", "other", "this"} : nest' = [nest EXCEPT ![t] = n]
    <3>1. nest[t] = "this" => [nest EXCEPT ![t] = nest[t]] = nest
      BY <1>0 DEF ActorTypes
    <3> QED
      BY <3>1 DEF RunTask, ResumeOnActor, RunIsolated, SwitchFast, SwitchSlow, Enqueue,
         EnqueueOnTaskExecutor, Schedule, Steal, Override, Process, LockToDrain, LoseRace,
         LeaveDrain, Preprocess, DrainNothing, PreprocessNew, DrainOne, Start, UnlockFails,
         UnlockIdle, HopOff, DropReference, EndOfStretch, GiveUp, LeaveIsolation, threadVars,
         Return
  <2> QED  BY <1>0, <2>1 DEF ActorTypes
<1>8. owes' \in [Threads -> {"nothing", "process", "steal", "override"}]
  <2>1. CASE UnlockIdle(t) \/ HopOff(t) \/ GiveUp(t)
    BY <1>0, <2>1, GiveUpTypes DEF UnlockIdle, HopOff, GiveUp
  <2>2. CASE ~ (UnlockIdle(t) \/ HopOff(t) \/ GiveUp(t))
    <3>1. \/ UNCHANGED owes
          \/ \E what \in {"nothing", "process", "steal", "override"} : Owe(t, what)
      BY <2>2 DEF RunTask, ResumeOnActor, RunIsolated, SwitchFast, SwitchSlow, Enqueue,
         EnqueueOnTaskExecutor, Schedule, Steal, Override, Process, LockToDrain, LoseRace,
         LeaveDrain, Preprocess, DrainNothing, PreprocessNew, DrainOne, Start, UnlockFails,
         DropReference, EndOfStretch, LeaveIsolation, threadVars
    <3> QED  BY <1>0, <3>1 DEF ActorTypes, Owe
  <2> QED  BY <2>1, <2>2
<1>9. UNCHANGED escalVars
  BY DEF RunTask, ResumeOnActor, RunIsolated, SwitchFast, SwitchSlow, Enqueue,
     EnqueueOnTaskExecutor, Schedule, Steal, Override, Process, LockToDrain, LoseRace,
     LeaveDrain, Preprocess, DrainNothing, PreprocessNew, DrainOne, Start, UnlockFails,
     UnlockIdle, HopOff, DropReference, EndOfStretch, GiveUp, LeaveIsolation
<1> QED
  BY <1>0, <1>1, <1>2, <1>3, <1>4, <1>5, <1>6, <1>7, <1>8, <1>9 DEF ActorTypes, escalVars

LEMMA EscalatorStepKeepsTypes ==
  ASSUME ActorInv, NEW e \in Escalators, EscalatorStep(e)
  PROVE  ActorTypes'
<1>0. WordType /\ ActorTypes
  BY DEF ActorInv, LockInv
<1>1. UNCHANGED <<alive, jobVars, threadVars>>
  BY DEF EscalatorStep, LockTask, RaisePriority, EscalatorOverrides, EscalatorSteals,
     UnlockTask, memoryVars
<1>2. status'.priority \in Nat
  BY <1>0 DEF EscalatorStep, LockTask, RaisePriority, EscalatorOverrides, EscalatorSteals,
     UnlockTask, wordVars, WordType, ActorTypes
<1>3. processing' \in Nat
  BY <1>0 DEF EscalatorStep, LockTask, RaisePriority, EscalatorOverrides, EscalatorSteals,
     UnlockTask, ActorTypes
<1>4. /\ epc' \in [Escalators -> {"idle", "raise", "override", "steal", "done"}]
      /\ target' \in [Escalators -> Jobs \cup {NoJob}]
      /\ level' \in [Escalators -> Nat]
  BY <1>0, PriorityAssumption
  DEF EscalatorStep, LockTask, RaisePriority, EscalatorOverrides, EscalatorSteals,
      UnlockTask, ActorTypes
<1> QED  BY <1>0, <1>1, <1>2, <1>3, <1>4 DEF ActorTypes, jobVars, threadVars

LEMMA StepKeepsTypes ==
  ASSUME ActorInv, [Next]_vars
  PROVE  ActorTypes'
<1>1. CASE UNCHANGED vars
  BY <1>1 DEF vars, wordVars, memoryVars, jobVars, threadVars, escalVars, ActorInv, ActorTypes
<1> QED  BY <1>1, ThreadStepKeepsTypes, EscalatorStepKeepsTypes DEF Next

-----------------------------------------------------------------------------
(* Drain loops.                                                            *)

LEMMA StepKeepsNest ==
  ASSUME ActorInv, [Next]_vars
  PROVE  NestInv'
<1>0. /\ NestInv /\ pc \in [Threads -> Places]
      /\ nest \in [Threads -> {"none", "other", "this"}]
  BY DEF ActorInv, LockInv, LocationType, ActorTypes
<1>1. CASE UNCHANGED <<pc, nest>>
  BY <1>0, <1>1 DEF NestInv
<1>2. ASSUME NEW t \in Threads, NEW where, NEW n,
             pc' = [pc EXCEPT ![t] = where], nest' = [nest EXCEPT ![t] = n],
             where = "idle" => n = "none", where \in {"lock", "leave"} => n = "this"
      PROVE  NestInv'
  BY <1>0, <1>2 DEF NestInv
<1>3. ASSUME NEW t \in Threads, Return(t)
      PROVE  NestInv'
  <2>1. CASE nest[t] = "this"
    BY <1>0, <1>2, <1>3, <2>1 DEF Return, Goto
  <2>2. CASE nest[t] # "this"
    BY <1>0, <1>2, <1>3, <2>2 DEF Return, Goto
  <2> QED  BY <2>1, <2>2
<1>4. ASSUME NEW t \in Threads, UNCHANGED nest,
             NEW where \in Places \ {"idle", "lock", "leave"}, Goto(t, where)
      PROVE  NestInv'
  BY <1>0, <1>4 DEF NestInv, Goto
<1>5. ASSUME NEW t \in Threads, ThreadStep(t)
      PROVE  NestInv'
  <2>1. CASE \E j \in Jobs : RunTask(t, j)
    BY <1>2, <2>1 DEF RunTask, Goto
  <2>2. CASE \/ \E j \in Jobs : ResumeOnActor(t, j) \/ RunIsolated(t, j)
             \/ SwitchFast(t) \/ SwitchSlow(t) \/ LockToDrain(t) \/ Preprocess(t)
             \/ DrainNothing(t) \/ DrainOne(t) \/ Start(t) \/ UnlockFails(t) \/ HopOff(t)
             \/ LeaveIsolation(t)
    <3>1. /\ UNCHANGED nest
          /\ \E where \in {"enqueue", "isolated", "actor", "drain", "take", "unlock", "start",
                           "generic"} : Goto(t, where)
      BY <2>2 DEF ResumeOnActor, RunIsolated, SwitchFast, SwitchSlow, LockToDrain, Preprocess,
         DrainNothing, DrainOne, Start, UnlockFails, HopOff, LeaveIsolation
    <3> QED  BY <1>4, <3>1 DEF Places, Inside
  <2>3. CASE \/ Enqueue(t) \/ EnqueueOnTaskExecutor(t) \/ UnlockIdle(t) \/ GiveUp(t)
             \/ EndOfStretch(t) /\ pc[t] # "actor"
    BY <1>3, <2>3 DEF Enqueue, EnqueueOnTaskExecutor, UnlockIdle, GiveUp, EndOfStretch
  <2>4. CASE EndOfStretch(t) /\ pc[t] = "actor"
    <3>1. UNCHANGED nest /\ \E where \in {"giveUp", "drain"} : Goto(t, where)
      BY <2>4 DEF EndOfStretch
    <3> QED  BY <1>4, <3>1 DEF Places, Inside
  <2>5. CASE Process(t) \/ LeaveDrain(t)
    BY <1>2, <2>5 DEF Process, LeaveDrain, Goto
  <2>6. CASE LoseRace(t)
    <3>1. nest[t] = "this"
      BY <1>0, <2>6 DEF LoseRace, At, NestInv
    <3> QED  BY <1>0, <1>2, <2>6, <3>1 DEF LoseRace, Goto
  <2>7. CASE Schedule(t) \/ Steal(t) \/ Override(t) \/ PreprocessNew(t) \/ DropReference(t)
    BY <1>1, <2>7 DEF Schedule, Steal, Override, PreprocessNew, DropReference, threadVars
  <2> QED
    BY <1>5, <2>1, <2>2, <2>3, <2>4, <2>5, <2>6, <2>7 DEF ThreadStep
<1>6. ASSUME NEW e \in Escalators, EscalatorStep(e)
      PROVE  UNCHANGED <<pc, nest>>
  BY <1>6 DEF EscalatorStep, LockTask, RaisePriority, EscalatorOverrides, EscalatorSteals,
     UnlockTask, threadVars
<1>7. UNCHANGED vars => UNCHANGED <<pc, nest>>
  BY DEF vars, threadVars
<1> QED  BY <1>1, <1>5, <1>6, <1>7 DEF Next

-----------------------------------------------------------------------------
(* A job is in one place.                                                  *)

(* A step that leaves every job with its thread, which moves on.           *)
LEMMA JobsStay ==
  ASSUME ActorInv, NEW t \in Threads, UNCHANGED <<task, place, holds>>,
         NEW where \in Places, Goto(t, where), where \in Carrying <=> pc[t] \in Carrying,
         where \in {"enqueue", "start"} => pc[t] \in {"enqueue", "start"} \/ holds[task[t]]
  PROVE  JobsInv'
<1>1. JobsInv /\ pc \in [Threads -> Places]
  BY DEF ActorInv, LockInv, LocationType
<1>2. \A s \in Threads : pc'[s] = IF s = t THEN where ELSE pc[s]
  BY <1>1 DEF Goto
<1>3. \A s \in Threads : pc'[s] \in Carrying <=> pc[s] \in Carrying
  BY <1>2
<1>4. \A s \in Threads : pc'[s] \in {"enqueue", "start"} => holds[task[s]]
  BY <1>1, <1>2 DEF JobsInv
<1> QED  BY <1>1, <1>3, <1>4 DEF JobsInv

(* A thread without a job takes one that is nowhere else.                  *)
LEMMA JobTaken ==
  ASSUME ActorInv, NEW t \in Threads, pc[t] \notin Carrying, NEW j \in Jobs,
         place[j] # "thread", Put(j, "thread"), Take(t, j), UNCHANGED holds,
         NEW where \in Places \cap Carrying, Goto(t, where),
         where \in {"enqueue", "start"} => holds[j]
  PROVE  JobsInv'
<1>1. /\ JobsInv /\ pc \in [Threads -> Places] /\ place \in [Jobs -> JobPlaces]
      /\ task \in [Threads -> Jobs \cup {NoJob}]
  BY DEF ActorInv, LockInv, LocationType, ActorTypes
<1>2. \A s \in Threads : pc'[s] = IF s = t THEN where ELSE pc[s]
  BY <1>1 DEF Goto
<1>3. \A s \in Threads : task'[s] = IF s = t THEN j ELSE task[s]
  BY <1>1 DEF Take
<1>4. \A i \in Jobs : place'[i] = IF i = j THEN "thread" ELSE place[i]
  BY <1>1 DEF Put
<1>5. \A s \in Threads : task[s] # j
  BY <1>1 DEF JobsInv
<1>6. \A s \in Threads :
        IF pc'[s] \in Carrying THEN task'[s] \in Jobs ELSE task'[s] = NoJob
  BY <1>1, <1>2, <1>3 DEF JobsInv
<1>7. \A s \in Threads : task'[s] \in Jobs => place'[task'[s]] = "thread"
  BY <1>1, <1>3, <1>4 DEF JobsInv
<1>8. \A r, s \in Threads : task'[r] = task'[s] /\ task'[r] \in Jobs => r = s
  BY <1>1, <1>3, <1>5 DEF JobsInv
<1>9. \A i \in Jobs : place'[i] \in {"queued", "isolated"} => holds[i]
  BY <1>1, <1>4 DEF JobsInv
<1>10. \A s \in Threads : pc'[s] \in {"enqueue", "start"} => holds[task'[s]]
  BY <1>1, <1>2, <1>3 DEF JobsInv
<1> QED  BY <1>6, <1>7, <1>8, <1>9, <1>10 DEF JobsInv

(* A thread leaves its job somewhere.                                      *)
LEMMA JobLeft ==
  ASSUME ActorInv, NEW t \in Threads, pc[t] \in Carrying, Take(t, NoJob), UNCHANGED holds,
         NEW there \in JobPlaces, Put(task[t], there),
         there \in {"queued", "isolated"} => holds[task[t]],
         NEW where \in Places \ Carrying, Goto(t, where)
  PROVE  JobsInv'
<1>1. /\ JobsInv /\ pc \in [Threads -> Places] /\ place \in [Jobs -> JobPlaces]
      /\ task \in [Threads -> Jobs \cup {NoJob}] /\ task[t] \in Jobs
  BY DEF ActorInv, LockInv, LocationType, ActorTypes, JobsInv
<1>2. \A s \in Threads : pc'[s] = IF s = t THEN where ELSE pc[s]
  BY <1>1 DEF Goto
<1>3. \A s \in Threads : task'[s] = IF s = t THEN NoJob ELSE task[s]
  BY <1>1 DEF Take
<1>4. \A i \in Jobs : place'[i] = IF i = task[t] THEN there ELSE place[i]
  BY <1>1 DEF Put
<1>5. \A s \in Threads : s # t => task[s] # task[t]
  BY <1>1 DEF JobsInv
<1>6. \A s \in Threads :
        IF pc'[s] \in Carrying THEN task'[s] \in Jobs ELSE task'[s] = NoJob
  BY <1>1, <1>2, <1>3 DEF JobsInv
<1>7. \A s \in Threads : task'[s] \in Jobs => place'[task'[s]] = "thread"
  BY <1>1, <1>3, <1>4, <1>5, NullAssumption DEF JobsInv
<1>8. \A r, s \in Threads : task'[r] = task'[s] /\ task'[r] \in Jobs => r = s
  BY <1>1, <1>3, NullAssumption DEF JobsInv
<1>9. \A i \in Jobs : place'[i] \in {"queued", "isolated"} => holds[i]
  BY <1>1, <1>4 DEF JobsInv
<1>10. \A s \in Threads : pc'[s] \in {"enqueue", "start"} => holds[task'[s]]
  BY <1>1, <1>2, <1>3 DEF JobsInv, Carrying
<1> QED  BY <1>6, <1>7, <1>8, <1>9, <1>10 DEF JobsInv

(* A task on a thread drops its reference.                                 *)
LEMMA ReferenceDropped ==
  ASSUME ActorInv, NEW t \in Threads, pc[t] \in {"actor", "isolated", "generic"},
         holds' = [holds EXCEPT ![task[t]] = FALSE], UNCHANGED <<pc, task, place>>
  PROVE  JobsInv'
<1>1. JobsInv /\ holds \in [Jobs -> BOOLEAN] /\ task[t] \in Jobs
  BY DEF ActorInv, ActorTypes, JobsInv, Carrying
<1>2. \A j \in Jobs : j # task[t] => holds'[j] = holds[j]
  BY <1>1
<1>3. place[task[t]] = "thread"
  BY <1>1 DEF JobsInv
<1>4. \A s \in Threads : pc[s] \in {"enqueue", "start"} => task[s] \in Jobs /\ task[s] # task[t]
  BY <1>1 DEF JobsInv, Carrying
<1>5. \A i \in Jobs : place[i] \in {"queued", "isolated"} => holds'[i]
  BY <1>1, <1>2, <1>3 DEF JobsInv
<1>6. \A s \in Threads : pc[s] \in {"enqueue", "start"} => holds'[task[s]]
  BY <1>1, <1>2, <1>4 DEF JobsInv
<1> QED  BY <1>1, <1>5, <1>6 DEF JobsInv

LEMMA ReturnPlaces ==
  ASSUME NEW t \in Threads, Return(t)
  PROVE  \E where \in {"leave", "idle"} : Goto(t, where)
BY DEF Return

LEMMA ThreadStepKeepsJobs ==
  ASSUME ActorInv, NEW t \in Threads, ThreadStep(t)
  PROVE  JobsInv'
<1> USE DEF At, Places, Inside, Carrying
<1>0. /\ JobsInv /\ pc \in [Threads -> Places] /\ place \in [Jobs -> JobPlaces]
      /\ task \in [Threads -> Jobs \cup {NoJob}]
  BY DEF ActorInv, LockInv, LocationType, ActorTypes
<1>1. CASE \E j \in Jobs : RunTask(t, j) \/ ResumeOnActor(t, j) \/ RunIsolated(t, j)
  <2>1. PICK j \in Jobs : RunTask(t, j) \/ ResumeOnActor(t, j) \/ RunIsolated(t, j)
    BY <1>1
  <2>2. PICK where \in {"generic", "enqueue", "isolated"} :
           /\ Goto(t, where) /\ pc[t] = "idle" /\ place[j] # "thread"
           /\ Put(j, "thread") /\ Take(t, j) /\ UNCHANGED holds
           /\ where = "enqueue" => holds[j]
    BY <2>1 DEF RunTask, ResumeOnActor, RunIsolated, MayVisit
  <2> QED  BY <2>2, JobTaken
<1>2. CASE DrainOne(t)
  <2>1. holds[Head(sorted)]
    BY <1>0, <1>2, DrainOneQueue DEF JobsInv
  <2>2. /\ Goto(t, "start") /\ pc[t] = "take" /\ Put(Head(sorted), "thread")
        /\ Take(t, Head(sorted)) /\ UNCHANGED holds
    BY <1>2 DEF DrainOne
  <2> QED  BY <1>2, <2>1, <2>2, DrainOneQueue, JobTaken
<1>3. CASE Enqueue(t) \/ EnqueueOnTaskExecutor(t)
  <2>1. holds[task[t]]
    BY <1>0, <1>3 DEF JobsInv, Enqueue, EnqueueOnTaskExecutor
  <2>2. PICK there \in {"queued", "isolated"} :
           /\ pc[t] = "enqueue" /\ Return(t) /\ Put(task[t], there)
           /\ Take(t, NoJob) /\ UNCHANGED holds
    BY <1>3 DEF Enqueue, EnqueueOnTaskExecutor
  <2>3. PICK where \in {"leave", "idle"} : Goto(t, where)
    BY <2>2, ReturnPlaces
  <2> QED  BY <2>1, <2>2, <2>3, JobLeft DEF JobPlaces
<1>4. CASE EndOfStretch(t)
  <2>1. /\ \E there \in {"global", "suspended", "done"} : Put(task[t], there)
        /\ pc[t] \in {"actor", "isolated", "generic"}
        /\ Take(t, NoJob) /\ UNCHANGED holds
    BY <1>4 DEF EndOfStretch
  <2>2. \E where \in {"leave", "idle", "giveUp", "drain"} : Goto(t, where)
    BY <1>4, ReturnPlaces DEF EndOfStretch
  <2> QED  BY <2>1, <2>2, JobLeft DEF JobPlaces
<1>5. CASE DropReference(t)
  BY <1>5, ReferenceDropped DEF DropReference, threadVars
<1>6. CASE SwitchFast(t) \/ SwitchSlow(t) \/ Start(t) \/ HopOff(t) \/ LeaveIsolation(t)
  <2>1. \E where \in {"actor", "enqueue", "generic"} :
          /\ Goto(t, where) /\ pc[t] \in Carrying /\ UNCHANGED <<task, place, holds>>
          /\ where = "enqueue" => holds[task[t]]
    BY <1>6 DEF SwitchFast, SwitchSlow, Start, HopOff, LeaveIsolation, MayVisit, jobVars
  <2> QED  BY <2>1, JobsStay
<1>7. CASE \/ Process(t) \/ LockToDrain(t) \/ LoseRace(t) \/ LeaveDrain(t) \/ Preprocess(t)
           \/ DrainNothing(t) \/ UnlockFails(t)
  <2>1. \E where \in {"lock", "drain", "leave", "idle", "take", "unlock"} :
          Goto(t, where) /\ pc[t] \notin Carrying /\ UNCHANGED <<task, place, holds>>
    BY <1>7 DEF Process, LockToDrain, LoseRace, LeaveDrain, Preprocess, DrainNothing,
       UnlockFails, jobVars
  <2> QED  BY <2>1, JobsStay
<1>8. CASE UnlockIdle(t) \/ GiveUp(t)
  <2>1. Return(t) /\ pc[t] \notin Carrying /\ UNCHANGED <<task, place, holds>>
    BY <1>8 DEF UnlockIdle, GiveUp, jobVars
  <2> QED  BY <2>1, ReturnPlaces, JobsStay
<1>9. CASE Schedule(t) \/ Steal(t) \/ Override(t) \/ PreprocessNew(t)
  <2>1. UNCHANGED <<pc, task, place, holds>>
    BY <1>9 DEF Schedule, Steal, Override, PreprocessNew, threadVars, jobVars
  <2> QED  BY <1>0, <2>1 DEF JobsInv
<1> QED
  BY <1>1, <1>2, <1>3, <1>4, <1>5, <1>6, <1>7, <1>8, <1>9 DEF ThreadStep

LEMMA StepKeepsJobs ==
  ASSUME ActorInv, [Next]_vars
  PROVE  JobsInv'
<1>1. ASSUME (\E e \in Escalators : EscalatorStep(e)) \/ UNCHANGED vars
      PROVE  UNCHANGED <<pc, task, place, holds>>
  BY <1>1 DEF EscalatorStep, LockTask, RaisePriority, EscalatorOverrides, EscalatorSteals,
     UnlockTask, threadVars, jobVars, vars
<1>2. UNCHANGED <<pc, task, place, holds>> => JobsInv'
  BY DEF ActorInv, JobsInv
<1> QED  BY <1>1, <1>2, ThreadStepKeepsJobs DEF Next

-----------------------------------------------------------------------------
(* A task whose record is locked stays where the escalator found it, or    *)
(* goes from the queue to the thread that waits for the lock.              *)

LEMMA LockedTaskStays ==
  ASSUME ActorInv, NEW j \in Jobs, RecordLocked(j), Enqueued(j),
         NEW t \in Threads, ThreadStep(t)
  PROVE  Enqueued(j)'
<1>0. /\ JobsInv /\ pc \in [Threads -> Places] /\ place \in [Jobs -> JobPlaces]
      /\ task \in [Threads -> Jobs \cup {NoJob}]
  BY DEF ActorInv, LockInv, LocationType, ActorTypes
<1>1. CASE place[j] \in {"queued", "isolated"}
  <2>1. \A s \in Threads : task[s] # j
    BY <1>0, <1>1 DEF JobsInv
  <2>2. CASE DrainOne(t)
    <3>1. CASE Head(sorted) = j
      <4>1. task' = [task EXCEPT ![t] = j] /\ pc' = [pc EXCEPT ![t] = "start"]
        BY <2>2, <3>1 DEF DrainOne, Take, Goto
      <4> QED  BY <1>0, <4>1 DEF Enqueued
    <3>2. CASE Head(sorted) # j
      BY <1>0, <1>1, <2>2, <3>2 DEF DrainOne, Put, Enqueued
    <3> QED  BY <3>1, <3>2
  <2>3. CASE ~ DrainOne(t)
    <3>1. \/ UNCHANGED place
          \/ \E i \in Jobs, where \in JobPlaces :
               Put(i, where) /\ (place[i] \in {"global", "suspended"} \/ ~ RecordLocked(i))
          \/ \E where \in JobPlaces : Put(task[t], where)
      BY <2>3 DEF ThreadStep, RunTask, ResumeOnActor, RunIsolated, SwitchFast, SwitchSlow,
         Enqueue, EnqueueOnTaskExecutor, Schedule, Steal, Override, Process, LockToDrain,
         LoseRace, LeaveDrain, Preprocess, DrainNothing, PreprocessNew, Start, UnlockFails,
         UnlockIdle, HopOff, DropReference, EndOfStretch, GiveUp, LeaveIsolation, jobVars,
         JobPlaces
    <3>2. place'[j] = place[j]
      BY <1>0, <1>1, <2>1, <3>1 DEF Put
    <3> QED  BY <1>1, <3>2 DEF Enqueued
  <2> QED  BY <2>2, <2>3
<1>2. CASE \E s \in Threads : pc[s] \in {"enqueue", "start"} /\ task[s] = j
  <2>1. PICK s \in Threads : pc[s] \in {"enqueue", "start"} /\ task[s] = j
    BY <1>2
  <2>2. CASE s = t
    <3>1. CASE Enqueue(t) \/ EnqueueOnTaskExecutor(t)
      BY <1>0, <2>1, <2>2, <3>1 DEF Enqueue, EnqueueOnTaskExecutor, Put, Enqueued
    <3>2. CASE Schedule(t) \/ Steal(t) \/ Override(t)
      BY <2>1, <3>2 DEF Schedule, Steal, Override, threadVars, Enqueued
    <3> QED
      BY <2>1, <2>2, <3>1, <3>2 DEF ThreadStep, RunTask, ResumeOnActor, RunIsolated,
         SwitchFast, SwitchSlow, Process, LockToDrain, LoseRace, LeaveDrain, Preprocess,
         DrainNothing, PreprocessNew, DrainOne, Start, UnlockFails, UnlockIdle, HopOff,
         DropReference, EndOfStretch, GiveUp, LeaveIsolation, At
  <2>3. CASE s # t
    <3>1. \/ UNCHANGED pc
          \/ \E where : pc' = [pc EXCEPT ![t] = where]
      BY DEF ThreadStep, RunTask, ResumeOnActor, RunIsolated, SwitchFast, SwitchSlow,
         Enqueue, EnqueueOnTaskExecutor, Schedule, Steal, Override, Process, LockToDrain,
         LoseRace, LeaveDrain, Preprocess, DrainNothing, PreprocessNew, DrainOne, Start,
         UnlockFails, UnlockIdle, HopOff, DropReference, EndOfStretch, GiveUp,
         LeaveIsolation, threadVars, Goto, Return
    <3>2. \/ UNCHANGED task
          \/ \E i : task' = [task EXCEPT ![t] = i]
      BY DEF ThreadStep, RunTask, ResumeOnActor, RunIsolated, SwitchFast, SwitchSlow,
         Enqueue, EnqueueOnTaskExecutor, Schedule, Steal, Override, Process, LockToDrain,
         LoseRace, LeaveDrain, Preprocess, DrainNothing, PreprocessNew, DrainOne, Start,
         UnlockFails, UnlockIdle, HopOff, DropReference, EndOfStretch, GiveUp,
         LeaveIsolation, threadVars, Take
    <3>3. pc'[s] = pc[s] /\ task'[s] = task[s]
      BY <1>0, <2>3, <3>1, <3>2
    <3> QED  BY <2>1, <3>3 DEF Enqueued
  <2> QED  BY <2>2, <2>3
<1> QED  BY <1>1, <1>2 DEF Enqueued

LEMMA StepKeepsEscalators ==
  ASSUME ActorInv, [Next]_vars
  PROVE  EscalatorInv'
<1>0. /\ EscalatorInv /\ target \in [Escalators -> Jobs \cup {NoJob}]
      /\ epc \in [Escalators -> {"idle", "raise", "override", "steal", "done"}]
  BY DEF ActorInv, ActorTypes
<1>1. ASSUME NEW t \in Threads, ThreadStep(t)
      PROVE  EscalatorInv'
  <2>1. UNCHANGED <<epc, target>>
    BY <1>1 DEF ThreadStep, RunTask, ResumeOnActor, RunIsolated, SwitchFast, SwitchSlow,
       Enqueue, EnqueueOnTaskExecutor, Schedule, Steal, Override, Process, LockToDrain,
       LoseRace, LeaveDrain, Preprocess, DrainNothing, PreprocessNew, DrainOne, Start,
       UnlockFails, UnlockIdle, HopOff, DropReference, EndOfStretch, GiveUp,
       LeaveIsolation, escalVars
  <2>2. ASSUME NEW e \in Escalators, epc[e] \in Escalating
        PROVE  target[e] \in Jobs /\ Enqueued(target[e])'
    <3>1. target[e] \in Jobs /\ Enqueued(target[e]) /\ RecordLocked(target[e])
      BY <1>0, <2>2 DEF EscalatorInv, RecordLocked
    <3>2. PICK j \in Jobs : j = target[e]
      BY <3>1
    <3>3. Enqueued(j)'
      BY <1>1, <3>1, <3>2, LockedTaskStays
    <3>4. target'[e] = j
      BY <2>1, <3>2
    <3> QED  BY <3>1, <3>3, <3>4 DEF Enqueued
  <2> QED  BY <2>1, <2>2 DEF EscalatorInv, Enqueued
<1>2. ASSUME NEW e \in Escalators, EscalatorStep(e)
      PROVE  EscalatorInv'
  <2>1. UNCHANGED <<pc, task, place>>
    BY <1>2 DEF EscalatorStep, LockTask, RaisePriority, EscalatorOverrides, EscalatorSteals,
       UnlockTask, threadVars, jobVars
  <2>2. /\ \A d \in Escalators \ {e} : epc'[d] = epc[d] /\ target'[d] = target[d]
        /\ epc'[e] \in Escalating => target'[e] \in Jobs /\ Enqueued(target'[e])
    BY <1>0, <1>2 DEF EscalatorStep, LockTask, RaisePriority, EscalatorOverrides,
       EscalatorSteals, UnlockTask, EscalatorInv, Escalating
  <2> QED  BY <1>0, <2>1, <2>2 DEF EscalatorInv, Enqueued
<1>3. CASE UNCHANGED vars
  BY <1>0, <1>3 DEF EscalatorInv, Enqueued, vars, threadVars, jobVars, escalVars
<1> QED  BY <1>1, <1>2, <1>3 DEF Next

-----------------------------------------------------------------------------
(* Counting.                                                               *)

Holders    == {j \in Jobs : holds[j]}
Nested     == {t \in Threads : nest[t] = "this"}
Contenders == {t \in Threads : pc[t] \in Inside \cup {"lock"}}
Owing      == {t \in Threads : owes[t] = "process"}

LEMMA Counts ==
  /\ IsFiniteSet(Holders) /\ Cardinality(Holders) \in Nat
  /\ IsFiniteSet(Nested) /\ Cardinality(Nested) \in Nat
  /\ IsFiniteSet(Contenders) /\ Cardinality(Contenders) \in Nat
  /\ IsFiniteSet(Owing) /\ Cardinality(Owing) \in Nat
BY FiniteAssumption, FS_Subset, FS_CardinalityType DEF Holders, Nested, Contenders, Owing

LEMMA BalanceOf ==
  /\ N = processing + Cardinality(Contenders) + Cardinality(Owing)
  /\ R \in {0, 1}
  /\ Balanced <=> /\ N >= R
                  /\ refs = Cardinality(Holders) + Cardinality(Nested) + (N - R)
BY DEF N, R, Holds, Balanced, Holders, Nested, Contenders, Owing

LEMMA CountedMember ==
  ASSUME NEW S, IsFiniteSet(S), NEW x \in S
  PROVE  Cardinality(S) >= 1
<1>1. Cardinality(S) \in Nat /\ Cardinality(S) # 0
  BY FS_CardinalityType, FS_EmptySet
<1> QED  BY <1>1

(* Whoever has a reference keeps the actor.                                *)
LEMMA ReferenceKeepsActor ==
  ASSUME ActorInv, Holders # {} \/ Nested # {} \/ N > R
  PROVE  refs >= 1 /\ alive /\ status.state # "Zombie"
<1>1. Cardinality(Holders) >= 1 \/ Cardinality(Nested) >= 1 \/ N > R
  BY Counts, CountedMember
<1>2. N >= R /\ refs = Cardinality(Holders) + Cardinality(Nested) + (N - R)
  BY BalanceOf DEF ActorInv
<1>3. N \in Nat /\ R \in Nat
  BY BalanceOf, Counts DEF ActorInv, ActorTypes
<1>4. refs >= 1
  BY <1>1, <1>2, <1>3, Counts
<1>5. refs # 0
  BY <1>4
<1>6. alive /\ status.state # "Zombie"
  BY <1>5 DEF ActorInv, LifeInv
<1> QED  BY <1>4, <1>6

LEMMA QueueKeepsActor ==
  ASSUME ActorInv, Queued # {}
  PROVE  refs >= 1 /\ alive /\ status.state # "Zombie"
<1>1. PICK j \in Queued : TRUE
  OBVIOUS
<1>2. j \in Jobs /\ holds[j]
  BY DEF ActorInv, QueueInv, JobsInv
<1>3. Holders # {}
  BY <1>2 DEF Holders
<1> QED  BY <1>3, ReferenceKeepsActor

(* There is work exactly if the word is not idle.                          *)
LEMMA WorkIsState ==
  LockInv /\ QueueInv /\ WordInv => R = IF status.state = "Idle" THEN 0 ELSE 1
<1> SUFFICES ASSUME LockInv, QueueInv, WordInv
             PROVE  R = IF status.state = "Idle" THEN 0 ELSE 1
  OBVIOUS
<1>1. HasJobs <=> Queued # {}
  BY HasJobsIfQueued
<1>2. CASE status.state = "Idle"
  <2>1. ~ HasJobs /\ \A t \in Threads : pc[t] \notin Inside
    BY <1>1, <1>2 DEF LockInv, MutualExclusion, WordInv
  <2> QED  BY <1>2, <2>1 DEF R, Holds
<1>3. CASE status.state # "Idle"
  <2>1. HasJobs \/ \E t \in Threads : pc[t] \in Inside
    BY <1>1, <1>3 DEF LockInv, WordType, States, MutualExclusion, WordInv
  <2> QED  BY <1>3, <2>1 DEF R, Holds
<1> QED  BY <1>2, <1>3

-----------------------------------------------------------------------------
(* The word, the priority and the queue.                                   *)

LEMMA ReleaseResult ==
  ASSUME WordType, Release
  PROVE  /\ refs' = refs - 1 /\ UNCHANGED status.owner /\ UNCHANGED status.priority
         /\ \/ UNCHANGED <<status, alive>> /\ refs # 1
            \/ refs = 1 /\ status.state = "Running" /\ status'.state = "Zombie" /\ UNCHANGED alive
            \/ refs = 1 /\ status.state # "Running" /\ UNCHANGED status /\ alive' = FALSE
BY DEF Release, Deallocate, WordType

(* A thread inside gives up the actor: it is freed, idle, or scheduled.    *)
LEMMA GiveUpKinds ==
  ASSUME ActorInv, NEW t \in Threads, GiveUpActor(t)
  PROVE  \/ /\ status.state = "Zombie" /\ Queued = {} /\ status' = IdleStatus
            /\ alive' = FALSE /\ UNCHANGED owes
         \/ /\ status.state = "Running" /\ Queued # {} /\ status'.state = "Scheduled"
            /\ UNCHANGED status.priority /\ UNCHANGED alive /\ Owe(t, "process")
         \/ /\ status.state = "Running" /\ Queued = {} /\ status' = IdleStatus
            /\ UNCHANGED <<alive, owes>>
<1>1. HasJobs <=> Queued # {}
  BY HasJobsIfQueued DEF ActorInv
<1>2. WordType
  BY DEF ActorInv, LockInv
<1>3. CASE status.state = "Zombie"
  <2>1. Queued = {}
    BY <1>3, QueueKeepsActor
  <2> QED  BY <1>3, <2>1 DEF GiveUpActor
<1>4. CASE status.state # "Zombie"
  <2>1. \/ /\ status.state = "Running" /\ HasJobs
           /\ status' = [status EXCEPT !.state = "Scheduled", !.owner = NoThread]
           /\ Owe(t, "process") /\ UNCHANGED alive
        \/ /\ status.state = "Running" /\ ~ HasJobs
           /\ status' = IdleStatus /\ UNCHANGED <<owes, alive>>
    BY <1>4 DEF GiveUpActor
  <2>2. status' = [status EXCEPT !.state = "Scheduled", !.owner = NoThread]
          => status'.state = "Scheduled" /\ UNCHANGED status.priority
    BY <1>2 DEF WordType
  <2> QED  BY <1>1, <2>1, <2>2
<1> QED  BY <1>3, <1>4

LEMMA ThreadStepKeepsPriority ==
  ASSUME ActorInv, NEW t \in Threads, ThreadStep(t)
  PROVE  PriorityInv'
<1>0. /\ PriorityInv /\ WordType /\ status.priority \in Nat
      /\ \A j \in Queued : j \in Jobs /\ Priority[j] \in Nat
  BY PriorityAssumption DEF ActorInv, LockInv, ActorTypes, QueueInv
<1>1. CASE Enqueue(t)
  <2>1. task[t] \in Jobs /\ Queued' = Queued \cup {task[t]}
    BY <1>1, EnqueueQueue
  <2>2. status'.priority = IF Priority[task[t]] > status.priority THEN Priority[task[t]]
                           ELSE status.priority
    BY <1>0, <1>1 DEF Enqueue, WordType
  <2>3. Priority[task[t]] \in Nat
    BY <2>1, PriorityAssumption
  <2> QED  BY <1>0, <2>1, <2>2, <2>3 DEF PriorityInv
<1>2. CASE UnlockIdle(t) \/ HopOff(t) \/ GiveUp(t)
  <2>1. Queued' = Queued
    BY <1>2, QueuedSame DEF UnlockIdle, HopOff, GiveUp
  <2>2. Queued = {} \/ UNCHANGED status.priority
    BY <1>2, GiveUpKinds DEF UnlockIdle, HopOff, GiveUp
  <2> QED  BY <1>0, <2>1, <2>2 DEF PriorityInv
<1>3. CASE ~ (Enqueue(t) \/ UnlockIdle(t) \/ HopOff(t) \/ GiveUp(t))
  <2>1. UNCHANGED status.priority
    <3>1. CASE LoseRace(t) \/ LeaveDrain(t) \/ DropReference(t)
      BY <1>0, <3>1, ReleaseResult DEF LoseRace, LeaveDrain, DropReference
    <3>2. CASE SwitchFast(t) \/ LockToDrain(t)
      BY <1>0, <3>2 DEF SwitchFast, LockToDrain, WordType
    <3>3. CASE ~ (\/ LoseRace(t) \/ LeaveDrain(t) \/ DropReference(t)
                  \/ SwitchFast(t) \/ LockToDrain(t))
      BY <1>3, <3>3 DEF ThreadStep, RunTask, ResumeOnActor, RunIsolated, SwitchSlow,
         EnqueueOnTaskExecutor, Schedule, Steal, Override, Process, Preprocess,
         DrainNothing, PreprocessNew, DrainOne, Start, UnlockFails, EndOfStretch,
         LeaveIsolation, wordVars
    <3> QED  BY <3>1, <3>2, <3>3
  <2>2. Queued' \subseteq Queued
    <3>1. CASE QueueSteps(t)
      BY <1>3, <3>1, PreprocessQueue, DrainOneQueue DEF QueueSteps
    <3>2. CASE ~ QueueSteps(t)
      BY <3>2, OtherStepsKeepQueue, QueuedSame
    <3> QED  BY <3>1, <3>2
  <2> QED  BY <1>0, <2>1, <2>2 DEF PriorityInv
<1> QED  BY <1>1, <1>2, <1>3

LEMMA StepKeepsPriority ==
  ASSUME ActorInv, [Next]_vars
  PROVE  PriorityInv'
<1>0. /\ PriorityInv /\ WordType /\ status.priority \in Nat /\ level \in [Escalators -> Nat]
      /\ \A j \in Queued : j \in Jobs /\ Priority[j] \in Nat
  BY PriorityAssumption DEF ActorInv, LockInv, ActorTypes, QueueInv
<1>1. ASSUME NEW e \in Escalators, EscalatorStep(e)
      PROVE  PriorityInv'
  <2>1. Queued' = Queued
    BY <1>1, OtherStepsKeepQueue, QueuedSame
  <2>2. UNCHANGED status \/ RaisePriority(e)
    BY <1>1 DEF EscalatorStep, LockTask, EscalatorOverrides, EscalatorSteals, UnlockTask,
       wordVars
  <2>3. CASE RaisePriority(e)
    <3>1. status'.priority = level[e] /\ level[e] > status.priority /\ level[e] \in Nat
      BY <1>0, <2>3 DEF RaisePriority, WordType
    <3> QED  BY <1>0, <2>1, <3>1 DEF PriorityInv
  <2> QED  BY <1>0, <2>1, <2>2, <2>3 DEF PriorityInv
<1>2. CASE UNCHANGED vars
  <2>1. Queued' = Queued /\ UNCHANGED status
    BY <1>2, QueuedSame DEF vars, wordVars
  <2> QED  BY <1>0, <2>1 DEF PriorityInv
<1> QED  BY <1>1, <1>2, ThreadStepKeepsPriority DEF Next

(* The thread that is about to take a job has one.                         *)
LEMMA JobToTake ==
  ASSUME ActorInv, [Next]_vars
  PROVE  \A s \in Threads : pc'[s] = "take" => sorted' # <<>>
<1>0. /\ pc \in [Threads -> Places] /\ \A s \in Threads : pc[s] = "take" => sorted # <<>>
      /\ \A r, s \in Threads : pc[r] \in Inside /\ pc[s] \in Inside => r = s
  BY DEF ActorInv, LockInv, LocationType, MutualExclusion, WordInv
<1>1. CASE \E t \in Threads : Preprocess(t) \/ PreprocessNew(t)
  BY <1>1, PreprocessQueue
<1>2. ASSUME NEW t \in Threads, DrainOne(t)
      PROVE  \A s \in Threads : pc'[s] # "take"
  <2>1. pc[t] = "take" /\ pc' = [pc EXCEPT ![t] = "start"]
    BY <1>2 DEF DrainOne, At, Goto
  <2> QED  BY <1>0, <2>1 DEF Inside
<1>3. ASSUME NEW t \in Threads, ThreadStep(t), ~ Preprocess(t), ~ PreprocessNew(t), ~ DrainOne(t)
      PROVE  \A s \in Threads : pc'[s] = "take" => pc[s] = "take" /\ UNCHANGED sorted
  <2>1. UNCHANGED sorted
    BY <1>3 DEF ThreadStep, RunTask, ResumeOnActor, RunIsolated, SwitchFast, SwitchSlow,
       Enqueue, EnqueueOnTaskExecutor, Schedule, Steal, Override, Process, LockToDrain,
       LoseRace, LeaveDrain, DrainNothing, Start, UnlockFails, UnlockIdle, HopOff,
       DropReference, EndOfStretch, GiveUp, LeaveIsolation, wordVars
  <2>2. UNCHANGED pc \/ \E where \in Places \ {"take"} : Goto(t, where)
    BY <1>3 DEF ThreadStep, RunTask, ResumeOnActor, RunIsolated, SwitchFast, SwitchSlow,
       Enqueue, EnqueueOnTaskExecutor, Schedule, Steal, Override, Process, LockToDrain,
       LoseRace, LeaveDrain, DrainNothing, Start, UnlockFails, UnlockIdle, HopOff,
       DropReference, EndOfStretch, GiveUp, LeaveIsolation, threadVars, Return, Places,
       Inside
  <2> QED  BY <1>0, <2>1, <2>2 DEF Goto
<1>4. ASSUME (\E e \in Escalators : EscalatorStep(e)) \/ UNCHANGED vars
      PROVE  UNCHANGED <<pc, sorted>>
  BY <1>4 DEF EscalatorStep, LockTask, RaisePriority, EscalatorOverrides, EscalatorSteals,
     UnlockTask, threadVars, wordVars, vars
<1> QED  BY <1>0, <1>1, <1>2, <1>3, <1>4 DEF Next

LEMMA ThreadStepKeepsWord ==
  ASSUME ActorInv, NEW t \in Threads, ThreadStep(t)
  PROVE  /\ status'.state = "Scheduled" => Queued' # {}
         /\ status'.state = "Idle" => Queued' = {}
         /\ status'.state \in {"Running", "Zombie"} => status'.owner \in Threads
<1>0. WordInv /\ WordType /\ MutualExclusion
  BY DEF ActorInv, LockInv
<1>1. CASE Enqueue(t)
  <2>1. Queued' # {}
    BY <1>1, EnqueueQueue
  <2>2. /\ status'.state = IF status.state = "Idle" THEN "Scheduled" ELSE status.state
        /\ status'.owner = status.owner
    BY <1>0, <1>1 DEF Enqueue, WordType
  <2> QED  BY <1>0, <2>1, <2>2 DEF WordInv
<1>2. CASE SwitchFast(t) \/ LockToDrain(t)
  BY <1>0, <1>2 DEF SwitchFast, LockToDrain, WordType
<1>3. CASE LoseRace(t) \/ LeaveDrain(t) \/ DropReference(t)
  <2>1. Queued' = Queued /\ Release
    BY <1>3, QueuedSame DEF LoseRace, LeaveDrain, DropReference
  <2>2. /\ UNCHANGED status.owner
        /\ \/ UNCHANGED status.state
           \/ status.state = "Running" /\ status'.state = "Zombie"
    BY <1>0, <2>1, ReleaseResult
  <2> QED  BY <1>0, <2>1, <2>2 DEF WordInv
<1>4. CASE UnlockIdle(t) \/ HopOff(t) \/ GiveUp(t)
  <2>1. Queued' = Queued /\ GiveUpActor(t)
    BY <1>4, QueuedSame DEF UnlockIdle, HopOff, GiveUp
  <2>2. IdleStatus.state = "Idle"
    BY DEF IdleStatus
  <2> QED  BY <2>1, <2>2, GiveUpKinds
<1>5. CASE Preprocess(t) \/ PreprocessNew(t) \/ DrainOne(t)
  <2>1. UNCHANGED status /\ pc[t] \in Inside
    BY <1>5 DEF Preprocess, PreprocessNew, DrainOne, At, Inside
  <2> QED  BY <1>0, <2>1 DEF MutualExclusion
<1>6. CASE ~ (\/ Enqueue(t) \/ SwitchFast(t) \/ LockToDrain(t) \/ LoseRace(t) \/ LeaveDrain(t)
              \/ DropReference(t) \/ UnlockIdle(t) \/ HopOff(t) \/ GiveUp(t)
              \/ Preprocess(t) \/ PreprocessNew(t) \/ DrainOne(t))
  <2>1. UNCHANGED <<status, fresh, sorted>>
    BY <1>6 DEF ThreadStep, RunTask, ResumeOnActor, RunIsolated, SwitchSlow,
       EnqueueOnTaskExecutor, Schedule, Steal, Override, Process, DrainNothing, Start,
       UnlockFails, EndOfStretch, LeaveIsolation, wordVars
  <2> QED  BY <1>0, <2>1, QueuedSame DEF WordInv
<1> QED  BY <1>1, <1>2, <1>3, <1>4, <1>5, <1>6

LEMMA StepKeepsWord ==
  ASSUME ActorInv, [Next]_vars
  PROVE  WordInv'
<1>0. WordInv /\ WordType
  BY DEF ActorInv, LockInv
<1>1. ASSUME NEW e \in Escalators, EscalatorStep(e)
      PROVE  UNCHANGED <<status.state, status.owner>> /\ Queued' = Queued
  <2>1. Queued' = Queued
    BY <1>1, OtherStepsKeepQueue, QueuedSame
  <2> QED
    BY <1>0, <1>1, <2>1 DEF EscalatorStep, LockTask, RaisePriority, EscalatorOverrides,
       EscalatorSteals, UnlockTask, wordVars, WordType
<1>2. ASSUME UNCHANGED vars
      PROVE  UNCHANGED <<status.state, status.owner>> /\ Queued' = Queued
  BY <1>2, QueuedSame DEF vars, wordVars
<1> QED  BY <1>0, <1>1, <1>2, ThreadStepKeepsWord, JobToTake DEF Next, WordInv

-----------------------------------------------------------------------------
(* The ownership rules.                                                    *)

(* The counts of a step, when they are settled: what the work changes by   *)
(* is what the word says, and the references follow.                       *)
LEMMA BalanceFollows ==
  ASSUME ActorInv, LockInv', QueueInv', WordInv',
         NEW dH \in Int, Cardinality(Holders)' = Cardinality(Holders) + dH,
         NEW dM \in Int, Cardinality(Nested)' = Cardinality(Nested) + dM,
         NEW dN \in Int, N' = N + dN,
         NEW dR \in Int,
         (IF status'.state = "Idle" THEN 0 ELSE 1)
           = (IF status.state = "Idle" THEN 0 ELSE 1) + dR,
         refs' = refs + dH + dM + dN - dR,
         dN >= dR \/ N + dN >= 1
  PROVE  Balanced'
<1>1. R = IF status.state = "Idle" THEN 0 ELSE 1
  BY WorkIsState DEF ActorInv
<1>2. (LockInv /\ QueueInv /\ WordInv => R = IF status.state = "Idle" THEN 0 ELSE 1)'
  BY WorkIsState, PTL
<1>3. R' = IF status'.state = "Idle" THEN 0 ELSE 1
  BY <1>2
<1>4. R' = R + dR /\ R \in {0, 1} /\ R' \in {0, 1}
  BY <1>1, <1>3
<1>5. N \in Nat /\ N >= R /\ refs = Cardinality(Holders) + Cardinality(Nested) + (N - R)
  BY BalanceOf, Counts DEF ActorInv, ActorTypes
<1>6. N' >= R'
  BY <1>4, <1>5
<1>7. refs' = Cardinality(Holders)' + Cardinality(Nested)' + (N' - R')
  BY <1>4, <1>5, Counts
<1>8. (/\ N = processing + Cardinality(Contenders) + Cardinality(Owing)
       /\ R \in {0, 1}
       /\ Balanced <=> /\ N >= R
                       /\ refs = Cardinality(Holders) + Cardinality(Nested) + (N - R))'
  BY BalanceOf, PTL
<1> QED  BY <1>6, <1>7, <1>8

(* How the counted sets change.                                            *)
LEMMA OneMore ==
  ASSUME NEW S, IsFiniteSet(S), NEW x, x \notin S
  PROVE  Cardinality(S \cup {x}) = Cardinality(S) + 1
BY FS_AddElement

LEMMA OneLess ==
  ASSUME NEW S, IsFiniteSet(S), NEW x \in S
  PROVE  Cardinality(S \ {x}) = Cardinality(S) - 1
BY FS_RemoveElement

LEMMA SumOf ==
  ASSUME NEW dP \in Int, processing' = processing + dP,
         NEW dC \in Int, Cardinality(Contenders)' = Cardinality(Contenders) + dC,
         NEW dO \in Int, Cardinality(Owing)' = Cardinality(Owing) + dO,
         processing \in Int
  PROVE  N' = N + (dP + dC + dO)
<1>1. (/\ N = processing + Cardinality(Contenders) + Cardinality(Owing)
       /\ R \in {0, 1}
       /\ Balanced <=> /\ N >= R
                       /\ refs = Cardinality(Holders) + Cardinality(Nested) + (N - R))'
  BY BalanceOf, PTL
<1>2. N = processing + Cardinality(Contenders) + Cardinality(Owing)
  BY BalanceOf
<1> QED  BY <1>1, <1>2, Counts

(* A thread that moves between places that count alike.                    *)
LEMMA ContendersSame ==
  ASSUME ActorInv, NEW t \in Threads, NEW where,
         UNCHANGED pc \/ Goto(t, where),
         where \in Inside \cup {"lock"} <=> pc[t] \in Inside \cup {"lock"}
  PROVE  Contenders' = Contenders
BY DEF ActorInv, LockInv, LocationType, Goto, Contenders

LEMMA ContendersMore ==
  ASSUME ActorInv, NEW t \in Threads, NEW where \in Inside \cup {"lock"}, Goto(t, where),
         pc[t] \notin Inside \cup {"lock"}
  PROVE  Cardinality(Contenders)' = Cardinality(Contenders) + 1
<1>1. Contenders' = Contenders \cup {t} /\ t \notin Contenders
  BY DEF ActorInv, LockInv, LocationType, Goto, Contenders
<1> QED  BY <1>1, Counts, OneMore

LEMMA ContendersLess ==
  ASSUME ActorInv, NEW t \in Threads, NEW where, where \notin Inside \cup {"lock"},
         Goto(t, where), pc[t] \in Inside \cup {"lock"}
  PROVE  Cardinality(Contenders)' = Cardinality(Contenders) - 1
<1>1. Contenders' = Contenders \ {t} /\ t \in Contenders
  BY DEF ActorInv, LockInv, LocationType, Goto, Contenders
<1> QED  BY <1>1, Counts, OneLess

LEMMA OwingMore ==
  ASSUME ActorInv, NEW t \in Threads, owes[t] # "process", Owe(t, "process")
  PROVE  Cardinality(Owing)' = Cardinality(Owing) + 1
<1>1. Owing' = Owing \cup {t} /\ t \notin Owing
  BY DEF ActorInv, ActorTypes, Owe, Owing
<1> QED  BY <1>1, Counts, OneMore

LEMMA OwingLess ==
  ASSUME ActorInv, NEW t \in Threads, owes[t] = "process", Owe(t, "nothing")
  PROVE  Cardinality(Owing)' = Cardinality(Owing) - 1
<1>1. Owing' = Owing \ {t} /\ t \in Owing
  BY DEF ActorInv, ActorTypes, Owe, Owing
<1> QED  BY <1>1, Counts, OneLess

LEMMA OwingSame ==
  ASSUME ActorInv, NEW t \in Threads, NEW what, UNCHANGED owes \/ Owe(t, what),
         owes[t] # "process", what # "process"
  PROVE  Owing' = Owing
BY DEF ActorInv, ActorTypes, Owe, Owing

LEMMA NestedMore ==
  ASSUME ActorInv, NEW t \in Threads, nest[t] # "this", nest' = [nest EXCEPT ![t] = "this"]
  PROVE  Cardinality(Nested)' = Cardinality(Nested) + 1
<1>1. Nested' = Nested \cup {t} /\ t \notin Nested
  BY DEF ActorInv, ActorTypes, Nested
<1> QED  BY <1>1, Counts, OneMore

LEMMA NestedLess ==
  ASSUME ActorInv, NEW t \in Threads, nest[t] = "this", nest' = [nest EXCEPT ![t] = "none"]
  PROVE  Cardinality(Nested)' = Cardinality(Nested) - 1
<1>1. Nested' = Nested \ {t} /\ t \in Nested
  BY DEF ActorInv, ActorTypes, Nested
<1> QED  BY <1>1, Counts, OneLess

LEMMA HoldersLess ==
  ASSUME ActorInv, NEW j \in Jobs, holds[j], holds' = [holds EXCEPT ![j] = FALSE]
  PROVE  Cardinality(Holders)' = Cardinality(Holders) - 1
<1>1. Holders' = Holders \ {j} /\ j \in Holders
  BY DEF ActorInv, ActorTypes, Holders
<1> QED  BY <1>1, Counts, OneLess

LEMMA ReturnCounts ==
  ASSUME ActorInv, NEW t \in Threads, Return(t)
  PROVE  Nested' = Nested /\ \E where \in {"leave", "idle"} : Goto(t, where)
<1>1. nest \in [Threads -> {"none", "other", "this"}]
  BY DEF ActorInv, ActorTypes
<1>2. nest'[t] = "this" <=> nest[t] = "this"
  BY <1>1 DEF Return
<1>3. \A s \in Threads : s # t => nest'[s] = nest[s]
  BY <1>1 DEF Return
<1> QED  BY <1>2, <1>3, ReturnPlaces DEF Nested

LEMMA NothingCounted ==
  ASSUME ActorInv, LockInv', QueueInv', WordInv',
         Holders' = Holders, Nested' = Nested, Contenders' = Contenders, Owing' = Owing,
         UNCHANGED <<processing, refs>>,
         status'.state = "Idle" <=> status.state = "Idle"
  PROVE  Balanced'
<1>1. (/\ N = processing + Cardinality(Contenders) + Cardinality(Owing)
       /\ R \in {0, 1}
       /\ Balanced <=> /\ N >= R
                       /\ refs = Cardinality(Holders) + Cardinality(Nested) + (N - R))'
  BY BalanceOf, PTL
<1>2. (LockInv /\ QueueInv /\ WordInv => R = IF status.state = "Idle" THEN 0 ELSE 1)'
  BY WorkIsState, PTL
<1>3. R' = R
  BY <1>2, WorkIsState DEF ActorInv
<1>4. N' = N
  BY <1>1, BalanceOf
<1>5. N >= R /\ refs = Cardinality(Holders) + Cardinality(Nested) + (N - R)
  BY BalanceOf DEF ActorInv
<1> QED  BY <1>1, <1>3, <1>4, <1>5

(* The steps that move no reference and no processing job.                 *)
LEMMA QuietThreadSteps ==
  ASSUME ActorInv, LockInv', QueueInv', WordInv', NEW t \in Threads,
         \/ \E j \in Jobs : RunTask(t, j) \/ ResumeOnActor(t, j) \/ RunIsolated(t, j)
         \/ SwitchSlow(t) \/ LeaveIsolation(t) \/ EnqueueOnTaskExecutor(t) \/ EndOfStretch(t)
         \/ LockToDrain(t) \/ Preprocess(t) \/ PreprocessNew(t) \/ DrainNothing(t)
         \/ DrainOne(t) \/ Start(t) \/ UnlockFails(t) \/ Override(t)
  PROVE  Balanced' /\ LifeInv'
<1>0. /\ nest \in [Threads -> {"none", "other", "this"}] /\ NestInv /\ WordType
  BY DEF ActorInv, ActorTypes, LockInv
<1>1. UNCHANGED <<holds, alive, processing, refs>>
  BY DEF RunTask, ResumeOnActor, RunIsolated, SwitchSlow, LeaveIsolation,
     EnqueueOnTaskExecutor, EndOfStretch, LockToDrain, Preprocess, PreprocessNew,
     DrainNothing, DrainOne, Start, UnlockFails, Override, memoryVars, jobVars
<1>2. UNCHANGED owes \/ (Override(t) /\ Owe(t, "nothing"))
  BY DEF RunTask, ResumeOnActor, RunIsolated, SwitchSlow, LeaveIsolation,
     EnqueueOnTaskExecutor, EndOfStretch, LockToDrain, Preprocess, PreprocessNew,
     DrainNothing, DrainOne, Start, UnlockFails, Override, threadVars
<1>3. Owing' = Owing
  <2>1. CASE UNCHANGED owes
    BY <2>1 DEF Owing
  <2>2. CASE Override(t) /\ Owe(t, "nothing")
    BY <2>2, OwingSame DEF Override
  <2> QED  BY <1>2, <2>1, <2>2
<1>4. Nested' = Nested
  <2>1. CASE \E j \in Jobs : RunTask(t, j)
    <3>1. nest[t] = "none" /\ nest'[t] # "this" /\ \A s \in Threads : s # t => nest'[s] = nest[s]
      BY <1>0, <2>1 DEF RunTask, At, NestInv
    <3> QED  BY <3>1 DEF Nested
  <2>2. CASE UNCHANGED nest
    BY <2>2 DEF Nested
  <2>3. CASE Return(t)
    BY <2>3, ReturnCounts
  <2>4. (\E j \in Jobs : RunTask(t, j)) \/ UNCHANGED nest \/ Return(t)
    BY DEF RunTask, ResumeOnActor, RunIsolated, SwitchSlow, LeaveIsolation,
       EnqueueOnTaskExecutor, EndOfStretch, LockToDrain, Preprocess, PreprocessNew,
       DrainNothing, DrainOne, Start, UnlockFails, Override, threadVars
  <2> QED  BY <2>1, <2>2, <2>3, <2>4
<1>5. Contenders' = Contenders
  <2> USE DEF Inside
  <2>1. CASE \E j \in Jobs : RunTask(t, j) \/ ResumeOnActor(t, j) \/ RunIsolated(t, j)
    <3>1. \E where \in {"generic", "enqueue", "isolated"} : Goto(t, where) /\ pc[t] = "idle"
      BY <2>1 DEF RunTask, ResumeOnActor, RunIsolated, At
    <3> QED  BY <3>1, ContendersSame
  <2>2. CASE SwitchSlow(t) \/ LeaveIsolation(t)
    BY <2>2, ContendersSame DEF SwitchSlow, LeaveIsolation, At
  <2>3. CASE EnqueueOnTaskExecutor(t) \/ (EndOfStretch(t) /\ pc[t] # "actor")
    <3>1. Return(t) /\ pc[t] \in {"enqueue", "isolated", "generic"}
      BY <2>3 DEF EnqueueOnTaskExecutor, EndOfStretch, At
    <3>2. PICK where \in {"leave", "idle"} : Goto(t, where)
      BY <3>1, ReturnPlaces
    <3> QED  BY <3>1, <3>2, ContendersSame
  <2>4. CASE EndOfStretch(t) /\ pc[t] = "actor"
    <3>1. \E where \in {"giveUp", "drain"} : Goto(t, where)
      BY <2>4 DEF EndOfStretch
    <3> QED  BY <2>4, <3>1, ContendersSame
  <2>5. CASE LockToDrain(t) \/ Preprocess(t) \/ DrainNothing(t) \/ DrainOne(t) \/ Start(t)
             \/ UnlockFails(t)
    <3>1. \E where \in {"drain", "take", "unlock", "start", "actor"} :
            Goto(t, where) /\ pc[t] \in {"lock", "drain", "take", "start", "unlock"}
      BY <2>5 DEF LockToDrain, Preprocess, DrainNothing, DrainOne, Start, UnlockFails, At
    <3> QED  BY <3>1, ContendersSame
  <2>6. CASE PreprocessNew(t) \/ Override(t)
    BY <2>6 DEF PreprocessNew, Override, threadVars, Contenders
  <2> QED  BY <2>1, <2>2, <2>3, <2>4, <2>5, <2>6
<1>6. UNCHANGED status \/ LockToDrain(t)
  BY DEF RunTask, ResumeOnActor, RunIsolated, SwitchSlow, LeaveIsolation,
     EnqueueOnTaskExecutor, EndOfStretch, Preprocess, PreprocessNew, DrainNothing,
     DrainOne, Start, UnlockFails, Override, wordVars
<1>7. LockToDrain(t) => status.state = "Scheduled" /\ status'.state = "Running" /\ nest[t] = "this"
  BY <1>0 DEF LockToDrain, WordType, NestInv, At
<1>8. Balanced'
  <2>1. Holders' = Holders
    BY <1>1 DEF Holders
  <2>2. status'.state = "Idle" <=> status.state = "Idle"
    BY <1>6, <1>7
  <2> QED  BY <1>1, <1>3, <1>4, <1>5, <2>1, <2>2, NothingCounted
<1>9. LifeInv'
  <2>1. LockToDrain(t) => alive
    <3>1. LockToDrain(t) => t \in Nested
      BY <1>7 DEF Nested
    <3> QED  BY <3>1, ReferenceKeepsActor
  <2>2. LifeInv
    BY DEF ActorInv
  <2>3. CASE UNCHANGED status
    BY <1>1, <2>2, <2>3 DEF LifeInv
  <2>4. CASE LockToDrain(t)
    BY <1>1, <1>7, <2>1, <2>4 DEF LifeInv
  <2> QED  BY <1>6, <2>3, <2>4
<1> QED  BY <1>8, <1>9

(* A task takes the lock of an idle actor, or schedules it.                *)
LEMMA SwitchFastBalance ==
  ASSUME ActorInv, LockInv', QueueInv', WordInv', NEW t \in Threads, SwitchFast(t)
  PROVE  Balanced' /\ LifeInv'
<1>1. /\ UNCHANGED <<holds, nest, owes, processing, refs, alive>> /\ Goto(t, "actor")
      /\ pc[t] = "generic" /\ status.state = "Idle" /\ holds[task[t]]
  BY DEF SwitchFast, MayVisit, At, memoryVars
<1>2. status'.state = "Running"
  BY DEF SwitchFast, ActorInv, LockInv, WordType
<1>3. Cardinality(Contenders)' = Cardinality(Contenders) + 1
  BY <1>1, ContendersMore DEF Inside
<1>4. Holders' = Holders /\ Nested' = Nested /\ Owing' = Owing
  BY <1>1 DEF Holders, Nested, Owing
<1>5. processing \in Nat /\ N \in Nat /\ refs \in Int
  BY BalanceOf, Counts DEF ActorInv, ActorTypes
<1>6. N' = N + (0 + 1 + 0)
  <2>1. processing' = processing + 0 /\ Cardinality(Owing)' = Cardinality(Owing) + 0
    BY <1>1, <1>4, <1>5, Counts
  <2> QED  BY <1>3, <1>5, <2>1, SumOf
<1>7. Balanced'
  <2>1. /\ Cardinality(Holders)' = Cardinality(Holders) + 0
        /\ Cardinality(Nested)' = Cardinality(Nested) + 0
        /\ N' = N + 1 /\ refs' = refs + 0 + 0 + 1 - 1
    BY <1>1, <1>4, <1>5, <1>6, Counts
  <2>2. (IF status'.state = "Idle" THEN 0 ELSE 1) = (IF status.state = "Idle" THEN 0 ELSE 1) + 1
    BY <1>1, <1>2
  <2> QED  BY <2>1, <2>2, BalanceFollows
<1>8. alive
  <2>1. task[t] \in Holders
    BY <1>1 DEF ActorInv, JobsInv, Carrying, Holders
  <2> QED  BY <2>1, ReferenceKeepsActor
<1>9. LifeInv'
  BY <1>1, <1>2, <1>8 DEF LifeInv
<1> QED  BY <1>7, <1>9

(* The balance in one equation.                                            *)
Work == IF status.state = "Idle" THEN 0 ELSE 1

LEMMA Numbers ==
  ASSUME ActorInv
  PROVE  /\ Cardinality(Holders) \in Nat /\ Cardinality(Nested) \in Nat
         /\ Cardinality(Contenders) \in Nat /\ Cardinality(Owing) \in Nat
         /\ processing \in Nat /\ refs \in Int /\ Work \in {0, 1}
         /\ processing + Cardinality(Contenders) + Cardinality(Owing) >= Work
         /\ refs = Cardinality(Holders) + Cardinality(Nested)
                   + ((processing + Cardinality(Contenders) + Cardinality(Owing)) - Work)
<1>1. Work \in {0, 1} /\ R = Work
  BY WorkIsState DEF ActorInv, Work
<1>2. /\ N = processing + Cardinality(Contenders) + Cardinality(Owing) /\ N >= R
      /\ refs = Cardinality(Holders) + Cardinality(Nested) + (N - R)
  BY BalanceOf DEF ActorInv
<1>3. processing \in Nat
  BY DEF ActorInv, ActorTypes
<1> QED  BY <1>1, <1>2, <1>3, Counts

LEMMA BalanceAfter ==
  ASSUME LockInv', QueueInv', WordInv',
         processing' + Cardinality(Contenders)' + Cardinality(Owing)' >= Work',
         refs' = Cardinality(Holders)' + Cardinality(Nested)'
                 + ((processing' + Cardinality(Contenders)' + Cardinality(Owing)') - Work')
  PROVE  Balanced'
<1>1. (/\ N = processing + Cardinality(Contenders) + Cardinality(Owing)
       /\ R \in {0, 1}
       /\ Balanced <=> /\ N >= R
                       /\ refs = Cardinality(Holders) + Cardinality(Nested) + (N - R))'
  BY BalanceOf, PTL
<1>2. (LockInv /\ QueueInv /\ WordInv => R = IF status.state = "Idle" THEN 0 ELSE 1)'
  BY WorkIsState, PTL
<1>3. R' = Work'
  BY <1>2 DEF Work
<1>4. N' = processing' + Cardinality(Contenders)' + Cardinality(Owing)'
  BY <1>1
<1>5. N' >= R'
  BY <1>3, <1>4
<1>6. refs' = Cardinality(Holders)' + Cardinality(Nested)' + (N' - R')
  BY <1>3, <1>4
<1> QED  BY <1>1, <1>5, <1>6

(* A processing job to come keeps the actor, or the running thread does.   *)
LEMMA ProcessorKeepsActor ==
  ASSUME ActorInv, processing > 0 \/ Owing # {}
  PROVE  alive /\ status.state # "Zombie"
<1>1. processing + Cardinality(Owing) >= 1
  BY Counts, CountedMember, Numbers
<1>2. CASE status.state = "Idle"
  <2>1. N > R
    BY <1>1, <1>2, BalanceOf, Numbers, WorkIsState DEF ActorInv
  <2> QED  BY <2>1, ReferenceKeepsActor
<1>3. CASE status.state = "Scheduled"
  BY <1>3, QueueKeepsActor DEF ActorInv, WordInv
<1>4. CASE status.state = "Running"
  BY <1>4 DEF ActorInv, LifeInv, ActorTypes
<1>5. CASE status.state = "Zombie"
  <2>1. status.owner \in Contenders
    BY <1>5 DEF ActorInv, WordInv, LockInv, MutualExclusion, Contenders
  <2>2. Cardinality(Contenders) >= 1
    BY <2>1, Counts, CountedMember
  <2>3. N > R
    BY <1>1, <2>2, BalanceOf, Numbers
  <2> QED  BY <2>3, ReferenceKeepsActor
<1> QED  BY <1>2, <1>3, <1>4, <1>5 DEF ActorInv, LockInv, WordType, States

LEMMA ReleaseKeepsLife ==
  ASSUME ActorInv, Release, refs >= 1
  PROVE  LifeInv'
<1>1. alive /\ status.state # "Zombie" /\ WordType /\ refs \in Int
  <2>1. refs # 0 /\ refs \in Int
    BY Numbers
  <2> QED  BY <2>1 DEF ActorInv, LifeInv, LockInv
<1>2. CASE refs = 1
  <2>1. refs' = 0
    BY <1>1, <1>2, ReleaseResult
  <2>2. \/ status'.state = "Zombie" /\ UNCHANGED alive
        \/ status.state # "Running" /\ UNCHANGED status
    BY <1>1, <1>2, ReleaseResult
  <2> QED  BY <1>1, <2>1, <2>2 DEF LifeInv
<1>3. CASE refs # 1
  <2>1. UNCHANGED <<status, alive>>
    BY <1>1, <1>3, ReleaseResult
  <2> QED  BY <1>1, <2>1 DEF LifeInv
<1> QED  BY <1>2, <1>3

LEMMA ReleaseKeepsWork ==
  ASSUME ActorInv, Release
  PROVE  Work' = Work /\ refs' = refs - 1
<1>1. WordType
  BY DEF ActorInv, LockInv
<1> QED  BY <1>1, ReleaseResult DEF Work

LEMMA EnqueueBalance ==
  ASSUME ActorInv, LockInv', QueueInv', WordInv', NEW t \in Threads, Enqueue(t)
  PROVE  Balanced' /\ LifeInv'
<1>1. /\ UNCHANGED <<holds, processing, refs, alive>> /\ Return(t)
      /\ pc[t] = "enqueue" /\ owes[t] = "nothing"
      /\ Owe(t, IF status.state = "Idle" THEN "process"
                ELSE IF ~ (Priority[task[t]] > status.priority) THEN "nothing"
                ELSE IF status.state = "Running" THEN "override" ELSE "steal")
  BY DEF Enqueue, At, memoryVars
<1>2. status'.state = IF status.state = "Idle" THEN "Scheduled" ELSE status.state
  BY DEF Enqueue, ActorInv, LockInv, WordType
<1>3. Holders' = Holders /\ Nested' = Nested
  BY <1>1, ReturnCounts DEF Holders
<1>4. Contenders' = Contenders
  <2>1. PICK where \in {"leave", "idle"} : Goto(t, where)
    BY <1>1, ReturnPlaces
  <2> QED  BY <1>1, <2>1, ContendersSame DEF Inside
<1>5. LifeInv'
  <2>1. task[t] \in Holders
    BY <1>1 DEF ActorInv, JobsInv, Carrying, Holders
  <2>2. alive /\ status.state # "Zombie"
    BY <2>1, ReferenceKeepsActor
  <2> QED  BY <1>1, <1>2, <2>2 DEF LifeInv
<1>6. CASE status.state = "Idle"
  <2>1. Cardinality(Owing)' = Cardinality(Owing) + 1
    BY <1>1, <1>6, OwingMore
  <2>2. Work = 0 /\ Work' = 1
    BY <1>2, <1>6 DEF Work
  <2>3. Balanced'
    BY <1>1, <1>3, <1>4, <2>1, <2>2, Numbers, BalanceAfter
  <2> QED  BY <1>5, <2>3
<1>7. CASE status.state # "Idle"
  <2>1. \E what : Owe(t, what) /\ what # "process"
    BY <1>1, <1>7
  <2>2. Owing' = Owing
    BY <1>1, <2>1, OwingSame
  <2>3. Work' = Work
    BY <1>2, <1>7 DEF Work
  <2>4. Balanced'
    BY <1>1, <1>3, <1>4, <2>2, <2>3, Numbers, BalanceAfter
  <2> QED  BY <1>5, <2>4
<1> QED  BY <1>6, <1>7

(* A processing job is created, by a thread that has scheduled the actor   *)
(* or for a stealer.                                                       *)
LEMMA ScheduleBalance ==
  ASSUME ActorInv, LockInv', QueueInv', WordInv', NEW t \in Threads, Schedule(t) \/ Steal(t)
  PROVE  Balanced' /\ LifeInv'
<1>1. /\ UNCHANGED <<status, holds, nest, pc, alive>> /\ processing' = processing + 1
      /\ Owe(t, "nothing")
  BY DEF Schedule, Steal, wordVars, memoryVars, jobVars
<1>2. Holders' = Holders /\ Nested' = Nested /\ Contenders' = Contenders /\ Work' = Work
  BY <1>1 DEF Holders, Nested, Contenders, Work
<1>3. LifeInv
  BY DEF ActorInv
<1>4. CASE Schedule(t)
  <2>1. owes[t] = "process" /\ UNCHANGED refs
    BY <1>4 DEF Schedule, memoryVars
  <2>2. Cardinality(Owing)' = Cardinality(Owing) - 1
    BY <1>1, <2>1, OwingLess
  <2>3. Balanced'
    BY <1>1, <1>2, <2>1, <2>2, Numbers, BalanceAfter
  <2> QED  BY <1>1, <1>3, <2>1, <2>3 DEF LifeInv
<1>5. CASE Steal(t)
  <2>1. owes[t] = "steal" /\ refs' = refs + 1 /\ refs > 0
    BY <1>5 DEF Steal
  <2>2. Owing' = Owing
    BY <1>1, <2>1, OwingSame
  <2>3. Balanced'
    BY <1>1, <1>2, <2>1, <2>2, Numbers, BalanceAfter
  <2>4. refs # 0
    BY <2>1
  <2>5. alive /\ status.state # "Zombie"
    BY <1>3, <2>4 DEF LifeInv
  <2> QED  BY <1>1, <2>3, <2>5 DEF LifeInv
<1> QED  BY <1>4, <1>5

LEMMA ProcessBalance ==
  ASSUME ActorInv, LockInv', QueueInv', WordInv', NEW t \in Threads, Process(t)
  PROVE  Balanced' /\ LifeInv'
<1>1. /\ UNCHANGED <<status, holds, owes, alive>>
      /\ processing > 0 /\ processing' = processing - 1 /\ refs' = refs + 1
      /\ nest' = [nest EXCEPT ![t] = "this"] /\ Goto(t, "lock") /\ pc[t] = "idle"
  BY DEF Process, wordVars, jobVars, At
<1>2. Holders' = Holders /\ Owing' = Owing /\ Work' = Work
  BY <1>1 DEF Holders, Owing, Work
<1>3. Cardinality(Nested)' = Cardinality(Nested) + 1
  <2>1. nest[t] # "this"
    BY <1>1 DEF ActorInv, NestInv
  <2> QED  BY <1>1, <2>1, NestedMore
<1>4. Cardinality(Contenders)' = Cardinality(Contenders) + 1
  BY <1>1, ContendersMore DEF Inside
<1>5. Balanced'
  BY <1>1, <1>2, <1>3, <1>4, Numbers, BalanceAfter
<1>6. alive /\ status.state # "Zombie"
  BY <1>1, ProcessorKeepsActor
<1> QED  BY <1>1, <1>5, <1>6 DEF LifeInv

(* The loser of a race leaves the actor to the winner, or to the jobs of   *)
(* the queue, which keep it.                                               *)
LEMMA LoseRaceBalance ==
  ASSUME ActorInv, LockInv', QueueInv', WordInv', NEW t \in Threads, LoseRace(t)
  PROVE  Balanced' /\ LifeInv'
<1>1. /\ UNCHANGED <<holds, nest, owes, processing>> /\ Release /\ Goto(t, "leave")
      /\ pc[t] = "lock" /\ status.state # "Scheduled"
  BY DEF LoseRace, jobVars, At
<1>2. /\ Holders' = Holders /\ Nested' = Nested /\ Owing' = Owing
      /\ Work' = Work /\ refs' = refs - 1
  BY <1>1, ReleaseKeepsWork DEF Holders, Nested, Owing
<1>3. Cardinality(Contenders)' = Cardinality(Contenders) - 1
  BY <1>1, ContendersLess DEF Inside
<1>4. processing + Cardinality(Contenders)' + Cardinality(Owing) >= Work
  <2>1. CASE status.state = "Idle"
    <3>1. Work = 0
      BY <2>1 DEF Work
    <3>2. Cardinality(Contenders) >= 1
      <4>1. t \in Contenders
        BY <1>1 DEF Contenders
      <4> QED  BY <4>1, Counts, CountedMember
    <3> QED  BY <1>3, <3>1, <3>2, Numbers
  <2>2. CASE status.state # "Idle"
    <3>1. status.state \in {"Running", "Zombie"}
      BY <1>1, <2>2 DEF ActorInv, LockInv, WordType, States
    <3>2. status.owner \in Threads /\ pc[status.owner] \in Inside
      BY <3>1 DEF ActorInv, WordInv, LockInv, MutualExclusion
    <3>3. t \in Contenders /\ status.owner \in Contenders \ {t}
      BY <1>1, <3>2 DEF Contenders, Inside
    <3>4. IsFiniteSet(Contenders \ {t}) /\ Cardinality(Contenders \ {t}) = Cardinality(Contenders) - 1
      BY <3>3, Counts, FS_RemoveElement
    <3>5. Cardinality(Contenders \ {t}) >= 1
      BY <3>3, <3>4, CountedMember
    <3> QED  BY <1>3, <3>4, <3>5, Numbers
  <2> QED  BY <2>1, <2>2
<1>5. Balanced'
  BY <1>1, <1>2, <1>3, <1>4, Numbers, BalanceAfter
<1>6. refs >= 1
  <2>1. t \in Nested
    BY <1>1 DEF ActorInv, NestInv, Nested
  <2> QED  BY <2>1, ReferenceKeepsActor
<1> QED  BY <1>1, <1>5, <1>6, ReleaseKeepsLife

LEMMA LeaveDrainBalance ==
  ASSUME ActorInv, LockInv', QueueInv', WordInv', NEW t \in Threads, LeaveDrain(t)
  PROVE  Balanced' /\ LifeInv'
<1>1. /\ UNCHANGED <<holds, owes, processing>> /\ Release /\ Goto(t, "idle")
      /\ nest' = [nest EXCEPT ![t] = "none"] /\ pc[t] = "leave"
  BY DEF LeaveDrain, jobVars, At
<1>2. nest[t] = "this"
  BY <1>1 DEF ActorInv, NestInv
<1>3. /\ Holders' = Holders /\ Owing' = Owing /\ Contenders' = Contenders
      /\ Work' = Work /\ refs' = refs - 1
  BY <1>1, ReleaseKeepsWork, ContendersSame DEF Holders, Owing, Inside
<1>4. Cardinality(Nested)' = Cardinality(Nested) - 1
  BY <1>1, <1>2, NestedLess
<1>5. Balanced'
  BY <1>1, <1>3, <1>4, Numbers, BalanceAfter
<1>6. refs >= 1
  <2>1. t \in Nested
    BY <1>2 DEF Nested
  <2> QED  BY <2>1, ReferenceKeepsActor
<1> QED  BY <1>1, <1>5, <1>6, ReleaseKeepsLife

LEMMA DropReferenceBalance ==
  ASSUME ActorInv, LockInv', QueueInv', WordInv', NEW t \in Threads, DropReference(t)
  PROVE  Balanced' /\ LifeInv'
<1>1. /\ UNCHANGED <<pc, nest, owes, processing>> /\ Release /\ holds[task[t]]
      /\ holds' = [holds EXCEPT ![task[t]] = FALSE] /\ pc[t] \in {"actor", "isolated", "generic"}
  BY DEF DropReference, threadVars
<1>2. task[t] \in Jobs
  BY <1>1 DEF ActorInv, JobsInv, Carrying
<1>3. /\ Nested' = Nested /\ Owing' = Owing /\ Contenders' = Contenders
      /\ Work' = Work /\ refs' = refs - 1
  BY <1>1, ReleaseKeepsWork DEF Nested, Owing, Contenders
<1>4. Cardinality(Holders)' = Cardinality(Holders) - 1
  BY <1>1, <1>2, HoldersLess
<1>5. Balanced'
  BY <1>1, <1>3, <1>4, Numbers, BalanceAfter
<1>6. refs >= 1
  <2>1. task[t] \in Holders
    BY <1>1, <1>2 DEF Holders
  <2> QED  BY <2>1, ReferenceKeepsActor
<1> QED  BY <1>1, <1>5, <1>6, ReleaseKeepsLife

(* The thread that gives up the actor frees it, leaves it idle, or leaves  *)
(* its work to the processing job that it will create.                     *)
LEMMA GiveUpBalance ==
  ASSUME ActorInv, LockInv', QueueInv', WordInv', NEW t \in Threads,
         UnlockIdle(t) \/ HopOff(t) \/ GiveUp(t)
  PROVE  Balanced' /\ LifeInv'
<1>1. /\ UNCHANGED <<holds, processing, refs>> /\ GiveUpActor(t)
      /\ pc[t] \in {"unlock", "actor", "giveUp"} /\ owes[t] = "nothing"
      /\ Return(t) \/ (Goto(t, "generic") /\ UNCHANGED nest)
  BY DEF UnlockIdle, HopOff, GiveUp, jobVars, At
<1>2. \E where \in {"leave", "idle", "generic"} : Goto(t, where)
  BY <1>1, ReturnPlaces
<1>3. Cardinality(Contenders)' = Cardinality(Contenders) - 1
  <2>1. PICK where \in {"leave", "idle", "generic"} : Goto(t, where)
    BY <1>2
  <2> QED  BY <1>1, <2>1, ContendersLess DEF Inside
<1>4. Holders' = Holders /\ Nested' = Nested
  <2>1. CASE Return(t)
    BY <1>1, <2>1, ReturnCounts DEF Holders
  <2>2. CASE UNCHANGED nest
    BY <1>1, <2>2 DEF Holders, Nested
  <2> QED  BY <1>1, <2>1, <2>2
<1>5. Cardinality(Contenders) >= 1
  <2>1. t \in Contenders
    BY <1>1 DEF Contenders, Inside
  <2> QED  BY <2>1, Counts, CountedMember
<1>6. LifeInv /\ IdleStatus.state = "Idle"
  BY DEF ActorInv, IdleStatus
<1>7. CASE /\ status.state \in {"Running", "Zombie"} /\ status' = IdleStatus
           /\ UNCHANGED owes
           /\ status.state = "Zombie" => alive' = FALSE
           /\ status.state = "Running" => UNCHANGED alive
  <2>1. Work = 1 /\ Work' = 0 /\ Owing' = Owing
    BY <1>6, <1>7 DEF Work, Owing
  <2>2. Balanced'
    BY <1>1, <1>3, <1>4, <1>5, <2>1, Numbers, BalanceAfter
  <2>3. status.state = "Zombie" => refs = 0
    BY <1>6 DEF LifeInv
  <2>4. status.state = "Running" => alive
    BY <1>6 DEF LifeInv
  <2>5. LifeInv'
    BY <1>1, <1>6, <1>7, <2>3, <2>4 DEF LifeInv
  <2> QED  BY <2>2, <2>5
<1>8. CASE /\ status.state = "Running" /\ status'.state = "Scheduled"
           /\ UNCHANGED alive /\ Owe(t, "process")
  <2>1. Work = 1 /\ Work' = 1
    BY <1>8 DEF Work
  <2>2. Cardinality(Owing)' = Cardinality(Owing) + 1
    BY <1>1, <1>8, OwingMore
  <2>3. Balanced'
    BY <1>1, <1>3, <1>4, <2>1, <2>2, Numbers, BalanceAfter
  <2>4. LifeInv'
    BY <1>6, <1>8 DEF LifeInv
  <2> QED  BY <2>3, <2>4
<1> QED  BY <1>1, <1>7, <1>8, GiveUpKinds

LEMMA ThreadStepKeepsBalance ==
  ASSUME ActorInv, LockInv', QueueInv', WordInv', NEW t \in Threads, ThreadStep(t)
  PROVE  Balanced' /\ LifeInv'
<1>1. CASE \/ \E j \in Jobs : RunTask(t, j) \/ ResumeOnActor(t, j) \/ RunIsolated(t, j)
           \/ SwitchSlow(t) \/ LeaveIsolation(t) \/ EnqueueOnTaskExecutor(t) \/ EndOfStretch(t)
           \/ LockToDrain(t) \/ Preprocess(t) \/ PreprocessNew(t) \/ DrainNothing(t)
           \/ DrainOne(t) \/ Start(t) \/ UnlockFails(t) \/ Override(t)
  BY <1>1, QuietThreadSteps
<1>2. CASE \/ SwitchFast(t) \/ Enqueue(t) \/ Schedule(t) \/ Steal(t) \/ Process(t)
           \/ LoseRace(t) \/ LeaveDrain(t) \/ DropReference(t)
           \/ UnlockIdle(t) \/ HopOff(t) \/ GiveUp(t)
  BY <1>2, SwitchFastBalance, EnqueueBalance, ScheduleBalance, ProcessBalance,
     LoseRaceBalance, LeaveDrainBalance, DropReferenceBalance, GiveUpBalance
<1> QED  BY <1>1, <1>2 DEF ThreadStep

LEMMA EscalatorStepKeepsBalance ==
  ASSUME ActorInv, LockInv', QueueInv', WordInv', NEW e \in Escalators, EscalatorStep(e)
  PROVE  Balanced' /\ LifeInv'
<1>0. LifeInv /\ WordType
  BY DEF ActorInv, LockInv
<1>1. UNCHANGED <<holds, nest, pc, owes, alive>> /\ status'.state = status.state
  BY <1>0 DEF EscalatorStep, LockTask, RaisePriority, EscalatorOverrides, EscalatorSteals,
     UnlockTask, wordVars, memoryVars, jobVars, threadVars, WordType
<1>2. /\ Holders' = Holders /\ Nested' = Nested /\ Contenders' = Contenders
      /\ Owing' = Owing /\ Work' = Work
  BY <1>1 DEF Holders, Nested, Contenders, Owing, Work
<1>3. CASE EscalatorSteals(e)
  <2>1. refs > 0 /\ refs' = refs + 1 /\ processing' = processing + 1
    BY <1>3 DEF EscalatorSteals
  <2>2. Balanced'
    BY <1>2, <2>1, Numbers, BalanceAfter
  <2>3. refs # 0
    BY <2>1
  <2>4. alive /\ status.state # "Zombie"
    BY <1>0, <2>3 DEF LifeInv
  <2> QED  BY <1>1, <2>2, <2>4 DEF LifeInv
<1>4. CASE ~ EscalatorSteals(e)
  <2>1. UNCHANGED <<processing, refs>>
    BY <1>4 DEF EscalatorStep, LockTask, RaisePriority, EscalatorOverrides, UnlockTask,
       memoryVars
  <2>2. Balanced'
    BY <1>2, <2>1, Numbers, BalanceAfter
  <2> QED  BY <1>0, <1>1, <2>1, <2>2 DEF LifeInv
<1> QED  BY <1>3, <1>4

LEMMA StepKeepsBalance ==
  ASSUME ActorInv, LockInv', QueueInv', WordInv', [Next]_vars
  PROVE  Balanced' /\ LifeInv'
<1>1. CASE UNCHANGED vars
  <2>1. UNCHANGED <<status, alive, refs, processing, holds, pc, nest, owes>>
    BY <1>1 DEF vars, wordVars, memoryVars, jobVars, threadVars
  <2>2. /\ Holders' = Holders /\ Nested' = Nested /\ Contenders' = Contenders
        /\ Owing' = Owing /\ Work' = Work
    BY <2>1 DEF Holders, Nested, Contenders, Owing, Work
  <2>3. Balanced'
    BY <2>1, <2>2, Numbers, BalanceAfter
  <2> QED  BY <2>1, <2>3 DEF ActorInv, LifeInv
<1> QED  BY <1>1, ThreadStepKeepsBalance, EscalatorStepKeepsBalance DEF Next

-----------------------------------------------------------------------------
(* The theorems.                                                           *)

LEMMA InitActor == Init => ActorInv
<1> SUFFICES ASSUME Init PROVE ActorInv
  OBVIOUS
<1>1. fresh = <<>> /\ sorted = <<>> /\ status = IdleStatus
  BY DEF Init
<1>2. Queued = {} /\ Nodes(fresh) = {} /\ Nodes(sorted) = {}
  BY <1>1 DEF Queued, Nodes
<1>3. LockInv
  BY InitLock
<1>4. ActorTypes
  BY DEF Init, ActorTypes, IdleStatus, JobPlaces
<1>5. QueueInv
  BY <1>1, <1>2, EmptyLists DEF QueueInv
<1>6. JobsInv
  BY NullAssumption DEF Init, JobsInv, Carrying
<1>7. NestInv /\ EscalatorInv
  BY DEF Init, NestInv, EscalatorInv, Escalating
<1>8. WordInv
  BY <1>2 DEF Init, WordInv, IdleStatus
<1>9. PriorityInv
  BY <1>2 DEF PriorityInv
<1>10. LifeInv
  BY DEF Init, LifeInv, IdleStatus
<1>11. Balanced
  <2>1. /\ Holders = Jobs /\ Nested = {} /\ Contenders = {} /\ Owing = {}
        /\ processing = 0 /\ refs = Cardinality(Jobs)
    BY DEF Init, Inside, Holders, Nested, Contenders, Owing
  <2>2. Cardinality({}) = 0 /\ Cardinality(Jobs) \in Nat
    BY FS_EmptySet, FS_CardinalityType, FiniteAssumption
  <2>3. R = 0
    BY <1>1 DEF R, Holds, HasJobs, Init, Inside
  <2>4. N = 0
    BY <2>1, <2>2, BalanceOf
  <2>5. refs = Cardinality(Holders) + Cardinality(Nested) + (N - R)
    BY <2>1, <2>2, <2>3, <2>4
  <2> QED  BY <2>3, <2>4, <2>5, BalanceOf
<1> QED  BY <1>3, <1>4, <1>5, <1>6, <1>7, <1>8, <1>9, <1>10, <1>11 DEF ActorInv

LEMMA StepKeepsActor == ActorInv /\ [Next]_vars => ActorInv'
<1> SUFFICES ASSUME ActorInv, [Next]_vars PROVE ActorInv'
  OBVIOUS
<1>1. LockInv'
  BY StepKeepsLock DEF ActorInv
<1>2. QueueInv'
  BY StepKeepsQueue
<1>3. WordInv'
  BY StepKeepsWord
<1>4. Balanced' /\ LifeInv'
  BY <1>1, <1>2, <1>3, StepKeepsBalance
<1>5. ActorTypes' /\ JobsInv' /\ NestInv' /\ EscalatorInv' /\ PriorityInv'
  BY StepKeepsTypes, StepKeepsJobs, StepKeepsNest, StepKeepsEscalators, StepKeepsPriority
<1> QED  BY <1>1, <1>2, <1>3, <1>4, <1>5 DEF ActorInv

LEMMA ActorInvariant == Spec => []ActorInv
BY InitActor, StepKeepsActor, PTL DEF Spec

(* The references to an actor are those of its tasks and drain loops and   *)
(* one for each processing job beyond the first, so it is freed neither    *)
(* too early nor never (the ownership rules in Actor.cpp).                 *)
THEOREM RulesOfOwnership == Spec => []OwnershipBalance
<1>1. ActorInv => OwnershipBalance
  BY DEF ActorInv, Balanced, OwnershipBalance
<1> QED  BY <1>1, ActorInvariant, PTL

(* The memory of the actor outlives the queued jobs, the processing jobs,  *)
(* the threads on it and the escalators that look at its word.             *)
THEOREM UsersKeepTheActor == Spec => []UsersKeepActorAlive
<1>1. ASSUME ActorInv, HasJobs PROVE alive
  <2>1. Queued # {}
    BY <1>1, HasJobsIfQueued DEF ActorInv
  <2> QED  BY <1>1, <2>1, QueueKeepsActor
<1>2. ASSUME ActorInv, processing > 0 PROVE alive
  BY <1>2, ProcessorKeepsActor
<1>3. ASSUME ActorInv, NEW t \in Threads, pc[t] \in Inside PROVE alive
  BY <1>3 DEF ActorInv, LockInv, MutualExclusion, LifeInv
<1>4. ASSUME ActorInv, NEW t \in Threads, pc[t] \in {"lock", "leave"} PROVE alive
  <2>1. t \in Nested
    BY <1>4 DEF ActorInv, NestInv, Nested
  <2> QED  BY <1>4, <2>1, ReferenceKeepsActor
<1>5. ASSUME ActorInv, NEW t \in Threads, owes[t] = "process" PROVE alive
  <2>1. t \in Owing
    BY <1>5 DEF Owing
  <2> QED  BY <1>5, <2>1, ProcessorKeepsActor
<1>6. ASSUME ActorInv, NEW e \in Escalators, epc[e] \in {"raise", "override", "steal"}
      PROVE  alive
  <2>1. target[e] \in Jobs /\ Enqueued(target[e])
    BY <1>6 DEF ActorInv, EscalatorInv, Escalating
  <2>2. holds[target[e]]
    BY <1>6, <2>1 DEF ActorInv, JobsInv, Enqueued
  <2>3. target[e] \in Holders
    BY <2>1, <2>2 DEF Holders
  <2> QED  BY <1>6, <2>3, ReferenceKeepsActor
<1>7. ActorInv => UsersKeepActorAlive
  BY <1>1, <1>2, <1>3, <1>4, <1>5, <1>6 DEF UsersKeepActorAlive
<1> QED  BY <1>7, ActorInvariant, PTL

(* No queued job has a higher priority than the word of the actor says,    *)
(* whichever jobs come while it is drained, unlocked or escalated.         *)
THEOREM PriorityCoversJobs == Spec => []MaxPriorityCoversJobs
<1>1. ASSUME ActorInv, NEW i \in DOMAIN Queue
      PROVE  Priority[Queue[i]] <= status.priority
  <2>1. fresh \in Seq(Nodes(fresh)) /\ sorted \in Seq(Nodes(sorted))
    BY <1>1 DEF ActorInv, QueueInv, Lists
  <2>2. Queue \in Seq(Queued)
    BY <2>1 DEF Queue, Queued
  <2>3. Queue[i] \in Queued
    BY <1>1, <2>2
  <2> QED  BY <1>1, <2>3 DEF ActorInv, PriorityInv
<1>2. ActorInv => MaxPriorityCoversJobs
  BY <1>1 DEF MaxPriorityCoversJobs
<1> QED  BY <1>2, ActorInvariant, PTL

-----------------------------------------------------------------------------
(* The queue keeps the order of arrival within one priority: the list is   *)
(* sorted, and the new jobs are behind it, the last one in front.          *)

OrderInv ==
  /\ Ranked(sorted, Earlier(arrived))
  /\ NewestFirst(fresh, Earlier(arrived))
  /\ \A x \in Nodes(sorted), y \in Nodes(fresh) : <<x, y>> \in Earlier(arrived)

ArrivalInv == Lists(arrived, Queued) /\ OrderInv

LEMMA InitArrival == Init => ArrivalInv
<1> SUFFICES ASSUME Init PROVE ArrivalInv
  OBVIOUS
<1>1. fresh = <<>> /\ sorted = <<>> /\ arrived = <<>>
  BY DEF Init
<1>2. Nodes(fresh) = {} /\ Nodes(sorted) = {}
  BY <1>1, NoNodes
<1>3. Lists(arrived, Queued)
  BY <1>1, <1>2, EmptyLists DEF Queued
<1>4. OrderInv
  BY <1>1, <1>2 DEF OrderInv, Ranked, NewestFirst
<1> QED  BY <1>3, <1>4 DEF ArrivalInv

LEMMA RanksOfQueued ==
  ASSUME ActorInv
  PROVE  \A E \in SUBSET Queued : Ranks(E)
BY PriorityAssumption DEF ActorInv, QueueInv, Ranks

LEMMA EnqueueArrival ==
  ASSUME ActorInv, ArrivalInv, NEW t \in Threads, Enqueue(t)
  PROVE  ArrivalInv'
<1> DEFINE x == task[t]
<1>1. /\ x \notin Queued /\ Queued' = Queued \cup {x} /\ sorted' = sorted
      /\ Lists(fresh', Nodes(fresh'))
  BY EnqueueQueue
<1>2. fresh' = <<x>> \o fresh /\ arrived' = Append(arrived, x)
  BY DEF Enqueue
<1>3. Lists(arrived, Queued) /\ OrderInv
  BY DEF ArrivalInv
<1>4. Lists(arrived', Queued')
  BY <1>1, <1>2, <1>3, AppendLists
<1>5. /\ \A y, z \in Queued : <<y, z>> \in Earlier(arrived) => <<y, z>> \in Earlier(arrived')
      /\ \A y \in Queued : <<y, x>> \in Earlier(arrived')
  <2>1. /\ \A y, z \in Queued :
             <<y, z>> \in Earlier(arrived) => <<y, z>> \in Earlier(Append(arrived, x))
        /\ \A y \in Queued : <<y, x>> \in Earlier(Append(arrived, x))
    BY <1>3, AppendEarlier
  <2> QED  BY <1>2, <2>1
<1>6. Nodes(sorted) \subseteq Queued /\ Nodes(fresh) \subseteq Queued
  BY DEF Queued
<1>7. Ranked(sorted', Earlier(arrived'))
  <2>1. Ranked(sorted, Earlier(arrived'))
    BY <1>3, <1>5, <1>6, RankedStill DEF OrderInv
  <2> QED  BY <1>1, <2>1
<1>8. /\ DOMAIN fresh = 1 .. Len(fresh) /\ Len(fresh) \in Nat
      /\ DOMAIN fresh' = 1 .. Len(fresh) + 1
      /\ fresh'[1] = x /\ \A i \in 2 .. Len(fresh) + 1 : fresh'[i] = fresh[i - 1]
  <2>1. fresh \in Seq(Nodes(fresh) \cup {x})
    BY DEF ActorInv, QueueInv, Lists
  <2> DEFINE r == <<x>> \o fresh
  <2>2. DOMAIN r = 1 .. Len(fresh) + 1 /\ Len(fresh) \in Nat /\ DOMAIN fresh = 1 .. Len(fresh)
    BY <2>1
  <2>3. r[1] = x /\ \A i \in 2 .. Len(fresh) + 1 : r[i] = fresh[i - 1]
    BY <2>1
  <2> HIDE DEF r
  <2>4. fresh' = r
    BY <1>2 DEF r
  <2> QED  BY <2>2, <2>3, <2>4
<1>9. ASSUME NEW i \in 1 .. Len(fresh) + 1, NEW k \in 1 .. Len(fresh) + 1, i < k
      PROVE  <<fresh'[k], fresh'[i]>> \in Earlier(arrived')
  <2>1. /\ k \in 2 .. Len(fresh) + 1 /\ k - 1 \in DOMAIN fresh
        /\ fresh'[k] = fresh[k - 1] /\ fresh[k - 1] \in Queued
    BY <1>6, <1>8, <1>9 DEF Nodes
  <2>2. CASE i = 1
    BY <1>5, <1>8, <2>1, <2>2
  <2>3. CASE i # 1
    <3>1. /\ i - 1 \in DOMAIN fresh /\ fresh'[i] = fresh[i - 1] /\ fresh[i - 1] \in Queued
          /\ i - 1 < k - 1
      BY <1>6, <1>8, <1>9, <2>3 DEF Nodes
    <3>2. <<fresh[k - 1], fresh[i - 1]>> \in Earlier(arrived)
      BY <1>3, <2>1, <3>1 DEF OrderInv, NewestFirst
    <3> QED  BY <1>5, <2>1, <3>1, <3>2
  <2> QED  BY <2>2, <2>3
<1>10. NewestFirst(fresh', Earlier(arrived'))
  BY <1>8, <1>9 DEF NewestFirst
<1>11. Nodes(fresh') \subseteq Nodes(fresh) \cup {x}
  <2>1. ASSUME NEW i \in 1 .. Len(fresh) + 1 PROVE fresh'[i] \in Nodes(fresh) \cup {x}
    <3>1. CASE i = 1
      BY <1>8, <3>1
    <3>2. CASE i # 1
      <4>1. i \in 2 .. Len(fresh) + 1 /\ i - 1 \in DOMAIN fresh
        BY <1>8, <3>2
      <4> QED  BY <1>8, <4>1 DEF Nodes
    <3> QED  BY <3>1, <3>2
  <2> QED  BY <1>8, <2>1 DEF Nodes
<1>12. Nodes(sorted') = Nodes(sorted)
  BY <1>1
<1>13. \A y \in Nodes(sorted'), z \in Nodes(fresh') : <<y, z>> \in Earlier(arrived')
  BY <1>3, <1>5, <1>6, <1>11, <1>12 DEF OrderInv
<1>14. OrderInv'
  BY <1>7, <1>10, <1>13 DEF OrderInv
<1> QED  BY <1>4, <1>14 DEF ArrivalInv

LEMMA PreprocessArrival ==
  ASSUME ActorInv, ArrivalInv, NEW t \in Threads, Preprocess(t) \/ PreprocessNew(t)
  PROVE  ArrivalInv'
<1> DEFINE b == Earlier(arrived)
           new == SortReversed(fresh)
<1>1. /\ fresh' = <<>> /\ sorted' = Merge(sorted, new) /\ arrived' = arrived
      /\ Queued' = Queued
  BY PreprocessQueue DEF Preprocess, PreprocessNew
<1>2. Lists(arrived', Queued')
  BY <1>1 DEF ArrivalInv
<1>3. /\ Ranked(sorted, b) /\ NewestFirst(fresh, b)
      /\ \A x \in Nodes(sorted), y \in Nodes(fresh) : <<x, y>> \in b
  BY DEF ArrivalInv, OrderInv
<1>4. /\ Lists(fresh, Nodes(fresh)) /\ Lists(sorted, Nodes(sorted))
      /\ Nodes(sorted) \cap Nodes(fresh) = {}
  BY DEF ActorInv, QueueInv
<1>5. Ranks(Nodes(fresh)) /\ Ranks(Nodes(sorted))
  BY RanksOfQueued DEF Queued
<1> HIDE DEF b, new
<1>6. Lists(new, Nodes(fresh)) /\ Ranked(new, b)
  BY <1>3, <1>4, <1>5, SortReversedLists, SortReversedRanked DEF new
<1>7. Ranked(Merge(sorted, new), b)
  BY <1>3, <1>4, <1>5, <1>6, MergeRanked
<1>8. Ranked(sorted', Earlier(arrived'))
  BY <1>1, <1>7 DEF b
<1>9. Nodes(fresh') = {}
  BY <1>1, NoNodes
<1>10. OrderInv'
  BY <1>1, <1>8, <1>9 DEF OrderInv, NewestFirst
<1> QED  BY <1>2, <1>10 DEF ArrivalInv

(* The head of the sorted list goes before every other job.                *)
LEMMA HeadIsAhead ==
  ASSUME ActorInv, ArrivalInv, fresh = <<>>, sorted # <<>>
  PROVE  /\ Head(sorted) \in Queued
         /\ \A y \in Queued \ {Head(sorted)} : Ahead(Head(sorted), y, Earlier(arrived))
<1>1. Lists(sorted, Nodes(sorted)) /\ Ranked(sorted, Earlier(arrived))
  BY DEF ActorInv, QueueInv, ArrivalInv, OrderInv
<1>2. /\ DOMAIN sorted = 1 .. Len(sorted) /\ Len(sorted) \in Nat \ {0}
      /\ Head(sorted) = sorted[1]
  BY <1>1 DEF Lists
<1>3. Nodes(fresh) = {}
  BY NoNodes
<1>4. Queued = Nodes(sorted) /\ 1 \in DOMAIN sorted
  BY <1>2, <1>3 DEF Queued
<1>5. ASSUME NEW y \in Queued \ {Head(sorted)}
      PROVE  Ahead(Head(sorted), y, Earlier(arrived))
  <2>1. PICK i \in DOMAIN sorted : y = sorted[i]
    BY <1>4 DEF Nodes
  <2>2. 1 < i
    BY <1>2, <1>5, <2>1
  <2> QED  BY <1>1, <1>2, <1>4, <2>1, <2>2 DEF Ranked
<1> QED  BY <1>2, <1>4, <1>5 DEF Nodes

LEMMA DrainOneArrival ==
  ASSUME ActorInv, ArrivalInv, NEW t \in Threads, DrainOne(t)
  PROVE  ArrivalInv'
<1> DEFINE x == Head(sorted)
<1>1. /\ fresh = <<>> /\ fresh' = <<>> /\ sorted' = Tail(sorted)
      /\ arrived' = Without(arrived, x) /\ pc[t] = "take"
  BY DEF DrainOne, At
<1>2. x \in Queued /\ Queued' = Queued \ {x}
  BY DrainOneQueue
<1>3. sorted # <<>> /\ Lists(sorted, Nodes(sorted))
  BY <1>1 DEF ActorInv, WordInv, QueueInv
<1>4. Lists(arrived, Queued) /\ Ranked(sorted, Earlier(arrived))
  BY DEF ArrivalInv, OrderInv
<1>5. /\ Lists(arrived', Queued')
      /\ \A y, z \in Queued' : <<y, z>> \in Earlier(arrived) => <<y, z>> \in Earlier(arrived')
  BY <1>1, <1>2, <1>4, WithoutLists
<1>6. Nodes(Tail(sorted)) = Nodes(sorted) \ {x}
  BY <1>3, TailLists, ListsItsNodes
<1>7. Nodes(sorted) \subseteq Queued
  BY DEF Queued
<1>8. Ranked(Tail(sorted), Earlier(arrived))
  <2> DEFINE r == Tail(sorted)
  <2>1. /\ sorted \in Seq(Nodes(sorted))
        /\ DOMAIN sorted = 1 .. Len(sorted) /\ Len(sorted) \in Nat
    BY <1>3 DEF Lists
  <2>2. DOMAIN r = 1 .. Len(sorted) - 1 /\ \A i \in 1 .. Len(sorted) - 1 : r[i] = sorted[i + 1]
    BY <1>3, <2>1
  <2>3. \A i \in 1 .. Len(sorted) - 1 : i + 1 \in DOMAIN sorted
    BY <2>1
  <2> HIDE DEF r
  <2>4. ASSUME NEW i \in 1 .. Len(sorted) - 1, NEW k \in 1 .. Len(sorted) - 1, i < k
        PROVE  Ahead(r[i], r[k], Earlier(arrived))
    <3>1. i + 1 \in DOMAIN sorted /\ k + 1 \in DOMAIN sorted /\ i + 1 < k + 1
      BY <2>3, <2>4
    <3> QED  BY <1>4, <2>2, <3>1 DEF Ranked
  <2>5. Ranked(r, Earlier(arrived))
    BY <2>2, <2>4 DEF Ranked
  <2> QED  BY <2>5 DEF r
<1>9. \A y \in Nodes(Tail(sorted)) : y \in Queued'
  BY <1>2, <1>6, <1>7
<1>10. Ranked(Tail(sorted), Earlier(arrived'))
  BY <1>5, <1>8, <1>9, RankedStill
<1>11. Nodes(fresh') = {}
  BY <1>1, NoNodes
<1>12. OrderInv'
  BY <1>1, <1>10, <1>11 DEF OrderInv, NewestFirst
<1> QED  BY <1>5, <1>12 DEF ArrivalInv

LEMMA OtherStepsKeepArrival ==
  ASSUME ActorInv, ArrivalInv,
         \/ \E t \in Threads : ThreadStep(t) /\ ~ QueueSteps(t)
         \/ \E e \in Escalators : EscalatorStep(e)
         \/ UNCHANGED vars
  PROVE  ArrivalInv' /\ arrived' = arrived
<1>1. UNCHANGED <<fresh, sorted>>
  BY OtherStepsKeepQueue
<1>2. ASSUME NEW t \in Threads, ThreadStep(t), ~ QueueSteps(t)
      PROVE  arrived' = arrived
  BY <1>2 DEF ThreadStep, QueueSteps, RunTask, ResumeOnActor, RunIsolated, SwitchFast,
     SwitchSlow, EnqueueOnTaskExecutor, Schedule, Steal, Override, Process, LockToDrain,
     LoseRace, LeaveDrain, DrainNothing, Start, UnlockFails, UnlockIdle, HopOff,
     DropReference, EndOfStretch, GiveUp, LeaveIsolation
<1>3. arrived' = arrived
  <2>1. CASE \E e \in Escalators : EscalatorStep(e)
    BY <2>1 DEF EscalatorStep, LockTask, RaisePriority, EscalatorOverrides, EscalatorSteals,
       UnlockTask
  <2>2. CASE UNCHANGED vars
    BY <2>2 DEF vars
  <2> QED  BY <1>2, <2>1, <2>2
<1>4. Nodes(fresh') = Nodes(fresh) /\ Nodes(sorted') = Nodes(sorted) /\ Queued' = Queued
  BY <1>1, QueuedSame
<1>5. Lists(arrived', Queued')
  BY <1>3, <1>4 DEF ArrivalInv
<1>6. OrderInv
  BY DEF ArrivalInv
<1>7. OrderInv'
  <2>1. Earlier(arrived') = Earlier(arrived)
    BY <1>3
  <2>2. Ranked(sorted', Earlier(arrived'))
    BY <1>1, <1>6, <2>1 DEF OrderInv
  <2>3. NewestFirst(fresh', Earlier(arrived'))
    BY <1>1, <1>6, <2>1 DEF OrderInv
  <2> QED  BY <1>4, <1>6, <2>1, <2>2, <2>3 DEF OrderInv
<1> QED  BY <1>3, <1>5, <1>7 DEF ArrivalInv

LEMMA StepKeepsArrival == ActorInv /\ ArrivalInv /\ [Next]_vars => ArrivalInv'
<1> SUFFICES ASSUME ActorInv, ArrivalInv, [Next]_vars PROVE ArrivalInv'
  OBVIOUS
<1>1. ASSUME NEW t \in Threads, QueueSteps(t) PROVE ArrivalInv'
  BY <1>1, EnqueueArrival, PreprocessArrival, DrainOneArrival DEF QueueSteps
<1>2. CASE \/ \E t \in Threads : ThreadStep(t) /\ ~ QueueSteps(t)
           \/ \E e \in Escalators : EscalatorStep(e)
           \/ UNCHANGED vars
  BY <1>2, OtherStepsKeepArrival
<1> QED  BY <1>1, <1>2 DEF Next

-----------------------------------------------------------------------------
(* Each step of the actor is a step of the executor, or none of its.       *)

RunningJob == IF OnActor = {} THEN NoJob ELSE task[CHOOSE t \in OnActor : TRUE]

LEMMA RunningNone == OnActor = {} => RunningJob = NoJob
BY DEF RunningJob

LEMMA RunningOne == \A t : OnActor = {t} => RunningJob = task[t]
BY DEF RunningJob

LEMMA OneOnActor ==
  ASSUME LockInv, NEW t \in Threads, pc[t] \in Inside
  PROVE  /\ t \in OnActor => OnActor = {t}
         /\ t \notin OnActor => OnActor = {}
<1>1. \A s \in Threads : pc[s] \in Inside => s = t
  BY DEF LockInv, MutualExclusion
<1>2. \A s \in OnActor : s \in Threads /\ pc[s] \in Inside
  BY DEF OnActor, Inside
<1> QED  BY <1>1, <1>2

LEMMA NobodyInside ==
  ASSUME LockInv, status.state \in {"Idle", "Scheduled"}
  PROVE  OnActor = {}
<1>1. \A t \in Threads : pc[t] \notin Inside
  BY DEF LockInv, MutualExclusion
<1> QED  BY <1>1 DEF OnActor, Inside

(* A thread that is not on the actor and does not come to it changes       *)
(* nothing for the one that is.                                            *)
LEMMA RunningStays ==
  ASSUME NEW t, t \notin OnActor, t \notin OnActor',
         \A s \in Threads : s # t => pc'[s] = pc[s] /\ task'[s] = task[s]
  PROVE  RunningJob' = RunningJob
<1>1. OnActor' = OnActor
  BY DEF OnActor
<1>2. CASE OnActor = {}
  BY <1>1, <1>2, RunningNone DEF RunningJob
<1>3. CASE OnActor # {}
  <2> DEFINE s == CHOOSE s \in OnActor : TRUE
  <2>1. s \in OnActor
    BY <1>3
  <2>2. s \in Threads /\ s # t
    BY <2>1 DEF OnActor
  <2>3. task'[s] = task[s]
    BY <2>2
  <2>4. RunningJob = task[s] /\ RunningJob' = task'[s]
    BY <1>1, <1>3 DEF RunningJob
  <2> QED  BY <2>3, <2>4
<1> QED  BY <1>2, <1>3

LEMMA RunningSame ==
  ASSUME OnActor' = OnActor, task' = task
  PROVE  RunningJob' = RunningJob
BY DEF RunningJob

LEMMA EnqueueArrives ==
  ASSUME ActorInv, ArrivalInv, NEW t \in Threads, Enqueue(t)
  PROVE  Executor!Next
<1> DEFINE x == task[t]
<1>1. x \in Jobs /\ x \notin Queued
  BY EnqueueQueue
<1>2. Executor!Waiting = Queued
  BY DEF Executor!Waiting, ArrivalInv, Lists, Nodes
<1>3. arrived' = Append(arrived, x) /\ pc[t] = "enqueue" /\ Return(t) /\ Take(t, NoJob)
  BY DEF Enqueue, At
<1>4. RunningJob' = RunningJob
  <2>1. PICK where \in {"leave", "idle"} : Goto(t, where)
    BY <1>3, ReturnPlaces
  <2>2. pc \in [Threads -> Places] /\ task \in [Threads -> Jobs \cup {NoJob}]
    BY DEF ActorInv, LockInv, LocationType, ActorTypes
  <2>3. /\ pc'[t] = where
        /\ \A s \in Threads : s # t => pc'[s] = pc[s] /\ task'[s] = task[s]
    BY <1>3, <2>1, <2>2 DEF Goto, Take
  <2>4. t \notin OnActor /\ t \notin OnActor'
    BY <1>3, <2>3 DEF OnActor
  <2> QED  BY <2>3, <2>4, RunningStays
<1>5. Executor!Arrive(x)
  BY <1>1, <1>2, <1>3, <1>4 DEF Executor!Arrive, RunningJob
<1> QED  BY <1>1, <1>5 DEF Executor!Next

LEMMA FastPathEnters ==
  ASSUME ActorInv, ArrivalInv, NEW t \in Threads, SwitchFast(t)
  PROVE  Executor!Next
<1>1. /\ status.state = "Idle" /\ task[t] \in Jobs /\ Goto(t, "actor") /\ task' = task
      /\ arrived' = arrived
  BY DEF SwitchFast, MayVisit
<1>2. OnActor = {}
  BY <1>1, NobodyInside DEF ActorInv
<1>3. Queued = {}
  BY <1>1 DEF ActorInv, WordInv
<1>4. arrived = <<>>
  BY <1>3, EmptyList DEF ArrivalInv
<1>5. OnActor' = {t}
  <2>1. pc \in [Threads -> Places]
    BY DEF ActorInv, LockInv, LocationType
  <2> QED  BY <1>1, <1>2, <2>1 DEF OnActor, Goto
<1>6. RunningJob = NoJob /\ RunningJob' = task[t]
  BY <1>1, <1>2, <1>5 DEF RunningJob
<1>7. Executor!Enter(task[t])
  BY <1>1, <1>4, <1>6 DEF Executor!Enter, RunningJob
<1> QED  BY <1>1, <1>7 DEF Executor!Next

LEMMA DrainOneStarts ==
  ASSUME ActorInv, ArrivalInv, NEW t \in Threads, DrainOne(t)
  PROVE  Executor!Next
<1> DEFINE x == Head(sorted)
           at == PlaceOf(arrived, x)
<1>1. /\ fresh = <<>> /\ pc[t] = "take" /\ arrived' = Without(arrived, x)
      /\ Take(t, x) /\ Goto(t, "start")
  BY DEF DrainOne, At
<1>2. sorted # <<>>
  BY <1>1 DEF ActorInv, WordInv
<1>3. x \in Queued /\ \A y \in Queued \ {x} : Ahead(x, y, Earlier(arrived))
  BY <1>1, <1>2, HeadIsAhead
<1>4. Lists(arrived, Queued)
  BY DEF ArrivalInv
<1>5. /\ at \in 1 .. Len(arrived) /\ arrived[at] = x /\ DOMAIN arrived = 1 .. Len(arrived)
      /\ \A i, k \in DOMAIN arrived : arrived[i] = arrived[k] => i = k
      /\ \A i \in DOMAIN arrived : arrived[i] \in Queued /\ Priority[arrived[i]] \in Int
  <2>1. at \in 1 .. Len(arrived) /\ arrived[at] = x
    BY <1>3, <1>4, PlaceFound
  <2>2. Ranks(Queued)
    BY RanksOfQueued
  <2> QED  BY <1>4, <2>1, <2>2 DEF Lists, Ranks
<1> HIDE DEF x, at
<1> DEFINE Best(i) == \A k \in DOMAIN arrived \ {i} :
                        \/ Priority[arrived[i]] > Priority[arrived[k]]
                        \/ Priority[arrived[i]] = Priority[arrived[k]] /\ i < k
<1>6. Best(at)
  <2> SUFFICES ASSUME NEW k \in DOMAIN arrived \ {at}
               PROVE  \/ Priority[arrived[at]] > Priority[arrived[k]]
                      \/ Priority[arrived[at]] = Priority[arrived[k]] /\ at < k
    OBVIOUS
  <2>1. arrived[k] \in Queued \ {x}
    BY <1>5
  <2>2. Ahead(x, arrived[k], Earlier(arrived))
    BY <1>3, <2>1
  <2>3. <<x, arrived[k]>> \in Earlier(arrived) => at < k
    <3> SUFFICES ASSUME <<x, arrived[k]>> \in Earlier(arrived) PROVE at < k
      OBVIOUS
    <3>1. PICK i \in DOMAIN arrived, d \in DOMAIN arrived :
            i < d /\ arrived[i] = x /\ arrived[d] = arrived[k]
      BY EarlierIs
    <3>2. i = at /\ d = k
      BY <1>5, <3>1
    <3> QED  BY <3>1, <3>2
  <2> QED  BY <1>5, <2>2, <2>3 DEF Ahead
<1>7. \A i \in DOMAIN arrived : Best(i) => i = at
  <2> SUFFICES ASSUME NEW i \in DOMAIN arrived, Best(i), i # at PROVE FALSE
    OBVIOUS
  <2>1. \/ Priority[arrived[i]] > Priority[arrived[at]]
        \/ Priority[arrived[i]] = Priority[arrived[at]] /\ i < at
    BY <1>5
  <2>2. \/ Priority[arrived[at]] > Priority[arrived[i]]
        \/ Priority[arrived[at]] = Priority[arrived[i]] /\ at < i
    BY <1>6
  <2>3. /\ i \in Int /\ at \in Int
        /\ Priority[arrived[i]] \in Int /\ Priority[arrived[at]] \in Int
    BY <1>5
  <2> QED  BY <2>1, <2>2, <2>3
<1>8. Executor!First = at
  <2>1. Executor!First = CHOOSE i \in DOMAIN arrived : Best(i)
    BY DEF Executor!First
  <2> HIDE DEF Best
  <2>2. at \in DOMAIN arrived
    BY <1>5
  <2> QED  BY <1>6, <1>7, <2>1, <2>2
<1>9. arrived' = SubSeq(arrived, 1, at - 1) \o SubSeq(arrived, at + 1, Len(arrived))
  BY <1>1 DEF Without, PlaceOf, at
<1>10. RunningJob = NoJob /\ RunningJob' = x
  <2>1. OnActor = {}
    BY <1>1, OneOnActor DEF ActorInv, Inside, OnActor
  <2>2. pc \in [Threads -> Places] /\ task \in [Threads -> Jobs \cup {NoJob}]
    BY DEF ActorInv, LockInv, LocationType, ActorTypes
  <2>3. OnActor' = {t} /\ task'[t] = x
    BY <1>1, <2>1, <2>2 DEF OnActor, Goto, Take
  <2> QED  BY <2>1, <2>3 DEF RunningJob
<1>11. arrived # <<>>
  BY <1>5
<1>12. Executor!Start
  BY <1>5, <1>8, <1>9, <1>10, <1>11 DEF Executor!Start, RunningJob
<1> QED  BY <1>12 DEF Executor!Next

(* The thread that leaves the actor, or gives its task up there.           *)
LEMMA LeavesActor ==
  ASSUME ActorInv, NEW t \in Threads, pc[t] = "actor",
         NEW where \in {"generic", "giveUp", "drain"}, Goto(t, where), arrived' = arrived
  PROVE  Executor!Next
<1>1. OnActor = {t}
  BY OneOnActor DEF ActorInv, Inside, OnActor
<1>2. task[t] \in Jobs
  BY DEF ActorInv, JobsInv, Carrying
<1>3. OnActor' = {}
  <2>1. pc \in [Threads -> Places]
    BY DEF ActorInv, LockInv, LocationType
  <2> QED  BY <1>1, <2>1 DEF OnActor, Goto
<1>4. RunningJob # NoJob /\ RunningJob' = NoJob
  BY <1>1, <1>2, <1>3, NullAssumption DEF RunningJob
<1>5. Executor!Leave
  BY <1>4 DEF Executor!Leave, RunningJob
<1> QED  BY <1>5 DEF Executor!Next

LEMMA ThreadStepRefines ==
  ASSUME ActorInv, ArrivalInv, NEW t \in Threads, ThreadStep(t)
  PROVE  Executor!Next \/ (arrived' = arrived /\ RunningJob' = RunningJob)
<1> USE DEF At
<1>0. pc \in [Threads -> Places] /\ task \in [Threads -> Jobs \cup {NoJob}]
  BY DEF ActorInv, LockInv, LocationType, ActorTypes
<1>1. CASE Enqueue(t) \/ SwitchFast(t) \/ DrainOne(t)
  BY <1>1, EnqueueArrives, FastPathEnters, DrainOneStarts
<1>2. CASE HopOff(t) \/ (EndOfStretch(t) /\ pc[t] = "actor")
  <2>1. /\ pc[t] = "actor" /\ arrived' = arrived
        /\ \E where \in {"generic", "giveUp", "drain"} : Goto(t, where)
    BY <1>2 DEF HopOff, EndOfStretch
  <2> QED  BY <2>1, LeavesActor
<1>3. CASE \/ Schedule(t) \/ Steal(t) \/ Override(t) \/ PreprocessNew(t) \/ DropReference(t)
  <2>1. UNCHANGED <<pc, task, arrived>>
    BY <1>3 DEF Schedule, Steal, Override, PreprocessNew, DropReference, threadVars
  <2>2. OnActor' = OnActor
    BY <2>1 DEF OnActor
  <2> QED  BY <2>1, <2>2, RunningSame
<1>4. CASE Start(t)
  <2>1. pc[t] = "start" /\ Goto(t, "actor") /\ UNCHANGED <<task, arrived>>
    BY <1>4 DEF Start
  <2>2. OnActor' = OnActor
    BY <1>0, <2>1 DEF OnActor, Goto
  <2> QED  BY <2>1, <2>2, RunningSame
<1>5. CASE \/ \E j \in Jobs : RunTask(t, j) \/ ResumeOnActor(t, j) \/ RunIsolated(t, j)
           \/ SwitchSlow(t) \/ EnqueueOnTaskExecutor(t) \/ Process(t) \/ LockToDrain(t)
           \/ LoseRace(t) \/ LeaveDrain(t) \/ Preprocess(t) \/ DrainNothing(t)
           \/ UnlockFails(t) \/ UnlockIdle(t) \/ GiveUp(t) \/ LeaveIsolation(t)
           \/ (EndOfStretch(t) /\ pc[t] # "actor")
  <2>1. /\ arrived' = arrived /\ pc[t] \notin {"start", "actor"}
        /\ \E where \in Places \ {"start", "actor"} : Goto(t, where)
    <3>1. CASE \/ EnqueueOnTaskExecutor(t) \/ UnlockIdle(t) \/ GiveUp(t)
               \/ (EndOfStretch(t) /\ pc[t] # "actor")
      <4>1. Return(t) /\ arrived' = arrived /\ pc[t] \notin {"start", "actor"}
        BY <3>1 DEF EnqueueOnTaskExecutor, UnlockIdle, GiveUp, EndOfStretch
      <4> QED  BY <4>1, ReturnPlaces DEF Places
    <3>2. CASE ~ \/ EnqueueOnTaskExecutor(t) \/ UnlockIdle(t) \/ GiveUp(t)
                 \/ (EndOfStretch(t) /\ pc[t] # "actor")
      BY <1>5, <3>2 DEF RunTask, ResumeOnActor, RunIsolated, SwitchSlow, Process, LockToDrain,
         LoseRace, LeaveDrain, Preprocess, DrainNothing, UnlockFails, LeaveIsolation,
         Places, Inside
    <3> QED  BY <3>1, <3>2
  <2>2. task' = task \/ \E j : Take(t, j)
    BY <1>5 DEF RunTask, ResumeOnActor, RunIsolated, SwitchSlow, EnqueueOnTaskExecutor,
       Process, LockToDrain, LoseRace, LeaveDrain, Preprocess, DrainNothing, UnlockFails,
       UnlockIdle, GiveUp, LeaveIsolation, EndOfStretch
  <2>3. t \notin OnActor /\ t \notin OnActor'
    BY <1>0, <2>1 DEF OnActor, Goto
  <2>4. \A s \in Threads : s # t => pc'[s] = pc[s] /\ task'[s] = task[s]
    BY <1>0, <2>1, <2>2 DEF Goto, Take
  <2> QED  BY <2>1, <2>3, <2>4, RunningStays
<1> QED  BY <1>1, <1>2, <1>3, <1>4, <1>5 DEF ThreadStep

LEMMA StepRefines ==
  ActorInv /\ ArrivalInv /\ [Next]_vars => [Executor!Next]_(Executor!execVars)
<1> SUFFICES ASSUME ActorInv, ArrivalInv, [Next]_vars
             PROVE  Executor!Next \/ (arrived' = arrived /\ RunningJob' = RunningJob)
  BY DEF Executor!execVars, RunningJob
<1>1. CASE \E t \in Threads : ThreadStep(t)
  BY <1>1, ThreadStepRefines
<1>2. CASE (\E e \in Escalators : EscalatorStep(e)) \/ UNCHANGED vars
  <2>1. UNCHANGED <<pc, task, arrived>>
    BY <1>2 DEF EscalatorStep, LockTask, RaisePriority, EscalatorOverrides, EscalatorSteals,
       UnlockTask, vars, threadVars
  <2>2. OnActor' = OnActor
    BY <2>1 DEF OnActor
  <2> QED  BY <2>1, <2>2, RunningSame
<1> QED  BY <1>1, <1>2 DEF Next

(* A default actor is the serial executor it promises to be: whatever is   *)
(* enqueued while it is drained, and however its two lists are merged, one *)
(* task runs at a time, by priority and then by arrival, and a switch that *)
(* takes the lock at once overtakes nobody.                                *)
THEOREM ActorIsAnExecutor == Spec => ImplementsExecutor
<1>1. Init => Executor!Init
  <2> SUFFICES ASSUME Init PROVE Executor!Init
    OBVIOUS
  <2>1. arrived = <<>> /\ OnActor = {}
    BY DEF Init, OnActor
  <2> QED  BY <2>1 DEF Executor!Init
<1>2. Spec => []ArrivalInv
  BY InitArrival, StepKeepsArrival, ActorInvariant, PTL DEF Spec
<1> QED
  BY <1>1, <1>2, StepRefines, ActorInvariant, PTL DEF Spec, ImplementsExecutor, Executor!Spec
=============================================================================
