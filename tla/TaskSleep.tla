----------------------------- MODULE TaskSleep -----------------------------
(***************************************************************************)
(* Task.sleep: stdlib/public/Concurrency/TaskSleep.swift.                  *)
(*                                                                         *)
(* A sleep shares one heap word, its token, between three parties: the     *)
(* sleeping task, the wake job that a timer starts, and the cancellation   *)
(* handler, which the cancelling thread runs while it holds the record     *)
(* lock of the task, or the task itself when it is already cancelled.      *)
(* Nobody counts references to the word: the state in it says who frees it.*)
(* Each load and each compare-exchange is a step of its own.               *)
(***************************************************************************)
EXTENDS Naturals

CONSTANT MaxSleeps   \* bound: how often the task sleeps

ASSUME MaxSleepsAssumption == MaxSleeps \in Nat \ {0}

Sleeps == 1 .. MaxSleeps
Callers == {"sleeper", "canceller"}   \* who may run the cancellation handler

VARIABLES
  word,       \* word[n]: the SleepState in the token of the n-th sleep
  cur,        \* the sleep the task is in, or was in last
  spc,        \* control state of sleep(nanoseconds:)
  registered, \* is the handler of that sleep in the task's record list?
  resumed,    \* how often the continuation of each sleep was resumed
  result,     \* what it was resumed with
  outcome,    \* how each sleep ended
  wpc,        \* control state of each wake job (onSleepWake)
  hpc,        \* control state of each call of the handler (onSleepCancel)
  hseen,      \* the state that call loaded
  visit,      \* the sleep that call is for
  cancelled,  \* the cancelled bit of the task
  cpc         \* control state of swift_task_cancel

sleepVars  == <<cur, spc, registered, outcome>>
contVars   == <<resumed, result>>
callVars   == <<hpc, hseen, visit>>
cancelVars == <<cancelled, cpc>>
vars == <<word, sleepVars, contVars, wpc, callVars, cancelVars>>

States == {"notStarted", "activeContinuation", "finished", "cancelled",
           "cancelledBeforeStarted"}

Allocated(n) == word[n] \notin {"unallocated", "freed"}

(* withStatusRecordLock: records are neither added nor removed meanwhile.  *)
RecordsLocked == cpc = "visit"

Resume(n, how) ==
  /\ resumed' = [resumed EXCEPT ![n] = @ + 1]
  /\ result'  = [result EXCEPT ![n] = how]

Init ==
  /\ word = [n \in Sleeps |-> "unallocated"]
  /\ cur = 0 /\ spc = "awake" /\ registered = FALSE
  /\ resumed = [n \in Sleeps |-> 0]
  /\ result  = [n \in Sleeps |-> "none"]
  /\ outcome = [n \in Sleeps |-> "none"]
  /\ wpc = [n \in Sleeps |-> "none"]
  /\ hpc = [w \in Callers |-> "idle"]
  /\ hseen = [w \in Callers |-> "notStarted"]
  /\ visit = [w \in Callers |-> 1]
  /\ cancelled = FALSE /\ cpc = "idle"

-----------------------------------------------------------------------------
(* sleep(nanoseconds:).                                                    *)

(* Allocate the token and register the handler, which the task calls       *)
(* before anything else if it is already cancelled.                        *)
BeginSleep ==
  /\ spc = "awake" /\ cur < MaxSleeps /\ ~ RecordsLocked
  /\ cur' = cur + 1
  /\ word' = [word EXCEPT ![cur'] = "notStarted"]
  /\ registered' = TRUE
  /\ spc' = "load"
  /\ hpc' = [hpc EXCEPT !["sleeper"] = IF cancelled THEN "load" ELSE "idle"]
  /\ visit' = [visit EXCEPT !["sleeper"] = cur']
  /\ UNCHANGED <<outcome, contVars, wpc, hseen, cancelVars>>

InOperation(pc) == spc = pc /\ hpc["sleeper"] = "idle"

LoadStateMutant ==     \* a sleep cancelled before it started just waits
  /\ InOperation("load")
  /\ spc' = CASE word[cur] = "notStarted" -> "exchange"
              [] word[cur] = "cancelledBeforeStarted" -> "await"
              [] OTHER -> "fatal"
  /\ UNCHANGED <<word, cur, registered, outcome, contVars, wpc, callVars, cancelVars>>

(* The closure given to withUnsafeThrowingContinuation looks at the token. *)
LoadState ==
  /\ InOperation("load")
  /\ spc' = CASE word[cur] = "notStarted" -> "exchange"
              [] word[cur] = "cancelledBeforeStarted" -> "await"
              [] OTHER -> "fatal"
  /\ IF word[cur] = "cancelledBeforeStarted" THEN Resume(cur, "value")
     ELSE UNCHANGED contVars
  /\ UNCHANGED <<word, cur, registered, outcome, wpc, callVars, cancelVars>>

ActivateMutant ==      \* creates the wake job before it stores the continuation
  /\ InOperation("exchange")
  /\ IF wpc[cur] = "none"
     THEN wpc' = [wpc EXCEPT ![cur] = "scheduled"] /\ UNCHANGED <<word, spc>>
     ELSE /\ word' = [word EXCEPT ![cur] = "activeContinuation"]
          /\ spc' = "await" /\ UNCHANGED wpc
  /\ UNCHANGED <<cur, registered, outcome, contVars, callVars, cancelVars>>

(* Store the continuation unless the handler was quicker ...               *)
Activate ==
  /\ InOperation("exchange")
  /\ IF word[cur] = "notStarted"
     THEN word' = [word EXCEPT ![cur] = "activeContinuation"] /\ spc' = "schedule"
     ELSE spc' = "load" /\ UNCHANGED word
  /\ UNCHANGED <<cur, registered, outcome, contVars, wpc, callVars, cancelVars>>

(* ... and only then create the wake job and start its timer.              *)
ScheduleWake ==
  /\ InOperation("schedule")
  /\ wpc' = [wpc EXCEPT ![cur] = "scheduled"]
  /\ spc' = "await"
  /\ UNCHANGED <<word, cur, registered, outcome, contVars, callVars, cancelVars>>

AwaitContinuation ==
  /\ InOperation("await") /\ resumed[cur] > 0
  /\ spc' = "leave"
  /\ UNCHANGED <<word, cur, registered, outcome, contVars, wpc, callVars, cancelVars>>

RemoveHandlerMutant == \* does not wait for a canceller that runs the handler
  /\ spc = "leave"
  /\ registered' = FALSE
  /\ spc' = IF result[cur] = "error" THEN "throw" ELSE "inspect"
  /\ UNCHANGED <<word, cur, outcome, contVars, wpc, callVars, cancelVars>>

(* swift_task_removeCancellationHandler, on both ways out of the operation.*)
RemoveHandler ==
  /\ spc = "leave" /\ ~ RecordsLocked
  /\ registered' = FALSE
  /\ spc' = IF result[cur] = "error" THEN "throw" ELSE "inspect"
  /\ UNCHANGED <<word, cur, outcome, contVars, wpc, callVars, cancelVars>>

InspectMutant ==       \* forgets that the sleep was cancelled before it started
  /\ spc = "inspect"
  /\ spc' = "deallocate"
  /\ outcome' = [outcome EXCEPT ![cur] = "returned"]
  /\ UNCHANGED <<word, cur, registered, contVars, wpc, callVars, cancelVars>>

(* Resumed without an error: the timer, or a cancellation before the start.*)
Inspect ==
  /\ spc = "inspect"
  /\ spc' = IF word[cur] \in {"finished", "cancelledBeforeStarted"}
            THEN "deallocate" ELSE "fatal"
  /\ outcome' = [outcome EXCEPT ![cur] =
       IF word[cur] = "cancelledBeforeStarted" THEN "threw" ELSE "returned"]
  /\ UNCHANGED <<word, cur, registered, contVars, wpc, callVars, cancelVars>>

Deallocate ==
  /\ spc = "deallocate"
  /\ word' = [word EXCEPT ![cur] = "freed"]
  /\ spc' = "awake"
  /\ UNCHANGED <<cur, registered, outcome, contVars, wpc, callVars, cancelVars>>

(* Resumed with an error: the token is left to the wake job.               *)
Rethrow ==
  /\ spc = "throw"
  /\ outcome' = [outcome EXCEPT ![cur] = "threw"]
  /\ spc' = "awake"
  /\ UNCHANGED <<word, cur, registered, contVars, wpc, callVars, cancelVars>>

-----------------------------------------------------------------------------
(* onSleepWake: the job that the timer runs.                               *)

TimerFires(n) ==
  /\ wpc[n] = "scheduled"
  /\ wpc' = [wpc EXCEPT ![n] = "load"]
  /\ UNCHANGED <<word, sleepVars, contVars, callVars, cancelVars>>

WakeLoadMutant(n) ==   \* leaves the token of a cancelled sleep allocated
  /\ wpc[n] = "load"
  /\ wpc' = [wpc EXCEPT ![n] =
       CASE word[n] = "activeContinuation" -> "exchange"
         [] word[n] \in {"cancelled", "cancelledBeforeStarted"} -> "done"
         [] OTHER -> "fatal"]
  /\ UNCHANGED <<word, sleepVars, contVars, callVars, cancelVars>>

WakeLoad(n) ==
  /\ wpc[n] = "load"
  /\ wpc' = [wpc EXCEPT ![n] =
       CASE word[n] = "activeContinuation" -> "exchange"
         [] word[n] \in {"cancelled", "cancelledBeforeStarted"} -> "done"
         [] OTHER -> "fatal"]
  /\ word' = IF word[n] = "cancelled" THEN [word EXCEPT ![n] = "freed"] ELSE word
  /\ UNCHANGED <<sleepVars, contVars, callVars, cancelVars>>

WakeExchangeMutant(n) ==  \* stores "finished" whatever the word holds by now
  /\ wpc[n] = "exchange"
  /\ word' = [word EXCEPT ![n] = "finished"]
  /\ Resume(n, "value")
  /\ wpc' = [wpc EXCEPT ![n] = "done"]
  /\ UNCHANGED <<sleepVars, callVars, cancelVars>>

WakeExchange(n) ==
  /\ wpc[n] = "exchange"
  /\ IF word[n] = "activeContinuation"
     THEN /\ word' = [word EXCEPT ![n] = "finished"]
          /\ Resume(n, "value")
          /\ wpc' = [wpc EXCEPT ![n] = "done"]
     ELSE /\ wpc' = [wpc EXCEPT ![n] = "load"]
          /\ UNCHANGED <<word, contVars>>
  /\ UNCHANGED <<sleepVars, callVars, cancelVars>>

-----------------------------------------------------------------------------
(* onSleepCancel, run by w.                                                *)

CancelLoad(w) ==
  /\ hpc[w] = "load"
  /\ hseen' = [hseen EXCEPT ![w] = word[visit[w]]]
  /\ hpc' = [hpc EXCEPT ![w] =
       IF word[visit[w]] \in {"notStarted", "activeContinuation"}
       THEN "exchange" ELSE "idle"]
  /\ UNCHANGED <<word, sleepVars, contVars, wpc, visit, cancelVars>>

CancelExchange(w) ==
  /\ hpc[w] = "exchange"
  /\ LET n == visit[w] IN
       \/ /\ word[n] = hseen[w] /\ hseen[w] = "notStarted"
          /\ word' = [word EXCEPT ![n] = "cancelledBeforeStarted"]
          /\ hpc' = [hpc EXCEPT ![w] = "idle"]
          /\ UNCHANGED contVars
       \/ /\ word[n] = hseen[w] /\ hseen[w] = "activeContinuation"
          /\ word' = [word EXCEPT ![n] = "cancelled"]
          /\ Resume(n, "error")
          /\ hpc' = [hpc EXCEPT ![w] = "idle"]
       \/ /\ word[n] # hseen[w]
          /\ hpc' = [hpc EXCEPT ![w] = "load"]
          /\ UNCHANGED <<word, contVars>>
  /\ UNCHANGED <<sleepVars, wpc, hseen, visit, cancelVars>>

-----------------------------------------------------------------------------
(* swift_task_cancel, as far as a sleeping task sees it (TaskStatus.tla):  *)
(* the bit is set first; the record list is locked later, if the task had  *)
(* a record, which may be one that has nothing to do with the sleep.       *)
Cancel ==
  /\ ~ cancelled /\ cancelled' = TRUE
  /\ cpc' \in IF registered THEN {"lock"} ELSE {"lock", "done"}
  /\ UNCHANGED <<word, sleepVars, contVars, wpc, callVars>>

LockAndCallHandler ==
  /\ cpc = "lock" /\ cpc' = "visit"
  /\ IF registered
     THEN /\ hpc' = [hpc EXCEPT !["canceller"] = "load"]
          /\ visit' = [visit EXCEPT !["canceller"] = cur]
     ELSE UNCHANGED <<hpc, visit>>
  /\ UNCHANGED <<word, sleepVars, contVars, wpc, hseen, cancelled>>

UnlockRecords ==
  /\ cpc = "visit" /\ hpc["canceller"] = "idle"
  /\ cpc' = "done"
  /\ UNCHANGED <<word, sleepVars, contVars, wpc, callVars, cancelled>>

-----------------------------------------------------------------------------
Sleeper ==
  \/ BeginSleep \/ LoadState \/ Activate \/ ScheduleWake \/ AwaitContinuation
  \/ RemoveHandler \/ Inspect \/ Deallocate \/ Rethrow

WakeJob(n) == TimerFires(n) \/ WakeLoad(n) \/ WakeExchange(n)
Handler(w) == CancelLoad(w) \/ CancelExchange(w)

Next ==
  \/ Sleeper
  \/ \E n \in Sleeps : WakeJob(n)
  \/ \E w \in Callers : Handler(w)
  \/ Cancel \/ LockAndCallHandler \/ UnlockRecords

Spec == Init /\ [][Next]_vars

(* Threads run, timers fire; nobody has to cancel.                         *)
Fairness ==
  /\ WF_vars(Sleeper)
  /\ \A n \in Sleeps : WF_vars(WakeJob(n))
  /\ \A w \in Callers : WF_vars(Handler(w))
  /\ WF_vars(LockAndCallHandler) /\ WF_vars(UnlockRecords)

FairSpec == Spec /\ Fairness

-----------------------------------------------------------------------------
(* Properties.                                                             *)

(* Whoever is going to read, exchange or free the token finds it           *)
(* allocated: the sleeper, the wake job from the moment its timer starts,  *)
(* and every call of the handler.                                          *)
TokenOutlivesItsUsers ==
  /\ spc \in {"load", "exchange", "inspect", "deallocate"} => Allocated(cur)
  /\ \A n \in Sleeps : wpc[n] \in {"scheduled", "load", "exchange"} => Allocated(n)
  /\ \A w \in Callers : hpc[w] # "idle" => Allocated(visit[w])

(* Timer and cancellation never both resume the unsafe continuation.       *)
ResumedAtMostOnce == \A n \in Sleeps : resumed[n] <= 1

(* None of the fatalError branches of onSleepWake and sleep is reached.    *)
NoFatalError == spc # "fatal" /\ \A n \in Sleeps : wpc[n] # "fatal"

(* "Suspends the current task for at least the given duration": a sleep    *)
(* returns normally only after its timer, and throws only if cancelled.    *)
(* "If the task is canceled before the time ends, this function throws":   *)
(* once a cancellation has been delivered no sleep still waits for a timer.*)
OutcomeJustified ==
  /\ \A n \in Sleeps : /\ outcome[n] = "returned" => wpc[n] = "done"
                       /\ outcome[n] = "threw" => cancelled
  /\ cpc = "done" /\ spc = "await" => resumed[cur] > 0

(* Every sleep ends, and every token is freed.                             *)
SleepEnds ==
  \A n \in Sleeps : /\ cur = n ~> outcome[n] # "none"
                    /\ Allocated(n) ~> word[n] = "freed"
=============================================================================
