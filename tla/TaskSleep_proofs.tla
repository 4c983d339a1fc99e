-------------------------- MODULE TaskSleep_proofs --------------------------
(***************************************************************************)
(* Proofs about TaskSleep, for any number of sleeps.  A sleep goes through *)
(* few shapes, each of which says together what its token holds, where its *)
(* wake job is and how often its continuation was resumed; the shape of    *)
(* the current sleep follows from where the sleeping task is.              *)
(***************************************************************************)
EXTENDS TaskSleep, TLAPS

Pending == {"scheduled", "load", "exchange"}

TypeOK ==
  /\ word \in [Sleeps -> States \cup {"unallocated", "freed"}]
  /\ cur \in 0 .. MaxSleeps
  /\ registered \in BOOLEAN
  /\ resumed \in [Sleeps -> Nat]
  /\ result  \in [Sleeps -> {"none", "value", "error"}]
  /\ wpc \in [Sleeps -> Pending \cup {"none", "done"}]
  /\ hpc \in [Callers -> {"idle", "load", "exchange"}]
  /\ hseen \in [Callers -> States \cup {"unallocated", "freed"}]
  /\ visit \in [Callers -> Sleeps]
  /\ cpc \in {"idle", "lock", "visit", "done"}

(* The shapes of a sleep.                                                  *)
Untouched(n) == word[n] = "unallocated" /\ wpc[n] = "none" /\ resumed[n] = 0

Unstarted(n) ==
  /\ word[n] \in {"notStarted", "cancelledBeforeStarted"}
  /\ wpc[n] = "none" /\ resumed[n] = 0

Timed(n) == word[n] = "activeContinuation" /\ wpc[n] \in Pending /\ resumed[n] = 0

Woken(n) ==     \* by its timer, or as it was cancelled before it started
  /\ \/ word[n] = "finished" /\ wpc[n] = "done"
     \/ word[n] = "cancelledBeforeStarted" /\ wpc[n] = "none"
  /\ resumed[n] = 1 /\ result[n] = "value"

Forsaken(n) ==  \* cancelled: the token is left to the wake job
  /\ \/ word[n] = "cancelled" /\ wpc[n] \in Pending
     \/ word[n] = "freed" /\ wpc[n] = "done"
  /\ resumed[n] = 1 /\ result[n] = "error"

Over(n) ==
  /\ \/ word[n] = "cancelled" /\ wpc[n] \in Pending
     \/ word[n] = "freed" /\ wpc[n] \in {"none", "done"}
  /\ resumed[n] = 1

Unscheduled(n) ==  \* the continuation is stored, the wake job not yet created
  /\ wpc[n] = "none"
  /\ \/ word[n] = "activeContinuation" /\ resumed[n] = 0
     \/ word[n] = "cancelled" /\ resumed[n] = 1 /\ result[n] = "error"

(* The shape of the current sleep.                                         *)
Current ==
  \/ spc = "awake" /\ (cur = 0 \/ Over(cur))
  \/ spc \in {"load", "exchange"} /\ cur # 0 /\ Unstarted(cur)
  \/ spc = "schedule" /\ cur # 0 /\ Unscheduled(cur)
  \/ spc = "await" /\ cur # 0 /\ (Timed(cur) \/ Woken(cur) \/ Forsaken(cur))
  \/ spc = "leave" /\ cur # 0 /\ (Woken(cur) \/ Forsaken(cur))
  \/ spc \in {"inspect", "deallocate"} /\ cur # 0 /\ Woken(cur)
  \/ spc = "throw" /\ cur # 0 /\ Forsaken(cur)

(* Who runs the handler is at the current sleep, whose handler is still    *)
(* registered.  The canceller is the only one who stores "cancelled", and  *)
(* it does so last: this is why the wake job may free the token.           *)
HandlerInv ==
  /\ registered <=> spc \in {"load", "exchange", "schedule", "await", "leave"}
  /\ \A w \in Callers : hpc[w] # "idle" => visit[w] = cur /\ registered
  /\ \A w \in Callers : hpc[w] = "exchange" =>
                          hseen[w] \in {"notStarted", "activeContinuation"}
  /\ hpc["sleeper"] # "idle" => spc = "load"
  /\ hpc["canceller"] # "idle" => cpc = "visit"
  /\ cpc # "idle" => cancelled
  /\ \A n \in Sleeps : word[n] = "cancelled" \/ (n = cur /\ word[n] = "freed" /\ registered) =>
                         cpc \in {"visit", "done"} /\ hpc["canceller"] = "idle"

SleepInv ==
  /\ TypeOK
  /\ \A n \in Sleeps : /\ n > cur => Untouched(n)
                       /\ n < cur => Over(n)
  /\ Current
  /\ HandlerInv
-----------------------------------------------------------------------------
LEMMA InitSleep == Init => SleepInv
<1> SUFFICES ASSUME Init PROVE SleepInv
  OBVIOUS
<1> USE DEF Init
<1>1. TypeOK
  <2>1. 1 \in Sleeps /\ 0 \in 0 .. MaxSleeps
    BY MaxSleepsAssumption DEF Sleeps
  <2> QED  BY <2>1 DEF TypeOK, States, Pending
<1>2. Current
  BY DEF Current
<1>3. \A n \in Sleeps : (n > cur => Untouched(n)) /\ (n < cur => Over(n))
  BY MaxSleepsAssumption DEF Untouched, Sleeps
<1>4. HandlerInv
  BY DEF HandlerInv, Callers
<1> QED  BY <1>1, <1>2, <1>3, <1>4 DEF SleepInv

(* The steps of the sleeping task.                                         *)
LEMMA BeginKeepsSleep == SleepInv /\ BeginSleep => SleepInv'
<1> SUFFICES ASSUME SleepInv, BeginSleep PROVE SleepInv'
  OBVIOUS
<1> USE MaxSleepsAssumption DEF Sleeps, Callers
<1>1. cur + 1 \in Sleeps /\ Untouched(cur + 1) /\ (cur = 0 \/ Over(cur))
  BY DEF SleepInv, TypeOK, BeginSleep, Current
<1>2. TypeOK'
  BY <1>1 DEF SleepInv, TypeOK, BeginSleep, States, contVars, cancelVars
<1>3. Current'
  BY <1>1 DEF SleepInv, TypeOK, BeginSleep, Current, Untouched, Unstarted, contVars
<1>4. \A n \in Sleeps : (n > cur => Untouched(n))' /\ (n < cur => Over(n))'
  BY <1>1 DEF SleepInv, TypeOK, BeginSleep, Untouched, Over, contVars
<1>5. HandlerInv'
  BY <1>1 DEF SleepInv, TypeOK, BeginSleep, HandlerInv, contVars, cancelVars,
     Untouched, RecordsLocked
<1> QED  BY <1>2, <1>3, <1>4, <1>5 DEF SleepInv

LEMMA LoadStateKeepsSleep == SleepInv /\ LoadState => SleepInv'
<1> SUFFICES ASSUME SleepInv, LoadState PROVE SleepInv'
  OBVIOUS
<1> USE MaxSleepsAssumption
    DEF Sleeps, Callers, LoadState, contVars, callVars, cancelVars, Resume,
        InOperation, RecordsLocked
<1>1. TypeOK'
  BY DEF SleepInv, TypeOK, States, Current, Untouched, Unstarted, Timed, Woken,
     Forsaken, Over, Unscheduled, Pending
<1>2. Current'
  BY DEF SleepInv, TypeOK, Current, HandlerInv, Untouched, Unstarted, Timed, Woken,
     Forsaken, Over, Unscheduled, Pending
<1>3. \A n \in Sleeps : (n > cur => Untouched(n))' /\ (n < cur => Over(n))'
  BY DEF SleepInv, TypeOK, Current, Untouched, Over
<1>4. HandlerInv'
  BY DEF SleepInv, TypeOK, HandlerInv, Current, Untouched, Unstarted, Timed, Woken,
     Forsaken, Over, Unscheduled, Pending
<1> QED  BY <1>1, <1>2, <1>3, <1>4 DEF SleepInv

LEMMA ActivateKeepsSleep == SleepInv /\ Activate => SleepInv'
<1> SUFFICES ASSUME SleepInv, Activate PROVE SleepInv'
  OBVIOUS
<1> USE MaxSleepsAssumption
    DEF Sleeps, Callers, Activate, contVars, callVars, cancelVars, Resume,
        InOperation, RecordsLocked
<1>1. TypeOK'
  BY DEF SleepInv, TypeOK, States, Current, Untouched, Unstarted, Timed, Woken,
     Forsaken, Over, Unscheduled, Pending
<1>2. Current'
  BY DEF SleepInv, TypeOK, Current, HandlerInv, Untouched, Unstarted, Timed, Woken,
     Forsaken, Over, Unscheduled, Pending
<1>3. \A n \in Sleeps : (n > cur => Untouched(n))' /\ (n < cur => Over(n))'
  BY DEF SleepInv, TypeOK, Current, Untouched, Over
<1>4. HandlerInv'
  BY DEF SleepInv, TypeOK, HandlerInv, Current, Untouched, Unstarted, Timed, Woken,
     Forsaken, Over, Unscheduled, Pending
<1> QED  BY <1>1, <1>2, <1>3, <1>4 DEF SleepInv

LEMMA ScheduleWakeKeepsSleep == SleepInv /\ ScheduleWake => SleepInv'
<1> SUFFICES ASSUME SleepInv, ScheduleWake PROVE SleepInv'
  OBVIOUS
<1> USE MaxSleepsAssumption
    DEF Sleeps, Callers, ScheduleWake, contVars, callVars, cancelVars, Resume,
        InOperation, RecordsLocked
<1>1. TypeOK'
  BY DEF SleepInv, TypeOK, States, Current, Untouched, Unstarted, Timed, Woken,
     Forsaken, Over, Unscheduled, Pending
<1>2. Current'
  BY DEF SleepInv, TypeOK, Current, HandlerInv, Untouched, Unstarted, Timed, Woken,
     Forsaken, Over, Unscheduled, Pending
<1>3. \A n \in Sleeps : (n > cur => Untouched(n))' /\ (n < cur => Over(n))'
  BY DEF SleepInv, TypeOK, Current, Untouched, Over
<1>4. HandlerInv'
  BY DEF SleepInv, TypeOK, HandlerInv, Current, Untouched, Unstarted, Timed, Woken,
     Forsaken, Over, Unscheduled, Pending
<1> QED  BY <1>1, <1>2, <1>3, <1>4 DEF SleepInv

LEMMA AwaitContinuationKeepsSleep == SleepInv /\ AwaitContinuation => SleepInv'
<1> SUFFICES ASSUME SleepInv, AwaitContinuation PROVE SleepInv'
  OBVIOUS
<1> USE MaxSleepsAssumption
    DEF Sleeps, Callers, AwaitContinuation, contVars, callVars, cancelVars, Resume,
        InOperation, RecordsLocked
<1>1. TypeOK'
  BY DEF SleepInv, TypeOK, States, Current, Untouched, Unstarted, Timed, Woken,
     Forsaken, Over, Unscheduled, Pending
<1>2. Current'
  BY DEF SleepInv, TypeOK, Current, HandlerInv, Untouched, Unstarted, Timed, Woken,
     Forsaken, Over, Unscheduled, Pending
<1>3. \A n \in Sleeps : (n > cur => Untouched(n))' /\ (n < cur => Over(n))'
  BY DEF SleepInv, TypeOK, Current, Untouched, Over
<1>4. HandlerInv'
  BY DEF SleepInv, TypeOK, HandlerInv, Current, Untouched, Unstarted, Timed, Woken,
     Forsaken, Over, Unscheduled, Pending
<1> QED  BY <1>1, <1>2, <1>3, <1>4 DEF SleepInv

LEMMA RemoveHandlerKeepsSleep == SleepInv /\ RemoveHandler => SleepInv'
<1> SUFFICES ASSUME SleepInv, RemoveHandler PROVE SleepInv'
  OBVIOUS
<1> USE MaxSleepsAssumption
    DEF Sleeps, Callers, RemoveHandler, contVars, callVars, cancelVars, Resume,
        InOperation, RecordsLocked
<1>1. TypeOK'
  BY DEF SleepInv, TypeOK, States, Current, Untouched, Unstarted, Timed, Woken,
     Forsaken, Over, Unscheduled, Pending
<1>2. Current'
  BY DEF SleepInv, TypeOK, Current, HandlerInv, Untouched, Unstarted, Timed, Woken,
     Forsaken, Over, Unscheduled, Pending
<1>3. \A n \in Sleeps : (n > cur => Untouched(n))' /\ (n < cur => Over(n))'
  BY DEF SleepInv, TypeOK, Current, Untouched, Over
<1>4. HandlerInv'
  BY DEF SleepInv, TypeOK, HandlerInv, Current, Untouched, Unstarted, Timed, Woken,
     Forsaken, Over, Unscheduled, Pending
<1> QED  BY <1>1, <1>2, <1>3, <1>4 DEF SleepInv

LEMMA InspectKeepsSleep == SleepInv /\ Inspect => SleepInv'
<1> SUFFICES ASSUME SleepInv, Inspect PROVE SleepInv'
  OBVIOUS
<1> USE MaxSleepsAssumption
    DEF Sleeps, Callers, Inspect, contVars, callVars, cancelVars, Resume,
        InOperation, RecordsLocked
<1>1. TypeOK'
  BY DEF SleepInv, TypeOK, States, Current, Untouched, Unstarted, Timed, Woken,
     Forsaken, Over, Unscheduled, Pending
<1>2. Current'
  BY DEF SleepInv, TypeOK, Current, HandlerInv, Untouched, Unstarted, Timed, Woken,
     Forsaken, Over, Unscheduled, Pending
<1>3. \A n \in Sleeps : (n > cur => Untouched(n))' /\ (n < cur => Over(n))'
  BY DEF SleepInv, TypeOK, Current, Untouched, Over
<1>4. HandlerInv'
  BY DEF SleepInv, TypeOK, HandlerInv, Current, Untouched, Unstarted, Timed, Woken,
     Forsaken, Over, Unscheduled, Pending
<1> QED  BY <1>1, <1>2, <1>3, <1>4 DEF SleepInv

LEMMA DeallocateKeepsSleep == SleepInv /\ Deallocate => SleepInv'
<1> SUFFICES ASSUME SleepInv, Deallocate PROVE SleepInv'
  OBVIOUS
<1> USE MaxSleepsAssumption
    DEF Sleeps, Callers, Deallocate, contVars, callVars, cancelVars, Resume,
        InOperation, RecordsLocked
<1>1. TypeOK'
  BY DEF SleepInv, TypeOK, States, Current, Untouched, Unstarted, Timed, Woken,
     Forsaken, Over, Unscheduled, Pending
<1>2. Current'
  BY DEF SleepInv, TypeOK, Current, HandlerInv, Untouched, Unstarted, Timed, Woken,
     Forsaken, Over, Unscheduled, Pending
<1>3. \A n \in Sleeps : (n > cur => Untouched(n))' /\ (n < cur => Over(n))'
  BY DEF SleepInv, TypeOK, Current, Untouched, Over
<1>4. HandlerInv'
  BY DEF SleepInv, TypeOK, HandlerInv, Current, Untouched, Unstarted, Timed, Woken,
     Forsaken, Over, Unscheduled, Pending
<1> QED  BY <1>1, <1>2, <1>3, <1>4 DEF SleepInv

LEMMA RethrowKeepsSleep == SleepInv /\ Rethrow => SleepInv'
<1> SUFFICES ASSUME SleepInv, Rethrow PROVE SleepInv'
  OBVIOUS
<1> USE MaxSleepsAssumption
    DEF Sleeps, Callers, Rethrow, contVars, callVars, cancelVars, Resume,
        InOperation, RecordsLocked
<1>1. TypeOK'
  BY DEF SleepInv, TypeOK, States, Current, Untouched, Unstarted, Timed, Woken,
     Forsaken, Over, Unscheduled, Pending
<1>2. Current'
  BY DEF SleepInv, TypeOK, Current, HandlerInv, Untouched, Unstarted, Timed, Woken,
     Forsaken, Over, Unscheduled, Pending
<1>3. \A n \in Sleeps : (n > cur => Untouched(n))' /\ (n < cur => Over(n))'
  BY DEF SleepInv, TypeOK, Current, Untouched, Over
<1>4. HandlerInv'
  BY DEF SleepInv, TypeOK, HandlerInv, Current, Untouched, Unstarted, Timed, Woken,
     Forsaken, Over, Unscheduled, Pending
<1> QED  BY <1>1, <1>2, <1>3, <1>4 DEF SleepInv

(* The steps of the wake jobs and of the handler.                          *)
LEMMA TimerFiresKeepsSleep ==
  ASSUME SleepInv, NEW k \in Sleeps, TimerFires(k) PROVE SleepInv'
<1> USE MaxSleepsAssumption
    DEF Sleeps, Callers, TimerFires, contVars, callVars, cancelVars, sleepVars, Resume
<1>1. TypeOK'
  BY DEF SleepInv, TypeOK, States, Current, HandlerInv, Untouched, Unstarted, Timed,
     Woken, Forsaken, Over, Unscheduled, Pending
<1>2. Current'
  BY DEF SleepInv, TypeOK, Current, HandlerInv, Untouched, Unstarted, Timed, Woken,
     Forsaken, Over, Unscheduled, Pending
<1>3. \A n \in Sleeps : (n > cur => Untouched(n))' /\ (n < cur => Over(n))'
  BY DEF SleepInv, TypeOK, Current, HandlerInv, Untouched, Unstarted, Timed, Woken,
     Forsaken, Over, Unscheduled, Pending
<1>4. HandlerInv'
  BY DEF SleepInv, TypeOK, HandlerInv, Current, Untouched, Unstarted, Timed, Woken,
     Forsaken, Over, Unscheduled, Pending
<1> QED  BY <1>1, <1>2, <1>3, <1>4 DEF SleepInv

LEMMA WakeLoadKeepsSleep ==
  ASSUME SleepInv, NEW k \in Sleeps, WakeLoad(k) PROVE SleepInv'
<1> USE MaxSleepsAssumption
    DEF Sleeps, Callers, WakeLoad, contVars, callVars, cancelVars, sleepVars, Resume
<1>1. TypeOK'
  BY DEF SleepInv, TypeOK, States, Current, HandlerInv, Untouched, Unstarted, Timed,
     Woken, Forsaken, Over, Unscheduled, Pending
<1>2. Current'
  BY DEF SleepInv, TypeOK, Current, HandlerInv, Untouched, Unstarted, Timed, Woken,
     Forsaken, Over, Unscheduled, Pending
<1>3. \A n \in Sleeps : (n > cur => Untouched(n))' /\ (n < cur => Over(n))'
  BY DEF SleepInv, TypeOK, Current, HandlerInv, Untouched, Unstarted, Timed, Woken,
     Forsaken, Over, Unscheduled, Pending
<1>4. HandlerInv'
  BY DEF SleepInv, TypeOK, HandlerInv, Current, Untouched, Unstarted, Timed, Woken,
     Forsaken, Over, Unscheduled, Pending
<1> QED  BY <1>1, <1>2, <1>3, <1>4 DEF SleepInv

LEMMA WakeExchangeKeepsSleep ==
  ASSUME SleepInv, NEW k \in Sleeps, WakeExchange(k) PROVE SleepInv'
<1> USE MaxSleepsAssumption DEF Sleeps, WakeExchange, callVars, cancelVars, sleepVars
<1>1. CASE word[k] # "activeContinuation"
  <2>1. wpc' = [wpc EXCEPT ![k] = "load"] /\ UNCHANGED <<word, contVars>>
    BY <1>1
  <2>2. TypeOK'
    BY <2>1 DEF SleepInv, TypeOK, contVars, Pending
  <2>3. Current'
    BY <2>1 DEF SleepInv, TypeOK, Current, contVars, Untouched, Unstarted, Timed,
       Woken, Forsaken, Over, Unscheduled, Pending
  <2>4. \A n \in Sleeps : (n > cur => Untouched(n))' /\ (n < cur => Over(n))'
    BY <2>1 DEF SleepInv, TypeOK, contVars, Untouched, Over, Pending
  <2>5. HandlerInv'
    BY <2>1 DEF SleepInv, HandlerInv, contVars
  <2> QED  BY <2>2, <2>3, <2>4, <2>5 DEF SleepInv
<1>2. CASE word[k] = "activeContinuation"
  <2>1. /\ word' = [word EXCEPT ![k] = "finished"] /\ wpc' = [wpc EXCEPT ![k] = "done"]
        /\ resumed' = [resumed EXCEPT ![k] = @ + 1] /\ result' = [result EXCEPT ![k] = "value"]
    BY <1>2 DEF Resume
  <2>2. k = cur /\ Timed(k) /\ spc = "await"
    BY <1>2 DEF SleepInv, TypeOK, Current, Untouched, Unstarted, Timed, Woken,
       Forsaken, Over, Unscheduled, Pending
  <2>3. TypeOK'
    BY <2>1 DEF SleepInv, TypeOK, States
  <2>4. Woken(cur)'
    BY <2>1, <2>2 DEF SleepInv, TypeOK, Timed, Woken
  <2>5. Current'
    BY <2>2, <2>4 DEF Current
  <2>6. \A n \in Sleeps : (n > cur => Untouched(n))' /\ (n < cur => Over(n))'
    BY <2>1, <2>2 DEF SleepInv, TypeOK, Untouched, Over
  <2>7. HandlerInv'
    BY <2>1, <2>2 DEF SleepInv, TypeOK, HandlerInv
  <2> QED  BY <2>3, <2>5, <2>6, <2>7 DEF SleepInv
<1> QED  BY <1>1, <1>2

LEMMA CancelLoadKeepsSleep ==
  ASSUME SleepInv, NEW w \in Callers, CancelLoad(w) PROVE SleepInv'
<1> USE MaxSleepsAssumption
    DEF Sleeps, Callers, CancelLoad, contVars, callVars, cancelVars, sleepVars, Resume
<1>1. TypeOK'
  BY DEF SleepInv, TypeOK, States, Current, HandlerInv, Untouched, Unstarted, Timed,
     Woken, Forsaken, Over, Unscheduled, Pending
<1>2. Current'
  BY DEF SleepInv, TypeOK, Current, HandlerInv, Untouched, Unstarted, Timed, Woken,
     Forsaken, Over, Unscheduled, Pending
<1>3. \A n \in Sleeps : (n > cur => Untouched(n))' /\ (n < cur => Over(n))'
  BY DEF SleepInv, TypeOK, Current, HandlerInv, Untouched, Unstarted, Timed, Woken,
     Forsaken, Over, Unscheduled, Pending
<1>4. HandlerInv'
  BY DEF SleepInv, TypeOK, HandlerInv, Current, Untouched, Unstarted, Timed, Woken,
     Forsaken, Over, Unscheduled, Pending
<1> QED  BY <1>1, <1>2, <1>3, <1>4 DEF SleepInv

LEMMA CancelExchangeKeepsSleep ==
  ASSUME SleepInv, NEW w \in Callers, CancelExchange(w) PROVE SleepInv'
<1> DEFINE k == visit[w]
<1> USE MaxSleepsAssumption DEF Sleeps
<1>1. /\ k \in Sleeps /\ k = cur /\ registered /\ hpc[w] = "exchange"
      /\ UNCHANGED <<cur, spc, registered, wpc, hseen, visit, cancelled, cpc>>
  BY DEF SleepInv, TypeOK, HandlerInv, CancelExchange, sleepVars, cancelVars
<1>2. CASE word[k] # hseen[w]
  <2>1. hpc' = [hpc EXCEPT ![w] = "load"] /\ UNCHANGED <<word, resumed, result>>
    BY <1>2 DEF CancelExchange, contVars
  <2>2. TypeOK'
    BY <1>1, <2>1 DEF SleepInv, TypeOK
  <2>3. Current' /\ \A n \in Sleeps : (n > cur => Untouched(n))' /\ (n < cur => Over(n))'
    BY <1>1, <2>1 DEF SleepInv, Current, Untouched, Unstarted, Timed, Woken,
       Forsaken, Over, Unscheduled, Pending
  <2>4. HandlerInv'
    BY <1>1, <2>1 DEF SleepInv, TypeOK, HandlerInv, Callers
  <2> QED  BY <2>2, <2>3, <2>4 DEF SleepInv
<1>3. CASE word[k] = hseen[w] /\ hseen[w] = "notStarted"
  <2>1. /\ word' = [word EXCEPT ![k] = "cancelledBeforeStarted"]
        /\ hpc' = [hpc EXCEPT ![w] = "idle"] /\ UNCHANGED <<resumed, result>>
    BY <1>3 DEF CancelExchange, contVars
  <2>2. TypeOK'
    BY <1>1, <2>1 DEF SleepInv, TypeOK, States
  <2>3. spc \in {"load", "exchange"} /\ Unstarted(k)
    BY <1>1, <1>3 DEF SleepInv, Current, Untouched, Unstarted, Timed, Woken,
       Forsaken, Over, Unscheduled, Pending
  <2>4. Current'
    BY <1>1, <2>1, <2>3 DEF SleepInv, TypeOK, Current, Unstarted
  <2>5. \A n \in Sleeps : (n > cur => Untouched(n))' /\ (n < cur => Over(n))'
    BY <1>1, <2>1 DEF SleepInv, TypeOK, Untouched, Over
  <2>6. HandlerInv'
    BY <1>1, <2>1 DEF SleepInv, TypeOK, HandlerInv, Callers
  <2> QED  BY <2>2, <2>4, <2>5, <2>6 DEF SleepInv
<1>4. CASE word[k] = hseen[w] /\ hseen[w] = "activeContinuation"
  <2>1. /\ word' = [word EXCEPT ![k] = "cancelled"]
        /\ hpc' = [hpc EXCEPT ![w] = "idle"]
        /\ resumed' = [resumed EXCEPT ![k] = @ + 1] /\ result' = [result EXCEPT ![k] = "error"]
    BY <1>4 DEF CancelExchange, Resume
  <2>2. TypeOK'
    BY <1>1, <2>1 DEF SleepInv, TypeOK, States
  <2>3. \/ spc = "schedule" /\ Unscheduled(k)
        \/ spc = "await" /\ Timed(k)
    BY <1>1, <1>4 DEF SleepInv, Current, Untouched, Unstarted, Timed, Woken,
       Forsaken, Over, Unscheduled, Pending
  <2>4. Current'
    BY <1>1, <1>4, <2>1, <2>3 DEF SleepInv, TypeOK, Current, Unscheduled, Timed,
       Forsaken
  <2>5. \A n \in Sleeps : (n > cur => Untouched(n))' /\ (n < cur => Over(n))'
    BY <1>1, <2>1 DEF SleepInv, TypeOK, Untouched, Over
  <2>6. w = "canceller" /\ cpc = "visit"
    BY <1>1, <2>3 DEF SleepInv, HandlerInv, Callers
  <2>7. HandlerInv'
    BY <1>1, <2>1, <2>3, <2>6 DEF SleepInv, TypeOK, HandlerInv, Callers
  <2> QED  BY <2>2, <2>4, <2>5, <2>7 DEF SleepInv
<1> QED  BY <1>1, <1>2, <1>3, <1>4 DEF SleepInv, HandlerInv

(* The steps of the cancelling thread, which touch no sleep.               *)
LEMMA CancellerKeepsSleep ==
  SleepInv /\ (Cancel \/ LockAndCallHandler \/ UnlockRecords) => SleepInv'
<1> SUFFICES ASSUME SleepInv, Cancel \/ LockAndCallHandler \/ UnlockRecords PROVE SleepInv'
  OBVIOUS
<1> USE MaxSleepsAssumption
    DEF Sleeps, Callers, Cancel, LockAndCallHandler, UnlockRecords, contVars,
        callVars, sleepVars
<1>1. TypeOK'
  BY DEF SleepInv, TypeOK, HandlerInv, Current
<1>2. Current'
  BY DEF SleepInv, Current, Untouched, Unstarted, Timed, Woken, Forsaken, Over,
     Unscheduled, Pending
<1>3. \A n \in Sleeps : (n > cur => Untouched(n))' /\ (n < cur => Over(n))'
  BY DEF SleepInv, Untouched, Over
<1>4. HandlerInv'
  BY DEF SleepInv, TypeOK, HandlerInv
<1> QED  BY <1>1, <1>2, <1>3, <1>4 DEF SleepInv

LEMMA NextKeepsSleep == SleepInv /\ [Next]_vars => SleepInv'
<1> SUFFICES ASSUME SleepInv, [Next]_vars PROVE SleepInv'
  OBVIOUS
<1>1. CASE Sleeper
  BY <1>1, BeginKeepsSleep, LoadStateKeepsSleep, ActivateKeepsSleep, ScheduleWakeKeepsSleep,
     AwaitContinuationKeepsSleep, RemoveHandlerKeepsSleep, InspectKeepsSleep,
     DeallocateKeepsSleep, RethrowKeepsSleep DEF Sleeper
<1>2. CASE \E n \in Sleeps : WakeJob(n)
  BY <1>2, TimerFiresKeepsSleep, WakeLoadKeepsSleep, WakeExchangeKeepsSleep DEF WakeJob
<1>3. CASE \E w \in Callers : Handler(w)
  BY <1>3, CancelLoadKeepsSleep, CancelExchangeKeepsSleep DEF Handler
<1>4. CASE Cancel \/ LockAndCallHandler \/ UnlockRecords
  BY <1>4, CancellerKeepsSleep
<1>5. CASE UNCHANGED vars
  BY <1>5 DEF vars, sleepVars, contVars, callVars, cancelVars, SleepInv, TypeOK,
     Current,
     HandlerInv, Untouched, Unstarted, Timed, Woken, Forsaken, Over, Unscheduled, Pending
<1> QED  BY <1>1, <1>2, <1>3, <1>4, <1>5 DEF Next

LEMMA SleepInvariant == Spec => []SleepInv
  BY InitSleep, NextKeepsSleep, PTL DEF Spec

-----------------------------------------------------------------------------
(* Nobody counts references to the token, and nobody uses it after it was  *)
(* freed: not the sleeper, not the wake job, not a handler between its     *)
(* load and its exchange, in any number of consecutive sleeps.             *)
THEOREM TokenAliveWhileUsed == Spec => []TokenOutlivesItsUsers
<1>1. ASSUME SleepInv PROVE TokenOutlivesItsUsers
  <2> USE <1>1, MaxSleepsAssumption DEF SleepInv, TypeOK, Sleeps, Callers, Allocated
  <2>1. spc \in {"load", "exchange", "inspect", "deallocate"} => Allocated(cur)
    BY DEF Current, Unstarted, Woken
  <2>2. ASSUME NEW n \in Sleeps, wpc[n] \in Pending PROVE Allocated(n)
    BY <2>2 DEF Current, Untouched, Unstarted, Timed, Woken, Forsaken, Over,
       Unscheduled, Pending
  <2>3. ASSUME NEW w \in Callers, hpc[w] # "idle" PROVE Allocated(visit[w])
    BY <2>3 DEF HandlerInv, Current, Untouched, Unstarted, Timed, Woken, Forsaken,
       Over, Unscheduled, Pending
  <2> QED  BY <2>1, <2>2, <2>3 DEF TokenOutlivesItsUsers, Pending
<1> QED  BY SleepInvariant, <1>1, PTL

(* The timer and the cancellation handler race to resume an unsafe         *)
(* continuation: at most one of them does.                                 *)
THEOREM OneResumption == Spec => []ResumedAtMostOnce
<1>1. SleepInv => ResumedAtMostOnce
  BY MaxSleepsAssumption
  DEF SleepInv, TypeOK, Current, ResumedAtMostOnce, Sleeps, Untouched, Unstarted,
      Timed, Woken, Forsaken, Over, Unscheduled, Pending
<1> QED  BY SleepInvariant, <1>1, PTL

(* The fatalError branches of sleep and onSleepWake are dead code.         *)
THEOREM FatalErrorUnreachable == Spec => []NoFatalError
<1>1. SleepInv => NoFatalError
  BY DEF SleepInv, TypeOK, Current, NoFatalError, Pending
<1> QED  BY SleepInvariant, <1>1, PTL
-----------------------------------------------------------------------------
(* Why a sleep ends as it does.  A token that says "cancelled" was marked  *)
(* by a handler, which runs only in a cancelled task; and a cancellation   *)
(* that has been delivered, by the canceller who went through the records  *)
(* or by the task itself that registered its handler later, has found the  *)
(* token and left it neither unstarted nor active.                         *)
Marked(n) == word[n] \in {"cancelled", "cancelledBeforeStarted"} \/ result[n] = "error"

Delivered ==
  /\ cpc = "done" \/ (cpc = "visit" /\ hpc["canceller"] = "idle")
  /\ registered /\ hpc["sleeper"] = "idle"

OutcomeInv ==
  /\ outcome \in [Sleeps -> {"none", "returned", "threw"}]
  /\ cancelled \in BOOLEAN
  /\ hpc["sleeper"] # "idle" => cancelled
  /\ \A n \in Sleeps : /\ Marked(n) => cancelled
                       /\ outcome[n] = "returned" => wpc[n] = "done"
                       /\ outcome[n] = "threw" => cancelled
  /\ Delivered => word[cur] \notin {"notStarted", "activeContinuation"}

LEMMA InitOutcome == Init => OutcomeInv
<1> SUFFICES ASSUME Init PROVE OutcomeInv
  OBVIOUS
<1> USE DEF Init
<1>1. outcome \in [Sleeps -> {"none", "returned", "threw"}] /\ cancelled \in BOOLEAN
  OBVIOUS
<1>2. \A w \in Callers : hpc[w] = "idle"
  OBVIOUS
<1>3. hpc["sleeper"] = "idle"
  BY <1>2 DEF Callers
<1>4. \A n \in Sleeps : ~ Marked(n) /\ outcome[n] = "none"
  BY DEF Marked
<1>5. ~ Delivered
  BY DEF Delivered
<1> QED  BY <1>1, <1>3, <1>4, <1>5 DEF OutcomeInv

LEMMA SleeperKeepsOutcome ==
  ASSUME SleepInv, OutcomeInv, Sleeper PROVE OutcomeInv'
<1> USE MaxSleepsAssumption DEF OutcomeInv, Marked, Delivered
<1>1. /\ cur \in 0 .. MaxSleeps /\ word \in [Sleeps -> States \cup {"unallocated", "freed"}]
      /\ result \in [Sleeps -> {"none", "value", "error"}]
      /\ wpc \in [Sleeps -> Pending \cup {"none", "done"}]
      /\ hpc \in [Callers -> {"idle", "load", "exchange"}]
      /\ cpc \in {"idle", "lock", "visit", "done"}
      /\ spc # "awake" => cur \in Sleeps
  BY DEF SleepInv, TypeOK, Current, Sleeps
<1>2. UNCHANGED <<cancelled, cpc>>
  BY DEF Sleeper, BeginSleep, LoadState, Activate, ScheduleWake, AwaitContinuation,
     RemoveHandler, Inspect, Deallocate, Rethrow, cancelVars
<1>3. CASE BeginSleep
  <2>1. cur + 1 \in Sleeps /\ cpc \in {"idle", "lock", "done"} /\ (cpc = "done" => cancelled)
    BY <1>1, <1>3 DEF BeginSleep, Sleeps, RecordsLocked, SleepInv, HandlerInv
  <2>2. /\ cur' = cur + 1 /\ word' = [word EXCEPT ![cur + 1] = "notStarted"]
        /\ UNCHANGED <<outcome, result, wpc>>
        /\ hpc'["sleeper"] = IF cancelled THEN "load" ELSE "idle"
    BY <1>1, <1>3 DEF BeginSleep, contVars, Callers
  <2>3. \A n \in Sleeps : Marked(n)' => Marked(n)
    BY <1>1, <2>1, <2>2
  <2>4. ~ Delivered'
    BY <1>2, <2>1, <2>2
  <2> QED  BY <1>2, <2>2, <2>3, <2>4
<1>4. CASE LoadState
  <2>1. /\ UNCHANGED <<word, cur, registered, outcome, wpc, hpc>>
        /\ \A n \in Sleeps : result'[n] = "error" => result[n] = "error"
    BY <1>1, <1>4 DEF LoadState, InOperation, Resume, contVars, callVars
  <2> QED  BY <1>2, <2>1
<1>5. CASE Activate
  <2>1. cur \in Sleeps /\ hpc["sleeper"] = "idle" /\ registered
    BY <1>1, <1>5 DEF Activate, InOperation, SleepInv, HandlerInv
  <2>2. UNCHANGED <<cur, registered, outcome, result, wpc, hpc>>
    BY <1>5 DEF Activate, contVars, callVars
  <2>3. CASE word[cur] = "notStarted"
    <3>1. word' = [word EXCEPT ![cur] = "activeContinuation"]
      BY <1>5, <2>3 DEF Activate
    <3> QED  BY <1>1, <1>2, <2>1, <2>2, <2>3, <3>1
  <2>4. CASE word[cur] # "notStarted"
    <3>1. word' = word
      BY <1>5, <2>4 DEF Activate
    <3> QED  BY <1>2, <2>2, <3>1
  <2> QED  BY <2>3, <2>4
<1>6. CASE ScheduleWake
  <2>1. cur \in Sleeps /\ wpc[cur] = "none"
    BY <1>1, <1>6 DEF ScheduleWake, InOperation, SleepInv, Current, Unscheduled
  <2>2. /\ wpc' = [wpc EXCEPT ![cur] = "scheduled"]
        /\ UNCHANGED <<word, cur, registered, outcome, result, hpc>>
    BY <1>6 DEF ScheduleWake, contVars, callVars
  <2> QED  BY <1>1, <1>2, <2>1, <2>2
<1>7. CASE AwaitContinuation
  BY <1>2, <1>7 DEF AwaitContinuation, contVars, callVars
<1>8. CASE RemoveHandler
  BY <1>2, <1>8 DEF RemoveHandler, contVars, callVars
<1>9. CASE Inspect
  <2>1. cur \in Sleeps /\ Woken(cur)
    BY <1>1, <1>9 DEF Inspect, SleepInv, Current
  <2>2. /\ outcome' = [outcome EXCEPT ![cur] =
             IF word[cur] = "cancelledBeforeStarted" THEN "threw" ELSE "returned"]
        /\ UNCHANGED <<word, cur, registered, result, wpc, hpc>>
    BY <1>9 DEF Inspect, contVars, callVars
  <2>3. word[cur] = "cancelledBeforeStarted" \/ wpc[cur] = "done"
    BY <2>1 DEF Woken
  <2> QED  BY <1>2, <2>1, <2>2, <2>3
<1>10. CASE Deallocate
  <2>1. cur \in Sleeps /\ word' = [word EXCEPT ![cur] = "freed"]
        /\ UNCHANGED <<cur, registered, outcome, result, wpc, hpc>>
    BY <1>1, <1>10 DEF Deallocate, contVars, callVars
  <2> QED  BY <1>1, <1>2, <2>1
<1>11. CASE Rethrow
  <2>1. cur \in Sleeps /\ Forsaken(cur)
    BY <1>1, <1>11 DEF Rethrow, SleepInv, Current
  <2>2. /\ outcome' = [outcome EXCEPT ![cur] = "threw"]
        /\ UNCHANGED <<word, cur, registered, result, wpc, hpc>>
    BY <1>11 DEF Rethrow, contVars, callVars
  <2> QED  BY <1>2, <2>1, <2>2 DEF Forsaken
<1> QED  BY <1>3, <1>4, <1>5, <1>6, <1>7, <1>8, <1>9, <1>10, <1>11 DEF Sleeper

LEMMA WakeJobKeepsOutcome ==
  ASSUME SleepInv, OutcomeInv, NEW k \in Sleeps, WakeJob(k) PROVE OutcomeInv'
<1> USE MaxSleepsAssumption DEF OutcomeInv, Marked, Delivered
<1>1. /\ word \in [Sleeps -> States \cup {"unallocated", "freed"}]
      /\ result \in [Sleeps -> {"none", "value", "error"}]
      /\ wpc \in [Sleeps -> Pending \cup {"none", "done"}]
      /\ wpc[k] # "done"
      /\ UNCHANGED <<cur, registered, outcome, hpc, cancelled, cpc>>
  BY DEF SleepInv, TypeOK, WakeJob, TimerFires, WakeLoad, WakeExchange, sleepVars,
     callVars, cancelVars
<1>2. \A n \in Sleeps : wpc[n] = "done" => wpc'[n] = "done"
  BY <1>1 DEF WakeJob, TimerFires, WakeLoad, WakeExchange
<1>3. /\ \A n \in Sleeps : word'[n] \in {word[n], "freed", "finished"}
      /\ \A n \in Sleeps : result'[n] \in {result[n], "value"}
  BY <1>1 DEF WakeJob, TimerFires, WakeLoad, WakeExchange, Resume, contVars
<1>4. Delivered => cur \in Sleeps
  BY DEF SleepInv, TypeOK, HandlerInv, Current, Sleeps
<1> QED  BY <1>1, <1>2, <1>3, <1>4

LEMMA HandlerKeepsOutcome ==
  ASSUME SleepInv, OutcomeInv, NEW w \in Callers, Handler(w) PROVE OutcomeInv'
<1> DEFINE k == visit[w]
<1> USE MaxSleepsAssumption DEF OutcomeInv, Marked, Delivered
<1>1. /\ word \in [Sleeps -> States \cup {"unallocated", "freed"}]
      /\ result \in [Sleeps -> {"none", "value", "error"}]
      /\ hpc \in [Callers -> {"idle", "load", "exchange"}]
      /\ hpc[w] # "idle" /\ k \in Sleeps /\ k = cur /\ registered
      /\ UNCHANGED <<cur, registered, outcome, wpc, visit, cancelled, cpc>>
  BY DEF SleepInv, TypeOK, HandlerInv, Handler, CancelLoad, CancelExchange, sleepVars,
     cancelVars
<1>2. cancelled
  BY <1>1 DEF SleepInv, HandlerInv, Callers
<1>3. CASE CancelLoad(w)
  <2>1. /\ UNCHANGED <<word, result>>
        /\ hpc' = [hpc EXCEPT ![w] = IF word[k] \in {"notStarted", "activeContinuation"}
                                   THEN "exchange" ELSE "idle"]
    BY <1>3 DEF CancelLoad, contVars
  <2>2. Delivered' => word[cur] \notin {"notStarted", "activeContinuation"}
    BY <1>1, <2>1 DEF Callers
  <2> QED  BY <1>1, <1>2, <2>1, <2>2
<1>4. CASE CancelExchange(w)
  <2>1. CASE word[k] # hseen[w]
    <3>1. hpc' = [hpc EXCEPT ![w] = "load"] /\ UNCHANGED <<word, result>>
      BY <1>4, <2>1 DEF CancelExchange, contVars
    <3>2. Delivered' => Delivered
      BY <1>1, <3>1 DEF Callers
    <3> QED  BY <1>1, <1>2, <3>1, <3>2
  <2>2. CASE word[k] = hseen[w]
    <3>1. word'[k] \in {"cancelled", "cancelledBeforeStarted"}
      BY <1>1, <1>4, <2>2 DEF CancelExchange
    <3> QED  BY <1>1, <1>2, <3>1
  <2> QED  BY <2>1, <2>2
<1> QED  BY <1>3, <1>4 DEF Handler

LEMMA CancellerKeepsOutcome ==
  ASSUME SleepInv, OutcomeInv, Cancel \/ LockAndCallHandler \/ UnlockRecords
  PROVE  OutcomeInv'
<1> USE DEF OutcomeInv, Marked, Delivered
<1>1. /\ hpc \in [Callers -> {"idle", "load", "exchange"}]
      /\ UNCHANGED <<word, cur, registered, outcome, wpc, result>>
  BY DEF SleepInv, TypeOK, Cancel, LockAndCallHandler, UnlockRecords, sleepVars, contVars
<1>2. CASE Cancel
  <2>1. cancelled' = TRUE /\ UNCHANGED hpc /\ (registered => cpc' = "lock")
        /\ cpc' \in {"lock", "done"}
    BY <1>2 DEF Cancel, callVars
  <2> QED  BY <1>1, <2>1
<1>3. CASE LockAndCallHandler
  <2>1. /\ cancelled' = cancelled /\ hpc'["sleeper"] = hpc["sleeper"] /\ cpc' = "visit"
        /\ registered => hpc'["canceller"] = "load"
    BY <1>1, <1>3 DEF LockAndCallHandler, Callers
  <2> QED  BY <1>1, <2>1
<1>4. CASE UnlockRecords
  BY <1>1, <1>4 DEF UnlockRecords, callVars
<1> QED  BY <1>2, <1>3, <1>4

LEMMA NextKeepsOutcome == SleepInv /\ OutcomeInv /\ [Next]_vars => OutcomeInv'
<1> SUFFICES ASSUME SleepInv, OutcomeInv, [Next]_vars PROVE OutcomeInv'
  OBVIOUS
<1>1. CASE UNCHANGED vars
  BY <1>1 DEF OutcomeInv, Marked, Delivered, vars, sleepVars, contVars, callVars, cancelVars
<1> QED
  BY <1>1, SleeperKeepsOutcome, WakeJobKeepsOutcome, HandlerKeepsOutcome,
     CancellerKeepsOutcome DEF Next

(* A sleep returns only after its timer, throws only if its task was       *)
(* cancelled, and does not go on waiting for a timer once a cancellation   *)
(* has been delivered, however the two and the task race.                  *)
THEOREM SleepEndsForAReason == Spec => []OutcomeJustified
<1>1. SleepInv /\ OutcomeInv => OutcomeJustified
  <2> SUFFICES ASSUME SleepInv, OutcomeInv PROVE OutcomeJustified
    OBVIOUS
  <2>1. ASSUME cpc = "done", spc = "await" PROVE resumed[cur] > 0
    <3>1. registered /\ hpc["sleeper"] = "idle" /\ (Timed(cur) \/ Woken(cur) \/ Forsaken(cur))
      BY <2>1 DEF SleepInv, HandlerInv, Current
    <3>2. word[cur] # "activeContinuation"
      BY <2>1, <3>1 DEF OutcomeInv, Delivered
    <3> QED  BY <3>1, <3>2 DEF Timed, Woken, Forsaken
  <2> QED  BY <2>1 DEF OutcomeInv, OutcomeJustified
<1>2. SleepInv /\ OutcomeInv /\ [Next]_vars => (SleepInv /\ OutcomeInv)'
  BY NextKeepsSleep, NextKeepsOutcome
<1> QED  BY InitSleep, InitOutcome, <1>1, <1>2, PTL DEF Spec
=============================================================================
