--------------------------- MODULE StreamStorage ---------------------------
(***************************************************************************)
(* What AsyncStream._Storage and AsyncThrowingStream._Storage have in      *)
(* common: stdlib/public/Concurrency/AsyncStreamBuffer.swift, with the     *)
(* clients in AsyncStream.swift.                                           *)
(*                                                                         *)
(* Every critical section under the storage lock is one action.  What its  *)
(* thread still has to do after it released the lock - call the            *)
(* termination handler, resume a continuation, go on to finish() - is the  *)
(* list effects[t], done one by one, while other threads enter.            *)
(***************************************************************************)
EXTENDS Integers, Sequences

CONSTANTS
  Producers,    \* threads that hold the stream's Continuation
  Consumers,    \* tasks that iterate
  Cancellers,   \* threads that cancel a consumer's task
  Policy,       \* the BufferingPolicy ...
  Limit,        \* ... and its number
  MaxYields,    \* bound: values yielded
  MaxHandlers,  \* bound: termination handlers installed
  MaxNexts      \* bound: calls of next() per consumer

Threads == Producers \cup Consumers \cup Cancellers

ASSUME StreamThreadsAssumption ==
  /\ Producers \cap Consumers = {}
  /\ Cancellers \cap (Producers \cup Consumers) = {}
ASSUME StreamBoundsAssumption ==
  /\ Policy \in {"unbounded", "bufferingOldest", "bufferingNewest"}
  /\ Limit \in Nat
  /\ MaxYields \in Nat /\ MaxHandlers \in Nat /\ MaxNexts \in Nat

(* next() returns a yielded value, nil, or throws the failure.             *)
Values  == 1 .. MaxYields
Nil     == 0
Failure == -1

NoHandler == 0
TerminationHandlers == 1 .. MaxHandlers

VARIABLES
  continuations, \* consumers suspended in next(), in order
  pending,       \* the buffered values
  onTermination, \* the installed handler
  terminal,      \* "open", "finished" or "failed"
  effects,       \* what each thread does next, outside the lock
  yields,        \* how many values were yielded
  discarded,     \* values whose yield reported dropped or terminated
  installed,     \* how many handlers were installed
  replaced,      \* handlers that were overwritten before they ran
  calls,         \* how often each handler ran
  cpc,           \* control state of each consumer
  nexts,         \* how often it called next()
  slot,          \* what its continuation was resumed with: <<>> or <<r>>
  received,      \* the results its calls of next() returned
  cancelled,     \* the cancelled bit of its task
  kpc, target,   \* control state of a canceller, and whom it cancels
  handle         \* "live", then the stream is dropped, then the storage freed

bufferVars   == <<continuations, pending, terminal, yields, discarded>>
handlerVars  == <<onTermination, installed, replaced, calls>>
consumerVars == <<cpc, nexts, slot, received>>
cancelVars   == <<cancelled, kpc, target>>
vars == <<bufferVars, handlerVars, effects, consumerVars, cancelVars, handle>>

(* effects[t] is a sequence of <<"cancel">>, <<"finish", result>>,         *)
(* <<"call", handler>> and <<"resume", consumer, result>>.                 *)

-----------------------------------------------------------------------------
(* The buffer: what yield does with a value nobody waits for.              *)

Full(buffer) == Policy # "unbounded" /\ Len(buffer) >= Limit

Enqueue(buffer, v) ==
  IF ~ Full(buffer) THEN Append(buffer, v)
  ELSE IF Policy = "bufferingNewest" /\ buffer # <<>>
       THEN Append(Tail(buffer), v)
       ELSE buffer

DroppedMutant(buffer, v) ==     \* bufferingNewest blames the new value
  IF ~ Full(buffer) THEN {} ELSE {v}
Dropped(buffer, v) ==
  IF ~ Full(buffer) THEN {}
  ELSE IF Policy = "bufferingNewest" /\ buffer # <<>> THEN {Head(buffer)}
       ELSE {v}

Init ==
  /\ continuations = <<>> /\ pending = <<>>
  /\ onTermination = NoHandler /\ terminal = "open"
  /\ effects = [t \in Threads |-> <<>>]
  /\ yields = 0 /\ discarded = {}
  /\ installed = 0 /\ replaced = {}
  /\ calls = [h \in TerminationHandlers |-> 0]
  /\ cpc = [c \in Consumers |-> "idle"]
  /\ nexts = [c \in Consumers |-> 0]
  /\ slot = [c \in Consumers |-> <<>>]
  /\ received = [c \in Consumers |-> <<>>]
  /\ cancelled = [c \in Consumers |-> FALSE]
  /\ kpc = [k \in Cancellers |-> "idle"]
  /\ target \in [Cancellers -> Consumers]
  /\ handle = "live"

-----------------------------------------------------------------------------
(* What happens outside the lock.                                          *)

Free(t)      == effects[t] = <<>>
Doing(t, kind) == effects[t] # <<>> /\ Head(effects[t])[1] = kind
Then(t, new) == effects' = [effects EXCEPT ![t] = new \o Tail(@)]
CallIfSet(h) == IF h = NoHandler THEN <<>> ELSE << <<"call", h>> >>

(* The body of the termination handler is the program's own code.          *)
CallHandler(t) ==
  /\ Doing(t, "call")
  /\ calls' = [calls EXCEPT ![Head(effects[t])[2]] = @ + 1]
  /\ Then(t, <<>>)
  /\ UNCHANGED <<bufferVars, onTermination, installed, replaced, consumerVars,
                 cancelVars, handle>>

ResumeContinuation(t) ==
  /\ Doing(t, "resume")
  /\ slot' = [slot EXCEPT ![Head(effects[t])[2]] = Append(@, Head(effects[t])[3])]
  /\ Then(t, <<>>)
  /\ UNCHANGED <<bufferVars, handlerVars, cpc, nexts, received, cancelVars, handle>>

CancelStorageMutant(t) ==       \* invokes the handler without swapping it out
  /\ Doing(t, "cancel")
  /\ Then(t, CallIfSet(onTermination) \o << <<"finish", Nil>> >>)
  /\ UNCHANGED <<bufferVars, handlerVars, consumerVars, cancelVars, handle>>

(* cancel(): take the handler, call it, then finish().                     *)
CancelStorage(t) ==
  /\ Doing(t, "cancel")
  /\ onTermination' = NoHandler
  /\ Then(t, CallIfSet(onTermination) \o << <<"finish", Nil>> >>)
  /\ UNCHANGED <<bufferVars, installed, replaced, calls, consumerVars, cancelVars,
                 handle>>

(* Producers install a handler at any time, even after the end.            *)
SetOnTermination(p) ==
  /\ handle # "freed" /\ Free(p) /\ installed < MaxHandlers
  /\ installed' = installed + 1
  /\ replaced' = replaced \cup ({onTermination} \ {NoHandler})
  /\ onTermination' = installed'
  /\ UNCHANGED <<bufferVars, calls, effects, consumerVars, cancelVars, handle>>

-----------------------------------------------------------------------------
(* next() async: a cancellation handler around a continuation.  RecordLock *)
(* is the record lock of the consumer's task (TaskStatus.tla).             *)

RecordLocked(c) == \E k \in Cancellers : kpc[k] = "visit" /\ target[k] = c

EnterNextMutant(c) ==           \* does not look at the cancelled bit
  /\ handle = "live" /\ cpc[c] = "idle" /\ nexts[c] < MaxNexts
  /\ Free(c) /\ ~ RecordLocked(c)
  /\ cpc' = [cpc EXCEPT ![c] = "entering"]
  /\ nexts' = [nexts EXCEPT ![c] = @ + 1]
  /\ UNCHANGED <<bufferVars, handlerVars, effects, slot, received, cancelVars, handle>>

(* A task that is already cancelled runs cancel() itself, first.           *)
EnterNext(c) ==
  /\ handle = "live" /\ cpc[c] = "idle" /\ nexts[c] < MaxNexts
  /\ Free(c) /\ ~ RecordLocked(c)
  /\ cpc' = [cpc EXCEPT ![c] = "entering"]
  /\ nexts' = [nexts EXCEPT ![c] = @ + 1]
  /\ effects' = [effects EXCEPT ![c] = IF cancelled[c] THEN << <<"cancel">> >> ELSE <<>>]
  /\ UNCHANGED <<bufferVars, handlerVars, slot, received, cancelVars, handle>>

(* Resumed: remove the cancellation handler and return the result.         *)
ReturnFromNext(c) ==
  /\ cpc[c] = "awaiting" /\ Free(c) /\ slot[c] # <<>> /\ ~ RecordLocked(c)
  /\ received' = [received EXCEPT ![c] = Append(@, Head(slot[c]))]
  /\ slot' = [slot EXCEPT ![c] = <<>>]
  /\ cpc' = [cpc EXCEPT ![c] = "idle"]
  /\ UNCHANGED <<bufferVars, handlerVars, effects, nexts, cancelVars, handle>>

(* swift_task_cancel of the consumer's task: set the bit, then lock the    *)
(* records and call the cancellation handler if next() registered it.      *)
CancelTask(k) ==
  /\ kpc[k] = "idle" /\ ~ cancelled[target[k]]
  /\ cancelled' = [cancelled EXCEPT ![target[k]] = TRUE]
  /\ kpc' = [kpc EXCEPT ![k] = "lock"]
  /\ UNCHANGED <<bufferVars, handlerVars, effects, consumerVars, target, handle>>

LockAndCancel(k) ==
  /\ kpc[k] = "lock" /\ ~ RecordLocked(target[k])
  /\ kpc' = [kpc EXCEPT ![k] = "visit"]
  /\ effects' = [effects EXCEPT ![k] =
       IF cpc[target[k]] = "idle" THEN <<>> ELSE << <<"cancel">> >>]
  /\ UNCHANGED <<bufferVars, handlerVars, consumerVars, cancelled, target, handle>>

UnlockRecords(k) ==
  /\ kpc[k] = "visit" /\ Free(k)
  /\ kpc' = [kpc EXCEPT ![k] = "done"]
  /\ UNCHANGED <<bufferVars, handlerVars, effects, consumerVars, cancelled, target,
                 handle>>

(* _Context.deinit, when the last iterator and the stream are gone.        *)
DropStream(c) ==
  /\ handle = "live" /\ handle' = "dropped"
  /\ \A d \in Consumers : cpc[d] = "idle" /\ Free(d)
  /\ effects' = [effects EXCEPT ![c] = << <<"cancel">> >>]
  /\ UNCHANGED <<bufferVars, handlerVars, consumerVars, cancelVars>>

(* _Storage.deinit, when no producer keeps the continuation either.        *)
FreeStorage ==
  /\ handle = "dropped" /\ handle' = "freed"
  /\ \A t \in Threads : Free(t)
  /\ onTermination' = NoHandler
  /\ calls' = IF onTermination = NoHandler THEN calls
              ELSE [calls EXCEPT ![onTermination] = @ + 1]
  /\ UNCHANGED <<bufferVars, effects, installed, replaced, consumerVars, cancelVars>>

-----------------------------------------------------------------------------
(* A thread that has left the lock goes on; every other call is optional.  *)
Continue(t) == CallHandler(t) \/ ResumeContinuation(t) \/ CancelStorage(t)
CancelStep(k) == CancelTask(k) \/ LockAndCancel(k) \/ UnlockRecords(k)

CommonNext ==
  \/ \E t \in Threads : Continue(t)
  \/ \E p \in Producers : SetOnTermination(p)
  \/ \E c \in Consumers : EnterNext(c) \/ ReturnFromNext(c) \/ DropStream(c)
  \/ \E k \in Cancellers : CancelStep(k)
  \/ FreeStorage

-----------------------------------------------------------------------------
(* Properties of both kinds of stream.                                     *)

ElementsOf(s) == {s[i] : i \in 1 .. Len(s)}

(* What threads are about to hand to consumer c.                           *)
InFlight(c) ==
  {e \in Threads \X (1 .. 4) :
     /\ e[2] <= Len(effects[e[1]])
     /\ effects[e[1]][e[2]][1] = "resume" /\ effects[e[1]][e[2]][2] = c}

(* The result that is on its way to c.                                     *)
Assigned(c) ==
  IF slot[c] # <<>> \/ InFlight(c) = {} THEN slot[c]
  ELSE LET e == CHOOSE e \in InFlight(c) : TRUE
       IN  << effects[e[1]][e[2]][3] >>

(* The unsafe continuation of each call of next() is resumed exactly once: *)
(* a suspended consumer is either queued once, or one thread is about to   *)
(* resume it, or it has its result.                                        *)
ResumedExactlyOnce ==
  \A c \in Consumers :
    LET places == {<<"queue", i>> : i \in {j \in 1 .. Len(continuations) :
                                             continuations[j] = c}}
                  \cup {<<"slot", i>> : i \in 1 .. Len(slot[c])}
                  \cup {<<"flight", e>> : e \in InFlight(c)}
    IN  IF cpc[c] = "awaiting" THEN \E p \in places : places = {p} ELSE places = {}

(* Every yielded value is in exactly one place: buffered, on its way or    *)
(* returned to one consumer, or reported to the producer as not enqueued.  *)
Got(c) == received[c] \o Assigned(c)
EveryValueAccountedFor ==
  \A v \in 1 .. yields :
    LET places == {<<"buffer", i>> : i \in {j \in 1 .. Len(pending) : pending[j] = v}}
                  \cup (UNION {{<<"consumer", c, i>> :
                          i \in {j \in 1 .. Len(Got(c)) : Got(c)[j] = v}} : c \in Consumers})
                  \cup (IF v \in discarded THEN {<<"reported">>} ELSE {})
    IN  \E p \in places : places = {p}

(* A termination handler never runs twice, although finish, cancel, the    *)
(* end of the stream and the end of the storage may all invoke it, and one *)
(* that was not replaced has run when the storage is gone.                 *)
HandlerRunsOnce ==
  /\ \A h \in TerminationHandlers : calls[h] <= 1
  /\ handle = "freed" =>
       \A h \in 1 .. installed : calls[h] = 1 \/ h \in replaced

(* Nobody waits for ever once the stream ended or its task was cancelled.  *)
EndReachesConsumer ==
  \A c \in Consumers :
    cpc[c] = "awaiting" /\ (terminal # "open" \/ cancelled[c]) ~> cpc[c] = "idle"

(* The first end decides: while the stream is marked as failed (only a     *)
(* throwing one ever is) nobody has been told that it ended normally.      *)
FirstEndingWins ==
  terminal = "failed" =>
    \A c \in Consumers : Nil \notin ElementsOf(Got(c))

-----------------------------------------------------------------------------
(* The stream implements a channel, which a throwing one may end in an     *)
(* error: a consumer has its answer as soon as some thread has taken it    *)
(* out of the storage, whatever that thread then still does before it      *)
(* resumes the consumer.                                                   *)
Asking  == ElementsOf(continuations)
Answers == [c \in Consumers |-> Got(c)]
IsOver  == terminal # "open"

Promise == INSTANCE Channel WITH
  MaxSends <- MaxYields, MaxAsks <- MaxNexts,
  buffer <- pending, sent <- yields, ended <- IsOver,
  asking <- Asking, got <- Answers
ImplementsChannel == Promise!Spec
=============================================================================
