--------------------------- MODULE Stream_proofs ---------------------------
(***************************************************************************)
(* Both kinds of stream, for any number of producers, consumers and        *)
(* cancelling threads, any buffering policy and any number of calls: a     *)
(* suspended consumer is resumed exactly once, every yielded value is      *)
(* accounted for, a termination handler runs once, the first ending of a   *)
(* throwing stream wins, and each stream implements the abstract channel.  *)
(*                                                                         *)
(* The two storages differ only in how they end.  What they share is the   *)
(* relation StreamNext below; the invariant is proved of that, once.       *)
(***************************************************************************)
EXTENDS StreamStorage, SequenceTheorems, TLAPS

Plain    == INSTANCE AsyncStream
Throwing == INSTANCE AsyncThrowingStream

-----------------------------------------------------------------------------
(* The sections that the two storages write differently: the ending e that *)
(* a consumer is told of, and what becomes of terminal, are left open.     *)

Endings == {Nil, Failure}
Ended   == {"finished", "failed"}

TerminalStays ==
  /\ terminal' \in {terminal, "finished"}
  /\ terminal = "open" => terminal' = "open"

YieldSection(p) ==
  LET v == yields + 1
      waiting == continuations # <<>>
      direct == waiting /\ pending = <<>>
      accepted == IF terminal = "open" THEN Enqueue(pending, v) ELSE pending
  IN  \E e \in Endings :
      LET result == IF ~ direct THEN Head(accepted)
                    ELSE IF terminal = "open" THEN v ELSE e
      IN  /\ handle # "freed" /\ Free(p) /\ yields < MaxYields
          /\ yields' = v
          /\ continuations' = IF waiting THEN Tail(continuations) ELSE continuations
          /\ effects' = [effects EXCEPT ![p] =
               IF waiting THEN << <<"resume", Head(continuations), result>> >> ELSE <<>>]
          /\ pending' = IF direct THEN pending
                        ELSE IF waiting THEN Tail(accepted) ELSE accepted
          /\ discarded' = discarded \cup
               (IF terminal # "open" THEN {v}
                ELSE IF direct THEN {} ELSE Dropped(pending, v))
          /\ TerminalStays
          /\ UNCHANGED <<handlerVars, consumerVars, cancelVars, handle>>

CallFinishSection(p) ==
  /\ handle # "freed" /\ Free(p)
  /\ \E e \in Endings : effects' = [effects EXCEPT ![p] = << <<"finish", e>> >>]
  /\ UNCHANGED <<bufferVars, handlerVars, consumerVars, cancelVars, handle>>

FinishSection(t) ==
  /\ Doing(t, "finish")
  /\ terminal' # "open" /\ terminal' \in {terminal} \cup Ended
  /\ onTermination' = NoHandler
  /\ LET waiting == continuations # <<>>
     IN  \E e \in Endings :
         LET result == IF pending # <<>> THEN Head(pending) ELSE e
         IN  /\ continuations' = IF waiting THEN Tail(continuations) ELSE continuations
             /\ pending' = IF waiting /\ pending # <<>> THEN Tail(pending) ELSE pending
             /\ Then(t, CallIfSet(onTermination) \o
                        (IF waiting THEN << <<"resume", Head(continuations), result>> >>
                         ELSE <<>>))
  /\ UNCHANGED <<yields, discarded, installed, replaced, calls, consumerVars, cancelVars,
                 handle>>

NextSection(c) ==
  /\ cpc[c] = "entering" /\ Free(c)
  /\ cpc' = [cpc EXCEPT ![c] = "awaiting"]
  /\ LET queue == Append(continuations, c)
         serve == pending # <<>> \/ terminal # "open"
     IN  \E e \in Endings :
         LET result == IF pending # <<>> THEN Head(pending) ELSE e
         IN  /\ continuations' = IF serve THEN Tail(queue) ELSE queue
             /\ pending' = IF pending # <<>> THEN Tail(pending) ELSE pending
             /\ effects' = [effects EXCEPT ![c] =
                  IF serve THEN << <<"resume", Head(queue), result>> >> ELSE <<>>]
  /\ TerminalStays
  /\ UNCHANGED <<yields, discarded, handlerVars, nexts, slot, received, cancelVars,
                 handle>>

SecondWaiter(c) ==
  /\ cpc[c] = "entering"
  /\ cpc' = [cpc EXCEPT ![c] = "fatal"]
  /\ UNCHANGED <<bufferVars, handlerVars, effects, nexts, slot, received, cancelVars,
                 handle>>

StreamNext ==
  \/ CommonNext
  \/ \E p \in Producers : YieldSection(p) \/ CallFinishSection(p)
  \/ \E t \in Threads : FinishSection(t)
  \/ \E c \in Consumers : NextSection(c) \/ SecondWaiter(c)

-----------------------------------------------------------------------------
(* The lists of effects that threads really have: to cancel, or a handler  *)
(* to call and then one more thing to do, or a part of that.               *)

Results == Values \cup Endings
Calls   == {<<>>} \cup {<< <<"call", h>> >> : h \in TerminationHandlers}
Rests   == {<<>>} \cup {<< <<"finish", e>> >> : e \in Endings}
                  \cup {<< <<"resume", c, r>> >> : c \in Consumers, r \in Results}
EffectLists == {<< <<"cancel">> >>} \cup {first \o rest : first \in Calls, rest \in Rests}

CallsIn(list, h) == list # <<>> /\ list[1][1] = "call" /\ list[1][2] = h
WakesIn(list, c) ==
  list # <<>> /\ list[Len(list)][1] = "resume" /\ list[Len(list)][2] = c
ResultIn(list) == list[Len(list)][3]

BufferTypes ==
  /\ continuations \in Seq(Consumers) /\ pending \in Seq(Values)
  /\ terminal \in {"open"} \cup Ended
  /\ yields \in 0 .. MaxYields /\ discarded \subseteq Values

HandlerTypes ==
  /\ installed \in 0 .. MaxHandlers /\ onTermination \in 0 .. installed
  /\ replaced \subseteq TerminationHandlers
  /\ calls \in [TerminationHandlers -> Nat]

EffectTypes == effects \in [Threads -> EffectLists]

ConsumerTypes ==
  /\ cpc \in [Consumers -> {"idle", "entering", "awaiting", "fatal"}]
  /\ nexts \in [Consumers -> Nat]
  /\ slot \in [Consumers -> Seq(Results)]
  /\ received \in [Consumers -> Seq(Results)]

CancelTypes ==
  /\ cancelled \in [Consumers -> BOOLEAN]
  /\ kpc \in [Cancellers -> {"idle", "lock", "visit", "done"}]
  /\ target \in [Cancellers -> Consumers]

StreamTypes ==
  /\ BufferTypes /\ HandlerTypes /\ EffectTypes /\ ConsumerTypes /\ CancelTypes
  /\ handle \in {"live", "dropped", "freed"}

(* v occurs at most once in s.                                             *)
OnceIn(s, v) == \A i, j \in 1 .. Len(s) : s[i] = v /\ s[j] = v => i = j

(* A suspended consumer is in the queue, or on one thread's list, or has   *)
(* its result; nobody else is anywhere.                                    *)
Queued(c) == c \in ElementsOf(continuations)

Waiting(c) ==
  /\ OnceIn(continuations, c) /\ Len(slot[c]) <= 1
  /\ \A t, u \in Threads : WakesIn(effects[t], c) /\ WakesIn(effects[u], c) => t = u
  /\ Queued(c) => slot[c] = <<>>
  /\ \A t \in Threads : WakesIn(effects[t], c) => slot[c] = <<>> /\ ~ Queued(c)
  /\ cpc[c] = "awaiting" <=>
       \/ Queued(c) \/ slot[c] # <<>>
       \/ \E t \in Threads : WakesIn(effects[t], c)
WaiterInv == \A c \in Consumers : Waiting(c)

(* A cancelling thread has something to do only while it visits.           *)
CancelInv == \A k \in Cancellers : kpc[k] # "visit" => effects[k] = <<>>

(* A handler is installed, or on one thread's list, or has run once, or    *)
(* was replaced; a handler that is yet to come is nowhere.                 *)
Handled(h) ==
  /\ calls[h] <= 1
  /\ \A t, u \in Threads : CallsIn(effects[t], h) /\ CallsIn(effects[u], h) => t = u
  /\ h = onTermination \/ h > installed =>
       calls[h] = 0 /\ \A t \in Threads : ~ CallsIn(effects[t], h)
  /\ \A t \in Threads : CallsIn(effects[t], h) => calls[h] = 0
  /\ h <= installed =>
       \/ h = onTermination \/ calls[h] = 1 \/ h \in replaced
       \/ \E t \in Threads : CallsIn(effects[t], h)
HandlerInv == \A h \in TerminationHandlers : Handled(h)

(* Nobody iterates a stream that was dropped, or uses one that was freed.  *)
LifeInv ==
  /\ handle # "live" => \A c \in Consumers : cpc[c] = "idle"
  /\ handle = "freed" =>
       onTermination = NoHandler /\ \A t \in Threads : effects[t] = <<>>

(* Nobody waits while a value is buffered; a consumer has one answer for   *)
(* each call of next() that returned.                                      *)
Unstarved == continuations # <<>> => pending = <<>>
Answered ==
  \A c \in Consumers :
    /\ nexts[c] <= MaxNexts
    /\ Len(received[c]) = IF cpc[c] = "idle" THEN nexts[c] ELSE nexts[c] - 1
CallInv == Unstarved /\ Answered

(* A value that was yielded is in one place, one that was not is nowhere.  *)
Has(c, v) == v \in ElementsOf(Got(c))
Accounted(v) ==
  /\ OnceIn(pending, v) /\ \A c \in Consumers : OnceIn(Got(c), v)
  /\ v \in ElementsOf(pending) =>
       v \notin discarded /\ \A c \in Consumers : ~ Has(c, v)
  /\ v \in discarded => \A c \in Consumers : ~ Has(c, v)
  /\ \A c, d \in Consumers : Has(c, v) /\ Has(d, v) => c = d
  /\ v <= yields <=>
       \/ v \in ElementsOf(pending) \/ v \in discarded
       \/ \E c \in Consumers : Has(c, v)
ValueInv == \A v \in Values : Accounted(v)

StreamInv ==
  /\ StreamTypes
  /\ WaiterInv /\ CancelInv /\ HandlerInv /\ LifeInv /\ CallInv
  /\ ValueInv

(* What holds of the throwing stream besides.                              *)
NilUntold ==
  terminal \in {"open", "failed"} => \A c \in Consumers : ~ Has(c, Nil)
ThrowingInv == StreamInv /\ Len(continuations) <= 1 /\ NilUntold
LEMMA PlainHelpers ==
  /\ Plain!Threads = Threads /\ Plain!Nil = Nil /\ Plain!Failure = Failure
  /\ Plain!NoHandler = NoHandler /\ Plain!TerminationHandlers = TerminationHandlers
  /\ \A t : Plain!Free(t) <=> Free(t)
  /\ \A t, kind : Plain!Doing(t, kind) <=> Doing(t, kind)
  /\ \A h : Plain!CallIfSet(h) = CallIfSet(h)
  /\ \A b, v : Plain!Enqueue(b, v) = Enqueue(b, v) /\ Plain!Dropped(b, v) = Dropped(b, v)
  /\ \A c : Plain!RecordLocked(c) <=> RecordLocked(c)
BY DEF Plain!Threads, Threads, Plain!Nil, Nil, Plain!Failure, Failure,
       Plain!NoHandler, NoHandler, Plain!TerminationHandlers,
       TerminationHandlers, Plain!Free, Free, Plain!Doing, Doing,
       Plain!CallIfSet, CallIfSet, Plain!RecordLocked, RecordLocked,
       Plain!Full, Full, Plain!Enqueue, Enqueue, Plain!Dropped, Dropped

LEMMA PlainThread ==
  ASSUME NEW t
  PROVE  /\ Plain!CallHandler(t) => CallHandler(t)
         /\ Plain!ResumeContinuation(t) => ResumeContinuation(t)
         /\ Plain!CancelStorage(t) => CancelStorage(t)
BY PlainHelpers
   DEF Plain!CallHandler, CallHandler, Plain!ResumeContinuation,
       ResumeContinuation, Plain!CancelStorage, CancelStorage, Plain!Then,
       Then, Plain!bufferVars, bufferVars, Plain!handlerVars, handlerVars,
       Plain!consumerVars, consumerVars, Plain!cancelVars, cancelVars

LEMMA PlainProducer ==
  ASSUME NEW p
  PROVE  /\ Plain!SetOnTermination(p) => SetOnTermination(p)
BY PlainHelpers
   DEF Plain!SetOnTermination, SetOnTermination, Plain!Then, Then,
       Plain!bufferVars, bufferVars, Plain!handlerVars, handlerVars,
       Plain!consumerVars, consumerVars, Plain!cancelVars, cancelVars

LEMMA PlainConsumer ==
  ASSUME NEW c
  PROVE  /\ Plain!EnterNext(c) => EnterNext(c)
         /\ Plain!ReturnFromNext(c) => ReturnFromNext(c)
         /\ Plain!DropStream(c) => DropStream(c)
BY PlainHelpers
   DEF Plain!EnterNext, EnterNext, Plain!ReturnFromNext, ReturnFromNext,
       Plain!DropStream, DropStream, Plain!Then, Then, Plain!bufferVars,
       bufferVars, Plain!handlerVars, handlerVars, Plain!consumerVars,
       consumerVars, Plain!cancelVars, cancelVars

LEMMA PlainCanceller ==
  ASSUME NEW k
  PROVE  /\ Plain!CancelTask(k) => CancelTask(k)
         /\ Plain!LockAndCancel(k) => LockAndCancel(k)
         /\ Plain!UnlockRecords(k) => UnlockRecords(k)
BY PlainHelpers
   DEF Plain!CancelTask, CancelTask, Plain!LockAndCancel, LockAndCancel,
       Plain!UnlockRecords, UnlockRecords, Plain!Then, Then, Plain!bufferVars,
       bufferVars, Plain!handlerVars, handlerVars, Plain!consumerVars,
       consumerVars, Plain!cancelVars, cancelVars
LEMMA PlainRest ==
  /\ Plain!Init <=> Init
  /\ Plain!FreeStorage => FreeStorage
BY PlainHelpers
   DEF Plain!Init, Init, Plain!FreeStorage, FreeStorage, Plain!bufferVars, bufferVars,
       Plain!consumerVars, consumerVars, Plain!cancelVars, cancelVars

LEMMA PlainCommon == Plain!CommonNext => CommonNext
BY PlainHelpers, PlainThread, PlainProducer, PlainConsumer, PlainCanceller, PlainRest
   DEF Plain!CommonNext, CommonNext, Plain!Continue, Continue, Plain!CancelStep, CancelStep

LEMMA PlainYield ==
  ASSUME NEW p, Plain!Yield(p)
  PROVE  YieldSection(p)
<1>1. Nil \in Endings /\ Plain!Nil = Nil
  BY PlainHelpers DEF Endings
<1>2. TerminalStays
  BY DEF Plain!Yield, TerminalStays
<1>3. UNCHANGED <<handlerVars, consumerVars, cancelVars, handle>>
  BY DEF Plain!Yield, Plain!handlerVars, handlerVars,
         Plain!consumerVars, consumerVars, Plain!cancelVars, cancelVars
<1> QED
  BY PlainHelpers, <1>1, <1>2, <1>3, ZenonT(60)
     DEF Plain!Yield, YieldSection

LEMMA PlainFinish ==
  ASSUME NEW t, Plain!Finish(t)
  PROVE  FinishSection(t)
<1>1. Nil \in Endings /\ Plain!Nil = Nil
  BY PlainHelpers DEF Endings
<1>2. terminal' # "open" /\ terminal' \in {terminal} \cup Ended
  BY DEF Plain!Finish, Ended
<1>3. UNCHANGED <<yields, discarded, installed, replaced, calls, consumerVars,
                  cancelVars, handle>>
  BY DEF Plain!Finish, Plain!consumerVars, consumerVars, Plain!cancelVars, cancelVars
<1> QED
  BY PlainHelpers, <1>1, <1>2, <1>3
     DEF Plain!Finish, FinishSection, Plain!Then, Then

LEMMA PlainNext ==
  ASSUME NEW c, Plain!NextContinuation(c)
  PROVE  NextSection(c)
<1>1. Nil \in Endings /\ Plain!Nil = Nil
  BY PlainHelpers DEF Endings
<1>2. TerminalStays
  BY DEF Plain!NextContinuation, TerminalStays
<1>3. UNCHANGED <<yields, discarded, handlerVars, nexts, slot, received, cancelVars,
                  handle>>
  BY DEF Plain!NextContinuation, Plain!handlerVars, handlerVars, Plain!cancelVars, cancelVars
<1> QED
  BY PlainHelpers, <1>1, <1>2, <1>3
     DEF Plain!NextContinuation, NextSection

LEMMA PlainCall ==
  ASSUME NEW p, Plain!CallFinish(p)
  PROVE  CallFinishSection(p)
BY PlainHelpers
   DEF Plain!CallFinish, CallFinishSection, Endings, Plain!bufferVars, bufferVars,
       Plain!handlerVars, handlerVars, Plain!consumerVars, consumerVars,
       Plain!cancelVars, cancelVars

(* Each step of a plain stream is one of the common steps.                 *)
LEMMA PlainStep == Plain!Next => StreamNext
BY PlainHelpers, PlainCommon, PlainYield, PlainFinish, PlainNext, PlainCall
   DEF Plain!Next, StreamNext

LEMMA ThrowingHelpers ==
  /\ Throwing!Threads = Threads /\ Throwing!Nil = Nil /\ Throwing!Failure = Failure
  /\ Throwing!NoHandler = NoHandler /\ Throwing!TerminationHandlers = TerminationHandlers
  /\ \A t : Throwing!Free(t) <=> Free(t)
  /\ \A t, kind : Throwing!Doing(t, kind) <=> Doing(t, kind)
  /\ \A h : Throwing!CallIfSet(h) = CallIfSet(h)
  /\ \A b, v : Throwing!Enqueue(b, v) = Enqueue(b, v) /\ Throwing!Dropped(b, v) = Dropped(b, v)
  /\ \A c : Throwing!RecordLocked(c) <=> RecordLocked(c)
BY DEF Throwing!Threads, Threads, Throwing!Nil, Nil, Throwing!Failure, Failure,
       Throwing!NoHandler, NoHandler, Throwing!TerminationHandlers,
       TerminationHandlers, Throwing!Free, Free, Throwing!Doing, Doing,
       Throwing!CallIfSet, CallIfSet, Throwing!RecordLocked, RecordLocked,
       Throwing!Full, Full, Throwing!Enqueue, Enqueue, Throwing!Dropped, Dropped

LEMMA ThrowingThread ==
  ASSUME NEW t
  PROVE  /\ Throwing!CallHandler(t) => CallHandler(t)
         /\ Throwing!ResumeContinuation(t) => ResumeContinuation(t)
         /\ Throwing!CancelStorage(t) => CancelStorage(t)
BY ThrowingHelpers
   DEF Throwing!CallHandler, CallHandler, Throwing!ResumeContinuation,
       ResumeContinuation, Throwing!CancelStorage, CancelStorage, Throwing!Then,
       Then, Throwing!bufferVars, bufferVars, Throwing!handlerVars, handlerVars,
       Throwing!consumerVars, consumerVars, Throwing!cancelVars, cancelVars

LEMMA ThrowingProducer ==
  ASSUME NEW p
  PROVE  /\ Throwing!SetOnTermination(p) => SetOnTermination(p)
BY ThrowingHelpers
   DEF Throwing!SetOnTermination, SetOnTermination, Throwing!Then, Then,
       Throwing!bufferVars, bufferVars, Throwing!handlerVars, handlerVars,
       Throwing!consumerVars, consumerVars, Throwing!cancelVars, cancelVars

LEMMA ThrowingConsumer ==
  ASSUME NEW c
  PROVE  /\ Throwing!EnterNext(c) => EnterNext(c)
         /\ Throwing!ReturnFromNext(c) => ReturnFromNext(c)
         /\ Throwing!DropStream(c) => DropStream(c)
BY ThrowingHelpers
   DEF Throwing!EnterNext, EnterNext, Throwing!ReturnFromNext, ReturnFromNext,
       Throwing!DropStream, DropStream, Throwing!Then, Then, Throwing!bufferVars,
       bufferVars, Throwing!handlerVars, handlerVars, Throwing!consumerVars,
       consumerVars, Throwing!cancelVars, cancelVars

LEMMA ThrowingCanceller ==
  ASSUME NEW k
  PROVE  /\ Throwing!CancelTask(k) => CancelTask(k)
         /\ Throwing!LockAndCancel(k) => LockAndCancel(k)
         /\ Throwing!UnlockRecords(k) => UnlockRecords(k)
BY ThrowingHelpers
   DEF Throwing!CancelTask, CancelTask, Throwing!LockAndCancel, LockAndCancel,
       Throwing!UnlockRecords, UnlockRecords, Throwing!Then, Then,
       Throwing!bufferVars, bufferVars, Throwing!handlerVars, handlerVars,
       Throwing!consumerVars, consumerVars, Throwing!cancelVars, cancelVars

LEMMA ThrowingRest ==
  /\ Throwing!Init <=> Init
  /\ Throwing!FreeStorage => FreeStorage
BY ThrowingHelpers
   DEF Throwing!Init, Init, Throwing!FreeStorage, FreeStorage, Throwing!bufferVars,
       bufferVars, Throwing!consumerVars, consumerVars, Throwing!cancelVars,
       cancelVars

LEMMA ThrowingCommon == Throwing!CommonNext => CommonNext
BY ThrowingHelpers, ThrowingThread, ThrowingProducer, ThrowingConsumer,
     ThrowingCanceller, ThrowingRest
   DEF Throwing!CommonNext, CommonNext, Throwing!Continue, Continue,
       Throwing!CancelStep, CancelStep

(* The optional continuation is the head of a queue of at most one.        *)
LEMMA AtMostOne ==
  ASSUME continuations \in Seq(Consumers), Len(continuations) <= 1
  PROVE  /\ continuations # <<>> => Tail(continuations) = <<>>
         /\ \A c \in Consumers : continuations = <<>> =>
              LET queue == Append(continuations, c)
              IN  queue = <<c>> /\ Head(queue) = c /\ Tail(queue) = <<>>
<1>1. ASSUME continuations # <<>> PROVE Tail(continuations) = <<>>
  <2>1. Tail(continuations) \in Seq(Consumers)
        /\ Len(Tail(continuations)) = Len(continuations) - 1
        /\ Len(continuations) \in Nat \ {0}
    BY <1>1, HeadTailProperties, EmptySeq
  <2> QED
    BY <2>1, EmptySeq
<1>2. ASSUME NEW c \in Consumers, continuations = <<>>
      PROVE  Append(continuations, c) = <<c>>
  BY <1>2
<1>3. ASSUME NEW c \in Consumers
      PROVE  Head(<<c>>) = c /\ Tail(<<c>>) = <<>>
  OBVIOUS
<1> QED
  BY <1>1, <1>2, <1>3

LEMMA ThrowingYield ==
  ASSUME NEW p, Throwing!Yield(p),
         continuations \in Seq(Consumers), Len(continuations) <= 1
  PROVE  YieldSection(p)
<1>1. Throwing!Ending \in Endings /\ Throwing!Nil = Nil
  BY ThrowingHelpers DEF Endings, Throwing!Ending
<1>2. TerminalStays
  BY DEF Throwing!Yield, TerminalStays
<1>3. UNCHANGED <<handlerVars, consumerVars, cancelVars, handle>>
  BY DEF Throwing!Yield, Throwing!handlerVars, handlerVars,
         Throwing!consumerVars, consumerVars, Throwing!cancelVars, cancelVars
<1>4. continuations' = IF continuations # <<>> THEN Tail(continuations)
                       ELSE continuations
  BY AtMostOne DEF Throwing!Yield
<1> QED
  BY ThrowingHelpers, <1>1, <1>2, <1>3, <1>4
     DEF Throwing!Yield, YieldSection

LEMMA ThrowingFinish ==
  ASSUME NEW t, Throwing!Finish(t),
         continuations \in Seq(Consumers), Len(continuations) <= 1
  PROVE  FinishSection(t)
<1>1. Throwing!Ending' \in Endings /\ Throwing!Nil = Nil
  BY ThrowingHelpers DEF Endings, Throwing!Ending
<1>2. terminal' # "open" /\ terminal' \in {terminal} \cup Ended
  BY DEF Throwing!Finish, Throwing!EndsAs, Ended
<1>3. UNCHANGED <<yields, discarded, installed, replaced, calls, consumerVars,
                  cancelVars, handle>>
  BY DEF Throwing!Finish, Throwing!consumerVars, consumerVars,
         Throwing!cancelVars, cancelVars
<1>4. continuations' = IF continuations # <<>> THEN Tail(continuations)
                       ELSE continuations
  BY AtMostOne DEF Throwing!Finish
<1> QED
  BY ThrowingHelpers, <1>1, <1>2, <1>3, <1>4
     DEF Throwing!Finish, FinishSection, Throwing!Then, Then

LEMMA ThrowingNext ==
  ASSUME NEW c \in Consumers, Throwing!NextContinuation(c),
         continuations \in Seq(Consumers), Len(continuations) <= 1
  PROVE  NextSection(c) \/ SecondWaiter(c)
<1>1. Throwing!Ending \in Endings /\ Throwing!Nil = Nil
  BY ThrowingHelpers DEF Endings, Throwing!Ending
<1>2. TerminalStays
  BY DEF Throwing!NextContinuation, TerminalStays
<1>3. UNCHANGED <<yields, discarded, handlerVars, nexts, slot, received, cancelVars,
                  handle>>
  BY DEF Throwing!NextContinuation, Throwing!handlerVars, handlerVars,
         Throwing!cancelVars, cancelVars
<1>4. CASE continuations # <<>>
  BY <1>3, <1>4
     DEF Throwing!NextContinuation, SecondWaiter, bufferVars
<1>5. CASE continuations = <<>>
  BY ThrowingHelpers, <1>1, <1>2, <1>3, <1>5, AtMostOne
     DEF Throwing!NextContinuation, NextSection
<1> QED
  BY <1>4, <1>5

LEMMA ThrowingCall ==
  ASSUME NEW p, NEW e \in {Throwing!Nil, Throwing!Failure}, Throwing!CallFinish(p, e)
  PROVE  CallFinishSection(p)
BY ThrowingHelpers
   DEF Throwing!CallFinish, CallFinishSection, Endings, Throwing!bufferVars, bufferVars,
       Throwing!handlerVars, handlerVars, Throwing!consumerVars, consumerVars,
       Throwing!cancelVars, cancelVars

(* So is each step of a throwing stream, where one consumer waits at most, *)
(* and that remains so.                                                    *)
LEMMA ThrowingStep ==
  ASSUME Throwing!Next, continuations \in Seq(Consumers), Len(continuations) <= 1
  PROVE  StreamNext
BY ThrowingHelpers, ThrowingCommon, ThrowingYield, ThrowingFinish, ThrowingNext,
   ThrowingCall
   DEF Throwing!Next, StreamNext
-----------------------------------------------------------------------------
(* The lists of effects.                                                   *)

LEMMA ListCases ==
  ASSUME NEW list \in EffectLists
  PROVE  \/ list = << <<"cancel">> >>
         \/ list \in Rests
         \/ \E h \in TerminationHandlers, rest \in Rests : list = << <<"call", h>> >> \o rest
<1>1. CASE list = << <<"cancel">> >>
  BY <1>1
<1>2. ASSUME NEW first \in Calls, NEW rest \in Rests, list = first \o rest
      PROVE  \/ list \in Rests
             \/ \E h \in TerminationHandlers : list = << <<"call", h>> >> \o rest
  <2>1. CASE first = <<>>
    <3>1. <<>> \o rest = rest
      BY DEF Rests
    <3> QED
      BY <1>2, <2>1, <3>1
  <2>2. CASE first # <<>>
    BY <1>2, <2>2 DEF Calls
  <2> QED
    BY <2>1, <2>2
<1>3. list = << <<"cancel">> >> \/ \E first \in Calls, rest \in Rests : list = first \o rest
  BY DEF EffectLists
<1> QED
  BY <1>1, <1>2, <1>3

(* What each kind of rest is and does.                                     *)
LEMMA RestCases ==
  ASSUME NEW rest \in Rests
  PROVE  \/ rest = <<>>
         \/ \E e \in Endings : rest = << <<"finish", e>> >>
         \/ \E c \in Consumers, r \in Results : rest = << <<"resume", c, r>> >>
BY DEF Rests

LEMMA EmptyList ==
  /\ \A h : ~ CallsIn(<<>>, h)
  /\ \A c : ~ WakesIn(<<>>, c)
BY DEF CallsIn, WakesIn

LEMMA OneItem ==
  ASSUME NEW item
  PROVE  /\ << item >> # <<>> /\ Len(<< item >>) = 1 /\ << item >>[1] = item
         /\ Head(<< item >>) = item /\ Tail(<< item >>) = <<>>
OBVIOUS

LEMMA TwoItems ==
  ASSUME NEW item, NEW next
  PROVE  LET list == << item >> \o << next >>
         IN  /\ list # <<>> /\ Len(list) = 2 /\ list[1] = item /\ list[2] = next
             /\ Head(list) = item /\ Tail(list) = << next >>
<1> DEFINE S == {item, next}
<1>1. << item >> \in Seq(S) /\ << next >> \in Seq(S) /\ << item, next >> \in Seq(S)
  OBVIOUS
<1>2. /\ << item >> \o << next >> \in Seq(S) /\ Len(<< item >> \o << next >>) = 2
      /\ (<< item >> \o << next >>)[1] = item /\ (<< item >> \o << next >>)[2] = next
  BY <1>1, ConcatProperties
<1>3. /\ Len(<< item, next >>) = 2
      /\ << item, next >>[1] = item /\ << item, next >>[2] = next
      /\ << item, next >> # <<>>
      /\ Head(<< item, next >>) = item
  OBVIOUS
<1>4. << item >> \o << next >> = << item, next >>
  <2> DEFINE a == << item >> \o << next >>
             b == << item, next >>
  <2>1. /\ a \in Seq(S) /\ b \in Seq(S) /\ Len(a) = 2 /\ Len(b) = 2
        /\ a[1] = b[1] /\ a[2] = b[2]
    BY <1>1, <1>2, <1>3
  <2> HIDE DEF S, a, b
  <2>2. \A i \in 1 .. Len(a) : a[i] = b[i]
    <3>1. 1 .. Len(a) = {1, 2}
      BY <2>1
    <3> QED
      BY <2>1, <3>1
  <2>3. a = b
    BY <2>1, <2>2, SeqEqual
  <2> QED
    BY <2>3 DEF a, b
<1>5. Tail(<< item, next >>) = << next >>
  <2>1. /\ Tail(<< item, next >>) \in Seq(S) /\ Len(Tail(<< item, next >>)) = 1
        /\ Tail(<< item, next >>)[1] = next
    BY <1>1, <1>3, HeadTailProperties
  <2> QED
    BY <1>1, <2>1, SeqEqual
<1> QED
  BY <1>2, <1>3, <1>4, <1>5

LEMMA ItemKinds ==
  /\ <<"cancel">>[1] = "cancel"
  /\ \A e : <<"finish", e>>[1] = "finish" /\ <<"finish", e>>[2] = e
  /\ \A h : <<"call", h>>[1] = "call" /\ <<"call", h>>[2] = h
  /\ \A c, r : /\ <<"resume", c, r>>[1] = "resume"
               /\ <<"resume", c, r>>[2] = c /\ <<"resume", c, r>>[3] = r
OBVIOUS
LEMMA ListOf ==
  ASSUME NEW first \in Calls, NEW rest \in Rests
  PROVE  first \o rest \in EffectLists
<1> DEFINE lists == {a \o b : a \in Calls, b \in Rests}
<1>1. first \o rest \in lists
  OBVIOUS
<1> QED
  BY <1>1 DEF EffectLists

LEMMA CancelItem ==
  /\ << <<"cancel">> >> \in EffectLists
  /\ \A h : ~ CallsIn(<< <<"cancel">> >>, h)
  /\ \A c : ~ WakesIn(<< <<"cancel">> >>, c)
<1> DEFINE item == <<"cancel">>
<1>1. item[1] = "cancel"
  BY ItemKinds
<1> HIDE DEF item
<1>2. \A h : ~ CallsIn(<< item >>, h)
  BY <1>1, OneItem DEF CallsIn
<1>3. \A c : ~ WakesIn(<< item >>, c)
  BY <1>1, OneItem DEF WakesIn
<1> QED
  BY <1>2, <1>3 DEF EffectLists, item

LEMMA FinishItem ==
  ASSUME NEW e \in Endings
  PROVE  /\ << <<"finish", e>> >> \in Rests
         /\ \A h : ~ CallsIn(<< <<"finish", e>> >>, h)
         /\ \A c : ~ WakesIn(<< <<"finish", e>> >>, c)
<1> DEFINE item == <<"finish", e>>
<1>1. item[1] = "finish"
  BY ItemKinds
<1>2. << item >> \in Rests
  BY DEF Rests
<1> HIDE DEF item
<1>3. \A h : ~ CallsIn(<< item >>, h)
  BY <1>1, OneItem DEF CallsIn
<1>4. \A c : ~ WakesIn(<< item >>, c)
  BY <1>1, OneItem DEF WakesIn
<1> QED
  BY <1>2, <1>3, <1>4 DEF item

LEMMA ResumeItem ==
  ASSUME NEW c \in Consumers, NEW r \in Results
  PROVE  /\ << <<"resume", c, r>> >> \in Rests
         /\ \A h : ~ CallsIn(<< <<"resume", c, r>> >>, h)
         /\ \A d : WakesIn(<< <<"resume", c, r>> >>, d) <=> d = c
         /\ ResultIn(<< <<"resume", c, r>> >>) = r
<1> DEFINE item == <<"resume", c, r>>
<1>1. item[1] = "resume" /\ item[2] = c /\ item[3] = r
  BY ItemKinds
<1>2. << item >> \in Rests
  BY DEF Rests
<1> HIDE DEF item
<1>3. \A h : ~ CallsIn(<< item >>, h)
  BY <1>1, OneItem DEF CallsIn
<1>4. \A d : WakesIn(<< item >>, d) <=> d = c
  BY <1>1, OneItem DEF WakesIn
<1>5. ResultIn(<< item >>) = r
  BY <1>1, OneItem DEF ResultIn
<1> QED
  BY <1>2, <1>3, <1>4, <1>5 DEF item

LEMMA RestFacts ==
  ASSUME NEW rest \in Rests
  PROVE  /\ rest \in EffectLists
         /\ \A h : ~ CallsIn(rest, h)
         /\ rest # <<>> => Tail(rest) = <<>>
<1>1. rest \in EffectLists
  <2>1. <<>> \o rest = rest
    BY DEF Rests
  <2>2. <<>> \in Calls
    BY DEF Calls
  <2> QED
    BY <2>1, <2>2, ListOf
<1>2. CASE rest = <<>>
  BY <1>1, <1>2, EmptyList
<1>3. ASSUME NEW e \in Endings, rest = << <<"finish", e>> >>
      PROVE  (\A h : ~ CallsIn(rest, h)) /\ Tail(rest) = <<>>
  BY <1>3, FinishItem, OneItem
<1>4. ASSUME NEW c \in Consumers, NEW r \in Results, rest = << <<"resume", c, r>> >>
      PROVE  (\A h : ~ CallsIn(rest, h)) /\ Tail(rest) = <<>>
  BY <1>4, ResumeItem, OneItem
<1> QED
  BY <1>1, <1>2, <1>3, <1>4, RestCases

(* A handler to call comes before the rest and hides nothing of it.        *)
LEMMA CallThenRest ==
  ASSUME NEW h \in TerminationHandlers, NEW rest \in Rests
  PROVE  LET list == << <<"call", h>> >> \o rest
         IN  /\ list \in EffectLists /\ list # <<>>
             /\ Head(list) = <<"call", h>> /\ Tail(list) = rest
             /\ \A g : CallsIn(list, g) <=> g = h
             /\ \A c : WakesIn(list, c) <=> WakesIn(rest, c)
             /\ rest # <<>> => ResultIn(list) = ResultIn(rest)
<1> DEFINE item == <<"call", h>>
           list == << item >> \o rest
<1>1. item[1] = "call" /\ item[2] = h
  BY ItemKinds
<1>2. list \in EffectLists
  <2>1. << item >> \in Calls
    BY DEF Calls
  <2> QED
    BY <2>1, ListOf
<1> HIDE DEF item
<1>3. CASE rest = <<>>
  <2>1. list = << item >>
    BY <1>3
  <2> HIDE DEF list
  <2>2. list # <<>> /\ Head(list) = item /\ Tail(list) = rest
    BY <1>3, <2>1, OneItem
  <2>3. \A g : CallsIn(list, g) <=> g = h
    BY <2>1, <1>1, OneItem DEF CallsIn
  <2>4. \A c : WakesIn(list, c) <=> WakesIn(rest, c)
    BY <2>1, <1>1, <1>3, OneItem, EmptyList DEF WakesIn
  <2> QED
    BY <1>2, <1>3, <2>2, <2>3, <2>4 DEF list, item
<1>4. ASSUME NEW next, rest = << next >>
      PROVE  /\ list # <<>> /\ Head(list) = item /\ Tail(list) = rest
             /\ \A g : CallsIn(list, g) <=> g = h
             /\ \A c : WakesIn(list, c) <=> WakesIn(rest, c)
             /\ ResultIn(list) = ResultIn(rest)
  <2>1. /\ list # <<>> /\ Len(list) = 2 /\ list[1] = item /\ list[2] = next
        /\ Head(list) = item /\ Tail(list) = rest
    BY <1>4, TwoItems
  <2>2. rest # <<>> /\ Len(rest) = 1 /\ rest[1] = next
    BY <1>4, OneItem
  <2> HIDE DEF list
  <2>3. \A g : CallsIn(list, g) <=> g = h
    BY <2>1, <1>1 DEF CallsIn
  <2>4. \A c : WakesIn(list, c) <=> WakesIn(rest, c)
    BY <2>1, <2>2 DEF WakesIn
  <2>5. ResultIn(list) = ResultIn(rest)
    BY <2>1, <2>2 DEF ResultIn
  <2> QED
    BY <2>1, <2>3, <2>4, <2>5
<1>5. rest = <<>> \/ \E next : rest = << next >>
  BY RestCases
<1> QED
  BY <1>2, <1>3, <1>4, <1>5 DEF list, item
LEMMA DoingCases ==
  ASSUME NEW t \in Threads, effects \in [Threads -> EffectLists]
  PROVE  /\ Doing(t, "call") =>
              \E h \in TerminationHandlers, rest \in Rests :
                effects[t] = << <<"call", h>> >> \o rest
         /\ Doing(t, "resume") =>
              \E c \in Consumers, r \in Results : effects[t] = << <<"resume", c, r>> >>
         /\ Doing(t, "cancel") => effects[t] = << <<"cancel">> >>
         /\ Doing(t, "finish") =>
              \E e \in Endings : effects[t] = << <<"finish", e>> >>
<1>1. effects[t] \in EffectLists
  OBVIOUS
<1>2. ASSUME NEW h \in TerminationHandlers, NEW rest \in Rests,
             effects[t] = << <<"call", h>> >> \o rest
      PROVE  Head(effects[t])[1] = "call"
  BY <1>2, CallThenRest, ItemKinds
<1>3. ASSUME NEW c \in Consumers, NEW r \in Results,
             effects[t] = << <<"resume", c, r>> >>
      PROVE  Head(effects[t])[1] = "resume"
  BY <1>3, OneItem, ItemKinds
<1>4. ASSUME NEW e \in Endings, effects[t] = << <<"finish", e>> >>
      PROVE  Head(effects[t])[1] = "finish"
  BY <1>4, OneItem, ItemKinds
<1>5. ASSUME effects[t] = << <<"cancel">> >>
      PROVE  Head(effects[t])[1] = "cancel"
  BY <1>5, OneItem, ItemKinds
<1>6. \/ effects[t] = <<>>
      \/ effects[t] = << <<"cancel">> >>
      \/ \E e \in Endings : effects[t] = << <<"finish", e>> >>
      \/ \E c \in Consumers, r \in Results : effects[t] = << <<"resume", c, r>> >>
      \/ \E h \in TerminationHandlers, rest \in Rests :
           effects[t] = << <<"call", h>> >> \o rest
  BY <1>1, ListCases, RestCases
<1>7. "call" # "resume" /\ "call" # "cancel" /\ "call" # "finish"
      /\ "resume" # "cancel" /\ "resume" # "finish" /\ "cancel" # "finish"
  OBVIOUS
<1> QED
  BY <1>2, <1>3, <1>4, <1>5, <1>6, <1>7 DEF Doing

-----------------------------------------------------------------------------
(* What a step does to the lists, as far as the invariants see it.         *)

WakesSame ==
  \A u \in Threads, c \in Consumers :
    /\ WakesIn(effects'[u], c) <=> WakesIn(effects[u], c)
    /\ WakesIn(effects[u], c) => ResultIn(effects'[u]) = ResultIn(effects[u])
WakesMore(t, d, r) ==
  /\ ResultIn(effects'[t]) = r
  /\ \A u \in Threads, c \in Consumers :
       /\ WakesIn(effects'[u], c) <=> WakesIn(effects[u], c) \/ (u = t /\ c = d)
       /\ WakesIn(effects[u], c) => ResultIn(effects'[u]) = ResultIn(effects[u])
WakesLess(t, d, r) ==
  /\ WakesIn(effects[t], d) /\ ResultIn(effects[t]) = r
  /\ \A u \in Threads, c \in Consumers :
       /\ WakesIn(effects'[u], c) <=> WakesIn(effects[u], c) /\ ~ (u = t /\ c = d)
       /\ WakesIn(effects'[u], c) => ResultIn(effects'[u]) = ResultIn(effects[u])

CallsSame ==
  \A u \in Threads, h \in TerminationHandlers :
    CallsIn(effects'[u], h) <=> CallsIn(effects[u], h)
CallsMore(t, g) ==
  \A u \in Threads, h \in TerminationHandlers :
    CallsIn(effects'[u], h) <=> CallsIn(effects[u], h) \/ (u = t /\ h = g)
CallsLess(t, g) ==
  /\ CallsIn(effects[t], g)
  /\ \A u \in Threads, h \in TerminationHandlers :
       CallsIn(effects'[u], h) <=> CallsIn(effects[u], h) /\ ~ (u = t /\ h = g)

LEMMA SetList ==
  ASSUME EffectTypes, NEW t \in Threads, NEW list \in EffectLists,
         effects' = [effects EXCEPT ![t] = list]
  PROVE  /\ EffectTypes' /\ effects'[t] = list
         /\ \A u \in Threads : u # t => effects'[u] = effects[u]
BY DEF EffectTypes

LEMMA NothingDone ==
  ASSUME UNCHANGED effects
  PROVE  WakesSame /\ CallsSame
BY DEF WakesSame, CallsSame

(* A list that wakes nobody and calls nothing is replaced by another.      *)
LEMMA QuietList ==
  ASSUME EffectTypes, NEW t \in Threads, NEW list \in EffectLists,
         effects' = [effects EXCEPT ![t] = list],
         \A h : ~ CallsIn(effects[t], h) /\ ~ CallsIn(list, h),
         \A c : ~ WakesIn(effects[t], c) /\ ~ WakesIn(list, c)
  PROVE  EffectTypes' /\ WakesSame /\ CallsSame
BY SetList DEF WakesSame, CallsSame

LEMMA CallEffect ==
  ASSUME EffectTypes, NEW t \in Threads, CallHandler(t)
  PROVE  /\ EffectTypes' /\ WakesSame
         /\ \E h \in TerminationHandlers :
              CallsLess(t, h) /\ calls' = [calls EXCEPT ![h] = @ + 1]
<1>1. PICK h \in TerminationHandlers, rest \in Rests :
        effects[t] = << <<"call", h>> >> \o rest
  BY DoingCases DEF CallHandler, EffectTypes
<1>2. /\ Head(effects[t]) = <<"call", h>> /\ Tail(effects[t]) = rest
      /\ \A g : CallsIn(effects[t], g) <=> g = h
      /\ \A c : WakesIn(effects[t], c) <=> WakesIn(rest, c)
      /\ rest # <<>> => ResultIn(effects[t]) = ResultIn(rest)
  BY <1>1, CallThenRest
<1>3. rest \in EffectLists /\ \A g : ~ CallsIn(rest, g)
  BY RestFacts
<1>4. <<>> \o rest = rest
  BY DEF Rests
<1>5. effects' = [effects EXCEPT ![t] = rest]
  BY <1>2, <1>4 DEF CallHandler, Then
<1>6. EffectTypes' /\ effects'[t] = rest
      /\ \A u \in Threads : u # t => effects'[u] = effects[u]
  BY <1>3, <1>5, SetList
<1>7. WakesSame
  BY <1>2, <1>6, EmptyList DEF WakesSame
<1>8. CallsLess(t, h)
  BY <1>2, <1>3, <1>6 DEF CallsLess
<1>9. calls' = [calls EXCEPT ![h] = @ + 1]
  <2>1. Head(effects[t])[2] = h
    BY <1>2, ItemKinds
  <2> QED
    BY <2>1 DEF CallHandler
<1> QED
  BY <1>6, <1>7, <1>8, <1>9

LEMMA ResumeEffect ==
  ASSUME EffectTypes, NEW t \in Threads, ResumeContinuation(t)
  PROVE  /\ EffectTypes' /\ CallsSame
         /\ \E c \in Consumers, r \in Results :
              WakesLess(t, c, r) /\ slot' = [slot EXCEPT ![c] = Append(@, r)]
<1>1. PICK c \in Consumers, r \in Results : effects[t] = << <<"resume", c, r>> >>
  BY DoingCases DEF ResumeContinuation, EffectTypes
<1>2. Head(effects[t]) = <<"resume", c, r>> /\ Tail(effects[t]) = <<>>
  BY <1>1, OneItem
<1>3. /\ \A h : ~ CallsIn(effects[t], h)
      /\ \A d : WakesIn(effects[t], d) <=> d = c
      /\ ResultIn(effects[t]) = r
  BY <1>1, ResumeItem
<1>4. <<>> \in EffectLists /\ <<>> \o <<>> = <<>>
  BY RestFacts DEF Rests
<1>5. effects' = [effects EXCEPT ![t] = <<>>]
  BY <1>2, <1>4 DEF ResumeContinuation, Then
<1>6. EffectTypes' /\ effects'[t] = <<>>
      /\ \A u \in Threads : u # t => effects'[u] = effects[u]
  BY <1>4, <1>5, SetList
<1>7. CallsSame
  BY <1>3, <1>6, EmptyList DEF CallsSame
<1>8. WakesLess(t, c, r)
  BY <1>3, <1>6, EmptyList DEF WakesLess
<1>9. slot' = [slot EXCEPT ![c] = Append(@, r)]
  <2>1. Head(effects[t])[2] = c /\ Head(effects[t])[3] = r
    BY <1>2, ItemKinds
  <2> QED
    BY <2>1 DEF ResumeContinuation
<1> QED
  BY <1>6, <1>7, <1>8, <1>9

(* cancel() and finish() take the handler along.                           *)
LEMMA HandlerFirst ==
  ASSUME NEW h \in 0 .. MaxHandlers, NEW rest \in Rests
  PROVE  /\ CallIfSet(h) \o rest \in EffectLists
         /\ \A g \in TerminationHandlers : CallsIn(CallIfSet(h) \o rest, g) <=> g = h
         /\ \A c : WakesIn(CallIfSet(h) \o rest, c) <=> WakesIn(rest, c)
         /\ rest # <<>> => ResultIn(CallIfSet(h) \o rest) = ResultIn(rest)
<1>1. CASE h = NoHandler
  <2>1. CallIfSet(h) \o rest = rest
    BY <1>1 DEF CallIfSet, Rests
  <2>2. \A g \in TerminationHandlers : g # h
    BY <1>1 DEF NoHandler, TerminationHandlers
  <2> QED
    BY <2>1, <2>2, RestFacts
<1>2. CASE h # NoHandler
  <2>1. h \in TerminationHandlers
    BY <1>2, StreamBoundsAssumption DEF NoHandler, TerminationHandlers
  <2>2. CallIfSet(h) \o rest = << <<"call", h>> >> \o rest
    BY <1>2 DEF CallIfSet
  <2> QED
    BY <2>1, <2>2, CallThenRest
<1> QED
  BY <1>1, <1>2

LEMMA CancelEffect ==
  ASSUME EffectTypes, onTermination \in 0 .. MaxHandlers,
         NEW t \in Threads, CancelStorage(t)
  PROVE  EffectTypes' /\ WakesSame /\ CallsMore(t, onTermination)
<1>1. effects[t] = << <<"cancel">> >>
  BY DoingCases DEF CancelStorage, EffectTypes
<1> DEFINE rest == << <<"finish", Nil>> >>
           list == CallIfSet(onTermination) \o rest
<1>2. Nil \in Endings
  BY DEF Endings
<1>3. rest \in Rests /\ \A c : ~ WakesIn(rest, c)
  BY <1>2, FinishItem
<1>4. list \o <<>> = list
  BY DEF CallIfSet
<1> HIDE DEF rest
<1>5. /\ list \in EffectLists
      /\ \A g \in TerminationHandlers : CallsIn(list, g) <=> g = onTermination
      /\ \A c : ~ WakesIn(list, c)
  BY <1>3, HandlerFirst
<1>6. effects' = [effects EXCEPT ![t] = list]
  BY <1>1, <1>4, OneItem DEF CancelStorage, Then, rest
<1> HIDE DEF list
<1>7. EffectTypes' /\ effects'[t] = list
      /\ \A u \in Threads : u # t => effects'[u] = effects[u]
  BY <1>5, <1>6, SetList
<1>8. WakesSame
  BY <1>1, <1>5, <1>7, CancelItem DEF WakesSame
<1>9. CallsMore(t, onTermination)
  BY <1>1, <1>5, <1>7, CancelItem DEF CallsMore
<1> QED
  BY <1>7, <1>8, <1>9
(* A section that hands a result to a consumer, or to nobody.              *)
LEMMA HandOver ==
  ASSUME EffectTypes, NEW t \in Threads, NEW d \in Consumers, NEW r \in Results,
         NEW h \in 0 .. MaxHandlers,
         \A g : ~ CallsIn(effects[t], g), \A c : ~ WakesIn(effects[t], c),
         effects' = [effects EXCEPT ![t] = CallIfSet(h) \o << <<"resume", d, r>> >>]
  PROVE  EffectTypes' /\ WakesMore(t, d, r) /\ CallsMore(t, h)
<1> DEFINE rest == << <<"resume", d, r>> >>
           list == CallIfSet(h) \o rest
<1>1. /\ rest \in Rests /\ rest # <<>> /\ ResultIn(rest) = r
      /\ \A c : WakesIn(rest, c) <=> c = d
  BY ResumeItem, OneItem
<1> HIDE DEF rest
<1>2. /\ list \in EffectLists
      /\ \A g \in TerminationHandlers : CallsIn(list, g) <=> g = h
      /\ \A c : WakesIn(list, c) <=> c = d
      /\ ResultIn(list) = r
  BY <1>1, HandlerFirst
<1>3. effects' = [effects EXCEPT ![t] = list]
  BY DEF rest
<1> HIDE DEF list
<1>4. EffectTypes' /\ effects'[t] = list
      /\ \A u \in Threads : u # t => effects'[u] = effects[u]
  BY <1>2, <1>3, SetList
<1>5. WakesMore(t, d, r)
  BY <1>2, <1>4 DEF WakesMore
<1>6. CallsMore(t, h)
  BY <1>2, <1>4 DEF CallsMore
<1> QED
  BY <1>4, <1>5, <1>6

LEMMA HandNothing ==
  ASSUME EffectTypes, NEW t \in Threads, NEW h \in 0 .. MaxHandlers,
         \A g : ~ CallsIn(effects[t], g), \A c : ~ WakesIn(effects[t], c),
         effects' = [effects EXCEPT ![t] = CallIfSet(h) \o <<>>]
  PROVE  EffectTypes' /\ WakesSame /\ CallsMore(t, h)
<1> DEFINE list == CallIfSet(h) \o <<>>
<1>1. <<>> \in Rests
  BY DEF Rests
<1>2. /\ list \in EffectLists
      /\ \A g \in TerminationHandlers : CallsIn(list, g) <=> g = h
      /\ \A c : ~ WakesIn(list, c)
  BY <1>1, HandlerFirst, EmptyList
<1>3. effects' = [effects EXCEPT ![t] = list]
  OBVIOUS
<1> HIDE DEF list
<1>4. EffectTypes' /\ effects'[t] = list
      /\ \A u \in Threads : u # t => effects'[u] = effects[u]
  BY <1>2, <1>3, SetList
<1>5. WakesSame
  BY <1>2, <1>4 DEF WakesSame
<1>6. CallsMore(t, h)
  BY <1>2, <1>4 DEF CallsMore
<1> QED
  BY <1>4, <1>5, <1>6

LEMMA NoHandlerCalled ==
  ASSUME NEW t, CallsMore(t, NoHandler)
  PROVE  CallsSame
BY DEF CallsMore, CallsSame, NoHandler, TerminationHandlers

LEMMA FreeList ==
  ASSUME NEW t, Free(t)
  PROVE  (\A g : ~ CallsIn(effects[t], g)) /\ (\A c : ~ WakesIn(effects[t], c))
BY EmptyList DEF Free
-----------------------------------------------------------------------------
(* Queues and buffers, by what is in them.                                 *)

LEMMA InSequence ==
  ASSUME NEW S, NEW s \in Seq(S), NEW v
  PROVE  v \in ElementsOf(s) <=> \E i \in 1 .. Len(s) : s[i] = v
BY DEF ElementsOf

LEMMA EmptyHasNothing ==
  /\ ElementsOf(<<>>) = {}
  /\ \A v : OnceIn(<<>>, v)
BY DEF ElementsOf, OnceIn

LEMMA AppendElements ==
  ASSUME NEW S, NEW s \in Seq(S), NEW x \in S
  PROVE  /\ Append(s, x) \in Seq(S)
         /\ \A v : v \in ElementsOf(Append(s, x)) <=> v \in ElementsOf(s) \/ v = x
         /\ \A v : OnceIn(s, v) /\ (v = x => v \notin ElementsOf(s))
                     => OnceIn(Append(s, x), v)
<1> DEFINE t == Append(s, x)
<1>1. /\ t \in Seq(S) /\ Len(t) = Len(s) + 1 /\ Len(s) \in Nat
      /\ \A i \in 1 .. Len(s) : t[i] = s[i]
      /\ t[Len(s) + 1] = x
  BY AppendProperties, LenProperties
<1> HIDE DEF t
<1>2. ASSUME NEW v
      PROVE  v \in ElementsOf(t) <=> v \in ElementsOf(s) \/ v = x
  <2>1. ASSUME v \in ElementsOf(t) PROVE v \in ElementsOf(s) \/ v = x
    <3>1. PICK i \in 1 .. Len(t) : t[i] = v
      BY <2>1 DEF ElementsOf
    <3> QED
      BY <1>1, <3>1 DEF ElementsOf
  <2>2. ASSUME v \in ElementsOf(s) PROVE v \in ElementsOf(t)
    <3>1. PICK i \in 1 .. Len(s) : s[i] = v
      BY <2>2 DEF ElementsOf
    <3>2. i \in 1 .. Len(t) /\ t[i] = v
      BY <1>1, <3>1
    <3> QED
      BY <3>2 DEF ElementsOf
  <2>3. x \in ElementsOf(t)
    <3>1. Len(s) + 1 \in 1 .. Len(t)
      BY <1>1
    <3> QED
      BY <1>1, <3>1 DEF ElementsOf
  <2> QED
    BY <2>1, <2>2, <2>3
<1>3. ASSUME NEW v, OnceIn(s, v), v = x => v \notin ElementsOf(s)
      PROVE  OnceIn(t, v)
  <2>1. ASSUME NEW i \in 1 .. Len(t), NEW j \in 1 .. Len(t), t[i] = v, t[j] = v
        PROVE  i = j
    <3>1. CASE i \in 1 .. Len(s) /\ j \in 1 .. Len(s)
      BY <1>1, <1>3, <2>1, <3>1 DEF OnceIn
    <3>2. CASE i = Len(s) + 1 /\ j \in 1 .. Len(s)
      BY <1>1, <1>3, <2>1, <3>2 DEF ElementsOf
    <3>3. CASE j = Len(s) + 1 /\ i \in 1 .. Len(s)
      BY <1>1, <1>3, <2>1, <3>3 DEF ElementsOf
    <3> QED
      BY <1>1, <2>1, <3>1, <3>2, <3>3
  <2> QED
    BY <2>1 DEF OnceIn
<1> QED
  BY <1>1, <1>2, <1>3 DEF t

LEMMA TailElements ==
  ASSUME NEW S, NEW s \in Seq(S), s # <<>>
  PROVE  /\ Head(s) \in S /\ Tail(s) \in Seq(S) /\ Head(s) \in ElementsOf(s)
         /\ \A v : OnceIn(s, v) =>
              /\ v \in ElementsOf(Tail(s)) <=> v \in ElementsOf(s) /\ v # Head(s)
              /\ OnceIn(Tail(s), v)
<1> DEFINE t == Tail(s)
<1>a. Head(s) = s[1]
  OBVIOUS
<1>1. /\ t \in Seq(S) /\ Len(t) = Len(s) - 1 /\ Len(s) \in Nat \ {0}
      /\ \A i \in 1 .. Len(t) : t[i] = s[i + 1]
      /\ Head(s) \in S
  BY HeadTailProperties, EmptySeq
<1> HIDE DEF t
<1>2. Head(s) \in ElementsOf(s)
  <2>1. 1 \in 1 .. Len(s)
    BY <1>1
  <2> QED
    BY <1>a, <2>1 DEF ElementsOf
<1>3. ASSUME NEW v, OnceIn(s, v)
      PROVE  OnceIn(t, v) /\ (v \in ElementsOf(t) <=> v \in ElementsOf(s) /\ v # Head(s))
  <2>1. OnceIn(t, v)
    <3>1. ASSUME NEW i \in 1 .. Len(t), NEW j \in 1 .. Len(t), t[i] = v, t[j] = v
          PROVE  i = j
      <4>1. i + 1 \in 1 .. Len(s) /\ j + 1 \in 1 .. Len(s)
            /\ s[i + 1] = v /\ s[j + 1] = v
        BY <1>1, <3>1
      <4>2. i + 1 = j + 1
        BY <1>3, <4>1 DEF OnceIn
      <4> QED
        BY <3>1, <4>2
    <3> QED
      BY <3>1 DEF OnceIn
  <2>2. ASSUME v \in ElementsOf(t) PROVE v \in ElementsOf(s) /\ v # Head(s)
    <3>1. PICK i \in 1 .. Len(t) : t[i] = v
      BY <2>2 DEF ElementsOf
    <3>2. i + 1 \in 1 .. Len(s) /\ s[i + 1] = v /\ 1 \in 1 .. Len(s) /\ i + 1 # 1
      BY <1>1, <3>1
    <3> QED
      BY <1>a, <1>3, <3>2 DEF ElementsOf, OnceIn
  <2>3. ASSUME v \in ElementsOf(s), v # Head(s) PROVE v \in ElementsOf(t)
    <3>1. PICK i \in 1 .. Len(s) : s[i] = v
      BY <2>3 DEF ElementsOf
    <3>2. i # 1
      BY <1>a, <2>3, <3>1
    <3>3. i - 1 \in 1 .. Len(t) /\ t[i - 1] = v
      BY <1>1, <3>1, <3>2
    <3> QED
      BY <3>3 DEF ElementsOf
  <2> QED
    BY <2>1, <2>2, <2>3
<1> QED
  BY <1>1, <1>2, <1>3 DEF t

LEMMA EmptyOrHead ==
  ASSUME NEW S, NEW s \in Seq(S)
  PROVE  s = <<>> <=> ElementsOf(s) = {}
BY TailElements, EmptyHasNothing

(* Who is served when c has queued up behind the others.                   *)
LEMMA AppendThenTake ==
  ASSUME NEW S, NEW s \in Seq(S), NEW c \in S,
         \A v \in S : OnceIn(s, v), c \notin ElementsOf(s)
  PROVE  LET queue == Append(s, c)
         IN  /\ Head(queue) \in S /\ Tail(queue) \in Seq(S)
             /\ Head(queue) = c \/ Head(queue) \in ElementsOf(s)
             /\ \A v \in S :
                  /\ v \in ElementsOf(Tail(queue)) <=>
                       (v \in ElementsOf(s) \/ v = c) /\ v # Head(queue)
                  /\ OnceIn(Tail(queue), v)
<1> DEFINE queue == Append(s, c)
<1>1. /\ queue \in Seq(S) /\ queue # <<>>
      /\ \A v : v \in ElementsOf(queue) <=> v \in ElementsOf(s) \/ v = c
      /\ \A v \in S : OnceIn(queue, v)
  BY AppendElements, AppendProperties
<1> HIDE DEF queue
<1> QED
  BY <1>1, TailElements DEF queue
-----------------------------------------------------------------------------
(* What each section does, when nobody waits while a value is buffered.    *)

YieldWakes(p, r) ==
  /\ continuations # <<>> /\ pending = <<>>
  /\ continuations' = Tail(continuations) /\ pending' = pending
  /\ WakesMore(p, Head(continuations), r)
  /\ IF terminal = "open" THEN r = yields + 1 /\ discarded' = discarded
     ELSE r \in Endings /\ discarded' = discarded \cup {yields + 1}

YieldStores ==
  /\ continuations = <<>> /\ continuations' = <<>> /\ WakesSame
  /\ IF terminal = "open"
     THEN /\ pending' = Enqueue(pending, yields + 1)
          /\ discarded' = discarded \cup Dropped(pending, yields + 1)
     ELSE pending' = pending /\ discarded' = discarded \cup {yields + 1}

LEMMA ToThreads ==
  /\ Producers \subseteq Threads /\ Consumers \subseteq Threads
  /\ Cancellers \subseteq Threads
BY DEF Threads

LEMMA TypesOfSequences ==
  ASSUME StreamTypes
  PROVE  /\ EffectTypes
         /\ continuations \in Seq(Consumers) /\ pending \in Seq(Values)
         /\ onTermination \in 0 .. MaxHandlers
         /\ yields \in Nat /\ MaxYields \in Nat
BY StreamBoundsAssumption DEF StreamTypes, BufferTypes, HandlerTypes

LEMMA AnyResult ==
  /\ Endings \subseteq Results /\ Values \subseteq Results
BY DEF Results

LEMMA YieldCases ==
  ASSUME StreamTypes, CallInv, NEW p \in Producers, YieldSection(p)
  PROVE  /\ EffectTypes' /\ CallsSame
         /\ yields + 1 \in Values /\ yields' = yields + 1
         /\ YieldStores \/ \E r \in Results : YieldWakes(p, r)
<1>1. EffectTypes /\ continuations \in Seq(Consumers) /\ p \in Threads
  BY ToThreads, TypesOfSequences
<1>2. yields + 1 \in Values /\ yields' = yields + 1
  BY TypesOfSequences DEF YieldSection, Values
<1>3. (\A g : ~ CallsIn(effects[p], g)) /\ (\A c : ~ WakesIn(effects[p], c))
  BY FreeList DEF YieldSection
<1>4. NoHandler \in 0 .. MaxHandlers /\ CallIfSet(NoHandler) = <<>>
  BY StreamBoundsAssumption DEF NoHandler, CallIfSet
<1>5. CASE continuations = <<>>
  <2>1. effects' = [effects EXCEPT ![p] = CallIfSet(NoHandler) \o <<>>]
    <3>1. <<>> \o <<>> = <<>>
      OBVIOUS
    <3> QED
      BY <1>4, <1>5, <3>1 DEF YieldSection
  <2>2. EffectTypes' /\ WakesSame /\ CallsMore(p, NoHandler)
    BY <1>1, <1>3, <1>4, <2>1, HandNothing
  <2>3. YieldStores
    BY <1>5, <2>2 DEF YieldSection, YieldStores
  <2> QED
    BY <1>2, <2>2, <2>3, NoHandlerCalled
<1>6. CASE continuations # <<>>
  <2>1. pending = <<>>
    BY <1>6 DEF CallInv, Unstarved
  <2>2. Head(continuations) \in Consumers
    BY <1>1, <1>6, HeadTailProperties
  <2>3. PICK e \in Endings :
          effects' = [effects EXCEPT ![p] =
            << <<"resume", Head(continuations),
                 IF terminal = "open" THEN yields + 1 ELSE e>> >>]
    BY <1>6, <2>1 DEF YieldSection
  <2> DEFINE r == IF terminal = "open" THEN yields + 1 ELSE e
  <2>4. r \in Results
    BY <1>2, AnyResult
  <2>5. effects' = [effects EXCEPT ![p] =
          CallIfSet(NoHandler) \o << <<"resume", Head(continuations), r>> >>]
    <3>1. \A x : <<>> \o << x >> = << x >>
      OBVIOUS
    <3> QED
      BY <1>4, <2>3, <3>1
  <2>6. terminal = "open" => r = yields + 1
    OBVIOUS
  <2>7. terminal # "open" => r \in Endings
    OBVIOUS
  <2> HIDE DEF r
  <2>8. EffectTypes' /\ WakesMore(p, Head(continuations), r) /\ CallsMore(p, NoHandler)
    BY <1>1, <1>3, <1>4, <2>2, <2>4, <2>5, HandOver
  <2>9. YieldWakes(p, r)
    BY <1>6, <2>1, <2>6, <2>7, <2>8 DEF YieldSection, YieldWakes
  <2> QED
    BY <1>2, <2>4, <2>8, <2>9, NoHandlerCalled
<1> QED
  BY <1>5, <1>6

FinishWakes(t, r) ==
  /\ continuations # <<>> /\ pending = <<>>
  /\ continuations' = Tail(continuations) /\ pending' = pending
  /\ WakesMore(t, Head(continuations), r)

FinishOnly ==
  /\ continuations = <<>> /\ continuations' = <<>> /\ pending' = pending
  /\ WakesSame

LEMMA FinishCases ==
  ASSUME StreamTypes, CallInv, NEW t \in Threads, FinishSection(t)
  PROVE  /\ EffectTypes' /\ CallsMore(t, onTermination)
         /\ FinishOnly \/ \E r \in Endings : FinishWakes(t, r)
<1>1. /\ EffectTypes /\ continuations \in Seq(Consumers)
      /\ onTermination \in 0 .. MaxHandlers
  BY TypesOfSequences
<1>2. PICK x \in Endings : effects[t] = << <<"finish", x>> >>
  BY <1>1, DoingCases DEF EffectTypes, FinishSection
<1>3. (\A g : ~ CallsIn(effects[t], g)) /\ (\A c : ~ WakesIn(effects[t], c))
  BY <1>2, FinishItem
<1>4. Tail(effects[t]) = <<>>
  BY <1>2, OneItem
<1>5. CASE continuations = <<>>
  <2>1. effects' = [effects EXCEPT ![t] = CallIfSet(onTermination) \o <<>>]
    <3>1. (CallIfSet(onTermination) \o <<>>) \o <<>> = CallIfSet(onTermination) \o <<>>
      BY DEF CallIfSet
    <3> QED
      BY <1>4, <1>5, <3>1 DEF FinishSection, Then
  <2>2. EffectTypes' /\ WakesSame /\ CallsMore(t, onTermination)
    BY <1>1, <1>3, <2>1, HandNothing
  <2>3. FinishOnly
    BY <1>5, <2>2 DEF FinishSection, FinishOnly
  <2> QED
    BY <2>2, <2>3
<1>6. CASE continuations # <<>>
  <2>1. pending = <<>>
    BY <1>6 DEF CallInv, Unstarved
  <2>2. Head(continuations) \in Consumers
    BY <1>1, <1>6, HeadTailProperties
  <2>3. PICK r \in Endings :
          Then(t, CallIfSet(onTermination) \o << <<"resume", Head(continuations), r>> >>)
    BY <1>6, <2>1 DEF FinishSection
  <2>4. effects' = [effects EXCEPT ![t] =
          CallIfSet(onTermination) \o << <<"resume", Head(continuations), r>> >>]
    <3>1. \A i, j : << i >> \o <<>> = << i >> /\ << i, j >> \o <<>> = << i, j >>
      OBVIOUS
    <3>2. \A y : (CallIfSet(onTermination) \o << y >>) \o <<>>
                   = CallIfSet(onTermination) \o << y >>
      BY <3>1 DEF CallIfSet
    <3> QED
      BY <1>4, <2>3, <3>2 DEF Then
  <2>5. r \in Results
    BY AnyResult
  <2>6. EffectTypes' /\ WakesMore(t, Head(continuations), r) /\ CallsMore(t, onTermination)
    BY <1>1, <1>3, <2>2, <2>4, <2>5, HandOver
  <2>7. FinishWakes(t, r)
    BY <1>6, <2>1, <2>6 DEF FinishSection, FinishWakes
  <2> QED
    BY <2>6, <2>7
<1> QED
  BY <1>5, <1>6

NextServes(c, d, r) ==
  /\ WakesMore(c, d, r)
  /\ \/ /\ pending # <<>> /\ continuations = <<>>
        /\ d = c /\ r = Head(pending)
        /\ continuations' = <<>> /\ pending' = Tail(pending)
     \/ /\ pending = <<>> /\ terminal # "open"
        /\ d = Head(Append(continuations, c)) /\ r \in Endings
        /\ continuations' = Tail(Append(continuations, c)) /\ pending' = pending

NextWaits(c) ==
  /\ pending = <<>> /\ pending' = pending /\ terminal = "open"
  /\ continuations' = Append(continuations, c)
  /\ WakesSame

LEMMA NextCases ==
  ASSUME StreamTypes, CallInv, NEW c \in Consumers, NextSection(c)
  PROVE  /\ EffectTypes' /\ CallsSame
         /\ \/ NextWaits(c)
            \/ \E d \in Consumers, r \in Results : NextServes(c, d, r)
<1>1. /\ EffectTypes /\ continuations \in Seq(Consumers) /\ pending \in Seq(Values)
      /\ c \in Threads
  BY ToThreads, TypesOfSequences
<1>3. (\A g : ~ CallsIn(effects[c], g)) /\ (\A d : ~ WakesIn(effects[c], d))
  BY FreeList DEF NextSection
<1>4. NoHandler \in 0 .. MaxHandlers /\ CallIfSet(NoHandler) = <<>>
  BY StreamBoundsAssumption DEF NoHandler, CallIfSet
<1>5. \A x : <<>> \o << x >> = << x >>
  OBVIOUS
<1> DEFINE queue == Append(continuations, c)
<1>6. queue \in Seq(Consumers) /\ queue # <<>>
  BY <1>1, AppendProperties
<1>7. Head(queue) \in Consumers
  BY <1>6, HeadTailProperties
<1>8. CASE pending = <<>> /\ terminal = "open"
  <2>1. effects' = [effects EXCEPT ![c] = CallIfSet(NoHandler) \o <<>>]
    <3>1. <<>> \o <<>> = <<>>
      OBVIOUS
    <3> QED
      BY <1>4, <1>8, <3>1 DEF NextSection
  <2>2. EffectTypes' /\ WakesSame /\ CallsMore(c, NoHandler)
    BY <1>1, <1>3, <1>4, <2>1, HandNothing
  <2>3. NextWaits(c)
    BY <1>8, <2>2 DEF NextSection, NextWaits
  <2> QED
    BY <2>2, <2>3, NoHandlerCalled
<1>9. CASE pending # <<>>
  <2>1. continuations = <<>>
    BY <1>9 DEF CallInv, Unstarved
  <2>2. queue = <<c>> /\ Head(<<c>>) = c /\ Tail(<<c>>) = <<>>
    BY <2>1
  <2>3. Head(pending) \in Results
    BY <1>1, <1>9, HeadTailProperties, AnyResult
  <2>4. effects' = [effects EXCEPT ![c] = << <<"resume", c, Head(pending)>> >>]
    BY <1>9, <2>2 DEF NextSection
  <2>5. effects' = [effects EXCEPT ![c] =
          CallIfSet(NoHandler) \o << <<"resume", c, Head(pending)>> >>]
    BY <1>4, <1>5, <2>4
  <2>6. EffectTypes' /\ WakesMore(c, c, Head(pending)) /\ CallsMore(c, NoHandler)
    BY <1>1, <1>3, <1>4, <2>3, <2>5, HandOver
  <2>7. continuations' = <<>> /\ pending' = Tail(pending)
    BY <1>9, <2>2 DEF NextSection
  <2>8. NextServes(c, c, Head(pending))
    BY <1>9, <2>1, <2>6, <2>7 DEF NextServes
  <2> QED
    BY <2>3, <2>6, <2>8, NoHandlerCalled
<1>10. CASE pending = <<>> /\ terminal # "open"
  <2>1. PICK r \in Endings :
          effects' = [effects EXCEPT ![c] = << <<"resume", Head(queue), r>> >>]
    BY <1>10 DEF NextSection
  <2>2. r \in Results
    BY AnyResult
  <2>3. effects' = [effects EXCEPT ![c] =
          CallIfSet(NoHandler) \o << <<"resume", Head(queue), r>> >>]
    BY <1>4, <1>5, <2>1
  <2>4. continuations' = Tail(queue) /\ pending' = pending
    BY <1>10 DEF NextSection
  <2> HIDE DEF queue
  <2>5. EffectTypes' /\ WakesMore(c, Head(queue), r) /\ CallsMore(c, NoHandler)
    BY <1>1, <1>3, <1>4, <1>7, <2>2, <2>3, HandOver
  <2>6. NextServes(c, Head(queue), r)
    BY <1>10, <2>4, <2>5 DEF NextServes, queue
  <2> QED
    BY <1>7, <2>2, <2>5, <2>6, NoHandlerCalled
<1> QED
  BY <1>8, <1>9, <1>10
(* The other steps that give a thread something to do, none of which wakes *)
(* anybody or takes a handler.                                             *)
LEMMA QuietStep ==
  ASSUME EffectTypes, CancelInv
  PROVE  /\ \A p \in Producers : CallFinishSection(p) =>
              EffectTypes' /\ WakesSame /\ CallsSame
         /\ \A c \in Consumers : EnterNext(c) \/ DropStream(c) =>
              EffectTypes' /\ WakesSame /\ CallsSame
         /\ \A k \in Cancellers : LockAndCancel(k) =>
              EffectTypes' /\ WakesSame /\ CallsSame
<1> DEFINE cancel == << <<"cancel">> >>
<1>1. /\ cancel \in EffectLists /\ <<>> \in EffectLists
      /\ \A h : ~ CallsIn(cancel, h) /\ ~ CallsIn(<<>>, h)
      /\ \A c : ~ WakesIn(cancel, c) /\ ~ WakesIn(<<>>, c)
  BY CancelItem, EmptyList, RestFacts DEF Rests
<1>2. ASSUME NEW p \in Producers, CallFinishSection(p)
      PROVE  EffectTypes' /\ WakesSame /\ CallsSame
  <2>1. PICK e \in Endings : effects' = [effects EXCEPT ![p] = << <<"finish", e>> >>]
    BY <1>2 DEF CallFinishSection
  <2>2. << <<"finish", e>> >> \in EffectLists
    BY FinishItem, RestFacts
  <2>3. (\A g : ~ CallsIn(effects[p], g)) /\ (\A c : ~ WakesIn(effects[p], c))
    BY <1>2, FreeList DEF CallFinishSection
  <2> QED
    BY <2>1, <2>2, <2>3, FinishItem, QuietList, ToThreads
<1>3. ASSUME NEW c \in Consumers, EnterNext(c) \/ DropStream(c)
      PROVE  EffectTypes' /\ WakesSame /\ CallsSame
  <2>1. PICK list \in {<<>>, cancel} : effects' = [effects EXCEPT ![c] = list]
    BY <1>3 DEF EnterNext, DropStream
  <2>2. (\A g : ~ CallsIn(effects[c], g)) /\ (\A d : ~ WakesIn(effects[c], d))
    BY <1>3, FreeList DEF EnterNext, DropStream
  <2> HIDE DEF cancel
  <2> QED
    BY <1>1, <2>1, <2>2, QuietList, ToThreads
<1>4. ASSUME NEW k \in Cancellers, LockAndCancel(k)
      PROVE  EffectTypes' /\ WakesSame /\ CallsSame
  <2>1. PICK list \in {<<>>, cancel} : effects' = [effects EXCEPT ![k] = list]
    BY <1>4 DEF LockAndCancel
  <2>2. effects[k] = <<>>
    BY <1>4 DEF LockAndCancel, CancelInv
  <2> HIDE DEF cancel
  <2> QED
    BY <1>1, <2>1, <2>2, QuietList, ToThreads
<1> QED
  BY <1>2, <1>3, <1>4

(* A step that leaves the lists alone.                                     *)
EffectsKept == EffectTypes' /\ WakesSame /\ CallsSame

LEMMA KeptStep ==
  ASSUME EffectTypes
  PROVE  /\ \A p : SetOnTermination(p) => EffectsKept
         /\ \A c : ReturnFromNext(c) \/ SecondWaiter(c) => EffectsKept
         /\ \A k : CancelTask(k) \/ UnlockRecords(k) => EffectsKept
         /\ FreeStorage => EffectsKept
<1>1. UNCHANGED effects => EffectsKept
  BY NothingDone DEF EffectsKept, EffectTypes
<1> QED
  BY <1>1 DEF SetOnTermination, ReturnFromNext, SecondWaiter, CancelTask, UnlockRecords,
              FreeStorage

(* All the steps, one by one.                                              *)
LEMMA StepCases ==
  ASSUME StreamNext
  PROVE  \/ \E t \in Threads : \/ CallHandler(t) \/ ResumeContinuation(t)
                               \/ CancelStorage(t) \/ FinishSection(t)
         \/ \E p \in Producers : \/ SetOnTermination(p)
                                 \/ YieldSection(p) \/ CallFinishSection(p)
         \/ \E c \in Consumers : \/ EnterNext(c) \/ ReturnFromNext(c) \/ DropStream(c)
                                 \/ NextSection(c) \/ SecondWaiter(c)
         \/ \E k \in Cancellers : CancelTask(k) \/ LockAndCancel(k) \/ UnlockRecords(k)
         \/ FreeStorage
BY DEF StreamNext, CommonNext, Continue, CancelStep

-----------------------------------------------------------------------------
(* Types.                                                                  *)

LEMMA DroppedIsValue ==
  ASSUME NEW buffer \in Seq(Values), NEW v \in Values
  PROVE  Enqueue(buffer, v) \in Seq(Values) /\ Dropped(buffer, v) \subseteq Values
<1>1. Append(buffer, v) \in Seq(Values)
  BY AppendProperties
<1>2. buffer # <<>> =>
        Head(buffer) \in Values /\ Append(Tail(buffer), v) \in Seq(Values)
  BY HeadTailProperties, AppendProperties
<1> QED
  BY <1>1, <1>2 DEF Enqueue, Dropped

LEMMA YieldTypes ==
  ASSUME StreamTypes, CallInv, NEW p \in Producers, YieldSection(p)
  PROVE  StreamTypes'
<1>1. /\ EffectTypes' /\ yields + 1 \in Values /\ yields' = yields + 1
      /\ YieldStores \/ \E r \in Results : YieldWakes(p, r)
  BY YieldCases
<1>2. UNCHANGED <<handlerVars, consumerVars, cancelVars, handle>> /\ TerminalStays
  BY DEF YieldSection
<1>3. HandlerTypes' /\ ConsumerTypes' /\ CancelTypes' /\ handle' = handle
  BY <1>2 DEF StreamTypes, HandlerTypes, ConsumerTypes, CancelTypes, handlerVars,
              consumerVars, cancelVars
<1>4. terminal' \in {"open"} \cup Ended
  BY <1>2 DEF StreamTypes, BufferTypes, TerminalStays, Ended
<1>5. yields' \in 0 .. MaxYields
  BY <1>1 DEF Values, StreamTypes, BufferTypes
<1>6. BufferTypes
  BY DEF StreamTypes
<1>7. continuations' \in Seq(Consumers)
  BY <1>1, <1>6, HeadTailProperties DEF YieldStores, YieldWakes, BufferTypes
<1>8. pending' \in Seq(Values) /\ discarded' \subseteq Values
  <2>1. CASE YieldStores
    BY <1>1, <1>6, <2>1, DroppedIsValue DEF YieldStores, BufferTypes
  <2>2. ASSUME NEW r, YieldWakes(p, r)
        PROVE  pending' \in Seq(Values) /\ discarded' \subseteq Values
    BY <1>1, <1>6, <2>2 DEF YieldWakes, BufferTypes
  <2> QED
    BY <1>1, <2>1, <2>2
<1> QED
  BY <1>1, <1>3, <1>4, <1>5, <1>7, <1>8 DEF StreamTypes, BufferTypes

LEMMA FinishTypes ==
  ASSUME StreamTypes, CallInv, NEW t \in Threads, FinishSection(t)
  PROVE  StreamTypes'
<1>1. EffectTypes' /\ (FinishOnly \/ \E r \in Endings : FinishWakes(t, r))
  BY FinishCases
<1>2. /\ UNCHANGED <<yields, discarded, installed, replaced, calls, consumerVars,
                     cancelVars, handle>>
      /\ terminal' \in {terminal} \cup Ended /\ onTermination' = NoHandler
  BY DEF FinishSection
<1>3. HandlerTypes' /\ ConsumerTypes' /\ CancelTypes' /\ handle' = handle
  BY <1>2 DEF StreamTypes, HandlerTypes, ConsumerTypes, CancelTypes, handlerVars,
              consumerVars, cancelVars, NoHandler
<1>4. continuations' \in Seq(Consumers) /\ pending' = pending
  BY <1>1, HeadTailProperties
     DEF FinishOnly, FinishWakes, StreamTypes, BufferTypes
<1>5. BufferTypes'
  BY <1>2, <1>4 DEF StreamTypes, BufferTypes
<1> QED
  BY <1>1, <1>3, <1>5 DEF StreamTypes

LEMMA NextTypes ==
  ASSUME StreamTypes, CallInv, NEW c \in Consumers, NextSection(c)
  PROVE  StreamTypes'
<1>1. EffectTypes'
      /\ (NextWaits(c) \/ \E d \in Consumers, r \in Results : NextServes(c, d, r))
  BY NextCases
<1>2. /\ UNCHANGED <<yields, discarded, handlerVars, nexts, slot, received, cancelVars,
                     handle>>
      /\ TerminalStays /\ cpc' = [cpc EXCEPT ![c] = "awaiting"]
  BY DEF NextSection
<1>3. HandlerTypes' /\ ConsumerTypes' /\ CancelTypes' /\ handle' = handle
  BY <1>2 DEF StreamTypes, HandlerTypes, ConsumerTypes, CancelTypes, handlerVars,
              cancelVars
<1>4. BufferTypes
  BY DEF StreamTypes
<1>5. /\ Append(continuations, c) \in Seq(Consumers)
      /\ Tail(Append(continuations, c)) \in Seq(Consumers)
      /\ pending # <<>> => Tail(pending) \in Seq(Values)
  BY <1>4, AppendProperties, HeadTailProperties DEF BufferTypes
<1>6. continuations' \in Seq(Consumers) /\ pending' \in Seq(Values)
  BY <1>1, <1>4, <1>5 DEF NextWaits, NextServes, BufferTypes
<1>7. BufferTypes'
  BY <1>2, <1>4, <1>6 DEF BufferTypes, TerminalStays, Ended
<1> QED
  BY <1>1, <1>3, <1>7 DEF StreamTypes

LEMMA TypesStep ==
  ASSUME StreamTypes, CallInv, CancelInv, StreamNext
  PROVE  StreamTypes'
<1> USE DEF bufferVars, handlerVars, consumerVars, cancelVars
<1>a. /\ BufferTypes /\ HandlerTypes /\ EffectTypes /\ ConsumerTypes /\ CancelTypes
      /\ onTermination \in 0 .. MaxHandlers
  BY TypesOfSequences DEF StreamTypes
<1>b. UNCHANGED bufferVars => BufferTypes'
  BY <1>a DEF BufferTypes
<1>c. UNCHANGED handlerVars => HandlerTypes'
  BY <1>a DEF HandlerTypes
<1>d. UNCHANGED consumerVars => ConsumerTypes'
  BY <1>a DEF ConsumerTypes
<1>e. UNCHANGED cancelVars => CancelTypes'
  BY <1>a DEF CancelTypes
<1>1. ASSUME NEW t \in Threads, CallHandler(t) PROVE StreamTypes'
  <2>1. EffectTypes'
        /\ \E h \in TerminationHandlers : calls' = [calls EXCEPT ![h] = @ + 1]
    BY <1>1, <1>a, CallEffect
  <2>2. HandlerTypes'
    BY <1>1, <1>a, <2>1 DEF CallHandler, HandlerTypes
  <2> QED
    BY <1>1, <1>b, <1>d, <1>e, <2>1, <2>2 DEF CallHandler, StreamTypes
<1>2. ASSUME NEW t \in Threads, ResumeContinuation(t) PROVE StreamTypes'
  <2>1. PICK c \in Consumers, r \in Results : slot' = [slot EXCEPT ![c] = Append(@, r)]
    BY <1>2, <1>a, ResumeEffect
  <2>2. Append(slot[c], r) \in Seq(Results)
    BY <1>a, AppendProperties DEF ConsumerTypes
  <2>3. ConsumerTypes'
    BY <1>2, <1>a, <2>1, <2>2 DEF ResumeContinuation, ConsumerTypes
  <2> QED
    BY <1>2, <1>a, <1>b, <1>c, <1>e, <2>3, ResumeEffect DEF ResumeContinuation, StreamTypes
<1>3. ASSUME NEW t \in Threads, CancelStorage(t) PROVE StreamTypes'
  <2>1. HandlerTypes'
    BY <1>3, <1>a DEF CancelStorage, HandlerTypes, NoHandler
  <2> QED
    BY <1>3, <1>a, <1>b, <1>d, <1>e, <2>1, CancelEffect DEF CancelStorage, StreamTypes
<1>4. ASSUME NEW p \in Producers, SetOnTermination(p) PROVE StreamTypes'
  <2>1. HandlerTypes'
    BY <1>4, <1>a, StreamBoundsAssumption
       DEF SetOnTermination, HandlerTypes, NoHandler, TerminationHandlers
  <2> QED
    BY <1>4, <1>a, <1>b, <1>d, <1>e, <2>1, KeptStep
       DEF SetOnTermination, StreamTypes, EffectsKept
<1>5. ASSUME NEW p \in Producers, CallFinishSection(p) PROVE StreamTypes'
  BY <1>5, <1>a, <1>b, <1>c, <1>d, <1>e, QuietStep DEF CallFinishSection, StreamTypes
<1>6. ASSUME NEW c \in Consumers, EnterNext(c) PROVE StreamTypes'
  <2>1. ConsumerTypes'
    BY <1>6, <1>a DEF EnterNext, ConsumerTypes
  <2> QED
    BY <1>6, <1>a, <1>b, <1>c, <1>e, <2>1, QuietStep DEF EnterNext, StreamTypes
<1>7. ASSUME NEW c \in Consumers, ReturnFromNext(c) PROVE StreamTypes'
  <2>1. Head(slot[c]) \in Results /\ Append(received[c], Head(slot[c])) \in Seq(Results)
        /\ <<>> \in Seq(Results)
    BY <1>7, <1>a, HeadTailProperties, AppendProperties, EmptySeq
       DEF ReturnFromNext, ConsumerTypes
  <2>2. ConsumerTypes'
    BY <1>7, <1>a, <2>1 DEF ReturnFromNext, ConsumerTypes
  <2> QED
    BY <1>7, <1>a, <1>b, <1>c, <1>e, <2>2, KeptStep
       DEF ReturnFromNext, StreamTypes, EffectsKept
<1>8. ASSUME NEW c \in Consumers, DropStream(c) PROVE StreamTypes'
  BY <1>8, <1>a, <1>b, <1>c, <1>d, <1>e, QuietStep DEF DropStream, StreamTypes
<1>9. ASSUME NEW c \in Consumers, SecondWaiter(c) PROVE StreamTypes'
  <2>1. ConsumerTypes'
    BY <1>9, <1>a DEF SecondWaiter, ConsumerTypes
  <2> QED
    BY <1>9, <1>a, <1>b, <1>c, <1>e, <2>1, KeptStep
       DEF SecondWaiter, StreamTypes, EffectsKept
<1>10. ASSUME NEW k \in Cancellers, CancelTask(k) PROVE StreamTypes'
  <2>1. CancelTypes'
    BY <1>10, <1>a DEF CancelTask, CancelTypes
  <2> QED
    BY <1>10, <1>a, <1>b, <1>c, <1>d, <2>1, KeptStep
       DEF CancelTask, StreamTypes, EffectsKept
<1>11. ASSUME NEW k \in Cancellers, LockAndCancel(k) PROVE StreamTypes'
  <2>1. CancelTypes'
    BY <1>11, <1>a DEF LockAndCancel, CancelTypes
  <2> QED
    BY <1>11, <1>a, <1>b, <1>c, <1>d, <2>1, QuietStep DEF LockAndCancel, StreamTypes
<1>12. ASSUME NEW k \in Cancellers, UnlockRecords(k) PROVE StreamTypes'
  <2>1. CancelTypes'
    BY <1>12, <1>a DEF UnlockRecords, CancelTypes
  <2> QED
    BY <1>12, <1>a, <1>b, <1>c, <1>d, <2>1, KeptStep
       DEF UnlockRecords, StreamTypes, EffectsKept
<1>13. ASSUME FreeStorage PROVE StreamTypes'
  <2>1. calls' \in [TerminationHandlers -> Nat]
    <3>1. CASE onTermination = NoHandler
      BY <1>13, <1>a, <3>1 DEF FreeStorage, HandlerTypes
    <3>2. CASE onTermination # NoHandler
      <4>1. calls' = [calls EXCEPT ![onTermination] = @ + 1]
        BY <1>13, <3>2 DEF FreeStorage
      <4>2. onTermination \in TerminationHandlers
        BY <1>a, <3>2, StreamBoundsAssumption DEF NoHandler, TerminationHandlers
      <4>3. calls \in [TerminationHandlers -> Nat] /\ calls[onTermination] + 1 \in Nat
        BY <1>a, <4>2 DEF HandlerTypes
      <4> QED
        BY <4>1, <4>2, <4>3
    <3> QED
      BY <3>1, <3>2
  <2>2. HandlerTypes'
    BY <1>13, <1>a, <2>1 DEF FreeStorage, HandlerTypes, NoHandler
  <2> QED
    BY <1>13, <1>a, <1>b, <1>d, <1>e, <2>2, KeptStep
       DEF FreeStorage, StreamTypes, EffectsKept
<1> QED
  BY StepCases, YieldTypes, FinishTypes, NextTypes, <1>1, <1>2, <1>3, <1>4, <1>5, <1>6,
     <1>7, <1>8, <1>9, <1>10, <1>11, <1>12, <1>13
-----------------------------------------------------------------------------
(* A suspended consumer is in one place.                                   *)

AwaitingSame == \A c \in Consumers : cpc'[c] = "awaiting" <=> cpc[c] = "awaiting"

LEMMA WaitersKept ==
  ASSUME WaiterInv, WakesSame, UNCHANGED <<continuations, slot>>, AwaitingSame
  PROVE  WaiterInv'
BY DEF WaiterInv, Waiting, WakesSame, AwaitingSame, Queued

LEMMA WaiterTaken ==
  ASSUME StreamTypes, WaiterInv, NEW t \in Threads, NEW r,
         continuations # <<>>, continuations' = Tail(continuations),
         WakesMore(t, Head(continuations), r), UNCHANGED <<slot, cpc>>
  PROVE  WaiterInv'
<1> DEFINE d == Head(continuations)
<1>1. /\ d \in Consumers /\ Queued(d)
      /\ \A c \in Consumers : /\ OnceIn(continuations', c)
                              /\ Queued(c)' <=> Queued(c) /\ c # d
  BY TypesOfSequences, TailElements DEF WaiterInv, Waiting, Queued
<1>2. \A u \in Threads, c \in Consumers :
        WakesIn(effects'[u], c) <=> WakesIn(effects[u], c) \/ (u = t /\ c = d)
  BY DEF WakesMore
<1> HIDE DEF d
<1>3. ASSUME NEW c \in Consumers
      PROVE  Waiting(c)'
  <2>1. Waiting(c) /\ Waiting(d)
    BY <1>1 DEF WaiterInv
  <2>2. slot' = slot /\ cpc' = cpc
    OBVIOUS
  <2> QED
    BY <1>1, <1>2, <2>1, <2>2 DEF Waiting
<1> QED
  BY <1>3 DEF WaiterInv

LEMMA WaiterQueues ==
  ASSUME StreamTypes, WaiterInv, NEW c \in Consumers,
         continuations' = Append(continuations, c), WakesSame, slot' = slot,
         cpc[c] = "entering", cpc' = [cpc EXCEPT ![c] = "awaiting"]
  PROVE  WaiterInv'
<1>1. \A x \in Consumers : OnceIn(continuations, x)
  BY DEF WaiterInv, Waiting
<1>2. ~ Queued(c) /\ slot[c] = <<>> /\ \A t \in Threads : ~ WakesIn(effects[t], c)
  BY DEF WaiterInv, Waiting
<1>3. \A x \in Consumers : /\ OnceIn(continuations', x)
                           /\ Queued(x)' <=> Queued(x) \/ x = c
  BY <1>1, <1>2, TypesOfSequences, AppendElements DEF Queued
<1>4. \A x \in Consumers : cpc'[x] = IF x = c THEN "awaiting" ELSE cpc[x]
  BY DEF StreamTypes, ConsumerTypes
<1>5. ASSUME NEW x \in Consumers
      PROVE  Waiting(x)'
  <2>1. Waiting(x)
    BY DEF WaiterInv
  <2>2. \A u \in Threads : WakesIn(effects'[u], x) <=> WakesIn(effects[u], x)
    BY DEF WakesSame
  <2> QED
    BY <1>2, <1>3, <1>4, <2>1, <2>2 DEF Waiting
<1> QED
  BY <1>5 DEF WaiterInv

LEMMA WaiterServed ==
  ASSUME StreamTypes, WaiterInv, NEW c \in Consumers, NEW d \in Consumers, NEW r,
         NextServes(c, d, r), slot' = slot,
         cpc[c] = "entering", cpc' = [cpc EXCEPT ![c] = "awaiting"]
  PROVE  WaiterInv'
<1>1. \A x \in Consumers : OnceIn(continuations, x)
  BY DEF WaiterInv, Waiting
<1>2. ~ Queued(c) /\ slot[c] = <<>> /\ \A t \in Threads : ~ WakesIn(effects[t], c)
  BY DEF WaiterInv, Waiting
<1>3. /\ d = c \/ Queued(d)
      /\ \A x \in Consumers : /\ OnceIn(continuations', x)
                              /\ Queued(x)' <=> (Queued(x) \/ x = c) /\ x # d
  <2>1. CASE continuations = <<>> /\ d = c /\ continuations' = <<>>
    BY <2>1, EmptyHasNothing DEF Queued
  <2>2. CASE /\ d = Head(Append(continuations, c))
             /\ continuations' = Tail(Append(continuations, c))
    BY <1>1, <1>2, <2>2, TypesOfSequences, AppendThenTake DEF Queued
  <2> QED
    BY <2>1, <2>2 DEF NextServes
<1>4. \A x \in Consumers : cpc'[x] = IF x = c THEN "awaiting" ELSE cpc[x]
  BY DEF StreamTypes, ConsumerTypes
<1>5. \A u \in Threads, x \in Consumers :
        WakesIn(effects'[u], x) <=> WakesIn(effects[u], x) \/ (u = c /\ x = d)
  BY DEF NextServes, WakesMore
<1>6. c \in Threads
  BY ToThreads
<1>7. ASSUME NEW x \in Consumers
      PROVE  Waiting(x)'
  <2>1. Waiting(x) /\ Waiting(d)
    BY DEF WaiterInv
  <2> QED
    BY <1>2, <1>3, <1>4, <1>5, <1>6, <2>1 DEF Waiting
<1> QED
  BY <1>7 DEF WaiterInv

LEMMA WaiterResumed ==
  ASSUME StreamTypes, WaiterInv, NEW t \in Threads, NEW d \in Consumers, NEW r \in Results,
         WakesLess(t, d, r), slot' = [slot EXCEPT ![d] = Append(@, r)],
         UNCHANGED <<continuations, cpc>>
  PROVE  WaiterInv'
<1>1. slot[d] = <<>> /\ ~ Queued(d) /\ cpc[d] = "awaiting"
  BY DEF WakesLess, WaiterInv, Waiting
<1>2. slot'[d] = <<r>> /\ \A x \in Consumers : x # d => slot'[x] = slot[x]
  BY <1>1 DEF StreamTypes, ConsumerTypes
<1>3. <<r>> # <<>> /\ Len(<<r>>) = 1
  OBVIOUS
<1>4. \A u \in Threads, x \in Consumers :
        WakesIn(effects'[u], x) <=> WakesIn(effects[u], x) /\ ~ (u = t /\ x = d)
  BY DEF WakesLess
<1>5. WakesIn(effects[t], d)
  BY DEF WakesLess
<1>6. ASSUME NEW x \in Consumers
      PROVE  Waiting(x)'
  <2>1. Waiting(x)
    BY DEF WaiterInv
  <2>2. OnceIn(continuations, x)' /\ (Queued(x)' <=> Queued(x))
    BY <2>1 DEF Waiting, Queued
  <2>3. CASE x = d
    BY <1>1, <1>2, <1>3, <1>4, <1>5, <2>1, <2>2, <2>3 DEF Waiting
  <2>4. CASE x # d
    BY <1>2, <1>4, <2>1, <2>2, <2>4 DEF Waiting
  <2> QED
    BY <2>3, <2>4
<1> QED
  BY <1>6 DEF WaiterInv

LEMMA WaiterReturns ==
  ASSUME StreamTypes, WaiterInv, NEW c \in Consumers, WakesSame, ReturnFromNext(c)
  PROVE  WaiterInv'
<1>1. /\ slot[c] # <<>> /\ continuations' = continuations
      /\ slot' = [slot EXCEPT ![c] = <<>>] /\ cpc' = [cpc EXCEPT ![c] = "idle"]
  BY DEF ReturnFromNext, bufferVars
<1>2. \A x \in Consumers : /\ cpc'[x] = IF x = c THEN "idle" ELSE cpc[x]
                           /\ slot'[x] = IF x = c THEN <<>> ELSE slot[x]
  BY <1>1 DEF StreamTypes, ConsumerTypes
<1>3. Len(<<>>) <= 1
  OBVIOUS
<1>4. ASSUME NEW x \in Consumers
      PROVE  Waiting(x)'
  <2>1. Waiting(x)
    BY DEF WaiterInv
  <2>2. OnceIn(continuations, x)' /\ (Queued(x)' <=> Queued(x))
    BY <1>1, <2>1 DEF Waiting, Queued
  <2>3. \A u \in Threads : WakesIn(effects'[u], x) <=> WakesIn(effects[u], x)
    BY DEF WakesSame
  <2> QED
    BY <1>1, <1>2, <1>3, <2>1, <2>2, <2>3 DEF Waiting
<1> QED
  BY <1>4 DEF WaiterInv

LEMMA WaiterStep ==
  ASSUME StreamTypes, CallInv, CancelInv, WaiterInv, StreamNext
  PROVE  WaiterInv'
<1>a. EffectTypes /\ onTermination \in 0 .. MaxHandlers
  BY TypesOfSequences
<1>b. UNCHANGED <<bufferVars, consumerVars>> /\ WakesSame => WaiterInv'
  BY WaitersKept DEF bufferVars, consumerVars, AwaitingSame
<1>1. ASSUME NEW t \in Threads, CallHandler(t) PROVE WaiterInv'
  BY <1>1, <1>a, <1>b, CallEffect DEF CallHandler
<1>2. ASSUME NEW t \in Threads, ResumeContinuation(t) PROVE WaiterInv'
  BY <1>2, <1>a, ResumeEffect, WaiterResumed DEF ResumeContinuation, bufferVars
<1>3. ASSUME NEW t \in Threads, CancelStorage(t) PROVE WaiterInv'
  BY <1>3, <1>a, <1>b, CancelEffect DEF CancelStorage
<1>4. ASSUME NEW t \in Threads, FinishSection(t) PROVE WaiterInv'
  <2>1. UNCHANGED <<slot, cpc>>
    BY <1>4 DEF FinishSection, consumerVars
  <2>2. FinishOnly \/ \E r \in Endings : FinishWakes(t, r)
    BY <1>4, FinishCases
  <2>3. CASE FinishOnly
    BY <2>1, <2>3, WaitersKept DEF FinishOnly, AwaitingSame
  <2>4. ASSUME NEW r, FinishWakes(t, r) PROVE WaiterInv'
    BY <2>1, <2>4, WaiterTaken DEF FinishWakes
  <2> QED
    BY <2>2, <2>3, <2>4
<1>5. ASSUME NEW p \in Producers, SetOnTermination(p) PROVE WaiterInv'
  BY <1>5, <1>a, <1>b, KeptStep DEF SetOnTermination, EffectsKept
<1>6. ASSUME NEW p \in Producers, YieldSection(p) PROVE WaiterInv'
  <2>1. UNCHANGED <<slot, cpc>> /\ p \in Threads
    BY <1>6, ToThreads DEF YieldSection, consumerVars
  <2>2. YieldStores \/ \E r \in Results : YieldWakes(p, r)
    BY <1>6, YieldCases
  <2>3. CASE YieldStores
    BY <2>1, <2>3, WaitersKept DEF YieldStores, AwaitingSame
  <2>4. ASSUME NEW r, YieldWakes(p, r) PROVE WaiterInv'
    BY <2>1, <2>4, WaiterTaken DEF YieldWakes
  <2> QED
    BY <2>2, <2>3, <2>4
<1>7. ASSUME NEW p \in Producers, CallFinishSection(p) PROVE WaiterInv'
  BY <1>7, <1>a, <1>b, QuietStep DEF CallFinishSection
<1>8. ASSUME NEW c \in Consumers, EnterNext(c) PROVE WaiterInv'
  <2>1. WakesSame /\ UNCHANGED <<continuations, slot>>
    BY <1>8, <1>a, QuietStep DEF EnterNext, bufferVars
  <2>2. AwaitingSame
    BY <1>8 DEF EnterNext, AwaitingSame, StreamTypes, ConsumerTypes
  <2> QED
    BY <2>1, <2>2, WaitersKept
<1>9. ASSUME NEW c \in Consumers, ReturnFromNext(c) PROVE WaiterInv'
  BY <1>9, <1>a, KeptStep, WaiterReturns DEF EffectsKept
<1>10. ASSUME NEW c \in Consumers, DropStream(c) PROVE WaiterInv'
  BY <1>10, <1>a, <1>b, QuietStep DEF DropStream
<1>11. ASSUME NEW c \in Consumers, NextSection(c) PROVE WaiterInv'
  <2>1. /\ slot' = slot /\ cpc[c] = "entering"
        /\ cpc' = [cpc EXCEPT ![c] = "awaiting"]
    BY <1>11 DEF NextSection
  <2>2. NextWaits(c) \/ \E d \in Consumers, r \in Results : NextServes(c, d, r)
    BY <1>11, NextCases
  <2>3. CASE NextWaits(c)
    BY <2>1, <2>3, WaiterQueues DEF NextWaits
  <2>4. ASSUME NEW d \in Consumers, NEW r \in Results, NextServes(c, d, r)
        PROVE  WaiterInv'
    BY <2>1, <2>4, WaiterServed
  <2> QED
    BY <2>2, <2>3, <2>4
<1>12. ASSUME NEW c \in Consumers, SecondWaiter(c) PROVE WaiterInv'
  <2>1. WakesSame /\ UNCHANGED <<continuations, slot>>
    BY <1>12, <1>a, KeptStep DEF SecondWaiter, bufferVars, EffectsKept
  <2>2. AwaitingSame
    BY <1>12 DEF SecondWaiter, AwaitingSame, StreamTypes, ConsumerTypes
  <2> QED
    BY <2>1, <2>2, WaitersKept
<1>13. ASSUME NEW k \in Cancellers, CancelTask(k) \/ UnlockRecords(k) PROVE WaiterInv'
  BY <1>13, <1>a, <1>b, KeptStep DEF CancelTask, UnlockRecords, EffectsKept
<1>14. ASSUME NEW k \in Cancellers, LockAndCancel(k) PROVE WaiterInv'
  BY <1>14, <1>a, <1>b, QuietStep DEF LockAndCancel
<1>15. ASSUME FreeStorage PROVE WaiterInv'
  BY <1>15, <1>a, <1>b, KeptStep DEF FreeStorage, EffectsKept
<1> QED
  BY StepCases, <1>1, <1>2, <1>3, <1>4, <1>5, <1>6, <1>7, <1>8, <1>9, <1>10, <1>11,
     <1>12, <1>13, <1>14, <1>15
-----------------------------------------------------------------------------
(* A handler is in one place.                                              *)

LEMMA HandlersKept ==
  ASSUME HandlerInv, CallsSame, UNCHANGED handlerVars
  PROVE  HandlerInv'
BY DEF HandlerInv, Handled, CallsSame, handlerVars

LEMMA HandlerTaken ==
  ASSUME HandlerTypes, HandlerInv, NEW t \in Threads, CallsMore(t, onTermination),
         onTermination' = NoHandler, UNCHANGED <<installed, replaced, calls>>
  PROVE  HandlerInv'
<1>1. \A h \in TerminationHandlers : h # onTermination'
  BY DEF NoHandler, TerminationHandlers
<1>2. onTermination <= installed
  BY DEF HandlerTypes
<1>3. \A u \in Threads, h \in TerminationHandlers :
        CallsIn(effects'[u], h) <=> CallsIn(effects[u], h) \/ (u = t /\ h = onTermination)
  BY DEF CallsMore
<1>4. ASSUME NEW h \in TerminationHandlers
      PROVE  Handled(h)'
  <2>1. Handled(h) /\ h # onTermination'
    BY <1>1 DEF HandlerInv
  <2>2. installed' = installed /\ replaced' = replaced /\ calls' = calls
    OBVIOUS
  <2>3. CASE h = onTermination
    <3>1. ~ (h > installed)
      BY <1>2, <2>3 DEF HandlerTypes
    <3> QED
      BY <1>3, <2>1, <2>2, <2>3, <3>1 DEF Handled
  <2>4. CASE h # onTermination
    BY <1>3, <2>1, <2>2, <2>4 DEF Handled
  <2> QED
    BY <2>3, <2>4
<1> QED
  BY <1>4 DEF HandlerInv

LEMMA HandlerCalled ==
  ASSUME HandlerTypes, HandlerInv, NEW t \in Threads, NEW g \in TerminationHandlers,
         CallsLess(t, g), calls' = [calls EXCEPT ![g] = @ + 1],
         UNCHANGED <<onTermination, installed, replaced>>
  PROVE  HandlerInv'
<1>1. Handled(g) /\ CallsIn(effects[t], g) /\ calls[g] = 0
  BY DEF HandlerInv, Handled, CallsLess
<1>2. ~ (g = onTermination \/ g > installed)
  BY <1>1 DEF Handled
<1>3. \A h \in TerminationHandlers : calls'[h] = IF h = g THEN 1 ELSE calls[h]
  BY <1>1 DEF HandlerTypes
<1>4. \A u \in Threads, h \in TerminationHandlers :
        CallsIn(effects'[u], h) <=> CallsIn(effects[u], h) /\ ~ (u = t /\ h = g)
  BY DEF CallsLess
<1>5. ASSUME NEW h \in TerminationHandlers
      PROVE  Handled(h)'
  <2>1. Handled(h)
    BY DEF HandlerInv
  <2>2. onTermination' = onTermination /\ installed' = installed /\ replaced' = replaced
    OBVIOUS
  <2>3. CASE h = g
    BY <1>1, <1>2, <1>3, <1>4, <2>1, <2>2, <2>3 DEF Handled
  <2>4. CASE h # g
    BY <1>3, <1>4, <2>1, <2>2, <2>4 DEF Handled
  <2> QED
    BY <2>3, <2>4
<1> QED
  BY <1>5 DEF HandlerInv

LEMMA HandlerSet ==
  ASSUME HandlerTypes, HandlerInv, CallsSame, NEW p, SetOnTermination(p)
  PROVE  HandlerInv'
<1>1. /\ installed' = installed + 1 /\ onTermination' = installed + 1
      /\ replaced' = replaced \cup ({onTermination} \ {NoHandler})
      /\ calls' = calls
  BY DEF SetOnTermination
<1>2. installed \in Nat /\ onTermination \in 0 .. installed
  BY DEF HandlerTypes
<1>3. ASSUME NEW h \in TerminationHandlers
      PROVE  Handled(h)'
  <2>1. Handled(h) /\ h \in Nat /\ h # NoHandler
    BY DEF HandlerInv, TerminationHandlers, NoHandler
  <2>2. \A u \in Threads : CallsIn(effects'[u], h) <=> CallsIn(effects[u], h)
    BY DEF CallsSame
  <2>3. CASE h <= installed
    <3>1. h # onTermination' /\ ~ (h > installed') /\ ~ (h > installed)
      BY <1>1, <1>2, <2>1, <2>3
    <3>2. h = onTermination => h \in replaced'
      BY <1>1, <2>1
    <3>3. h \in replaced => h \in replaced'
      BY <1>1
    <3> QED
      BY <1>1, <2>1, <2>2, <2>3, <3>1, <3>2, <3>3 DEF Handled
  <2>4. CASE h > installed
    <3>1. h # onTermination /\ (h <= installed' => h = onTermination')
      BY <1>1, <1>2, <2>1, <2>4
    <3> QED
      BY <1>1, <2>1, <2>2, <2>4, <3>1 DEF Handled
  <2> QED
    BY <1>2, <2>1, <2>3, <2>4
<1> QED
  BY <1>3 DEF HandlerInv

LEMMA HandlerFreed ==
  ASSUME HandlerTypes, HandlerInv, CallsSame, FreeStorage
  PROVE  HandlerInv'
<1>1. \A t \in Threads, h \in TerminationHandlers : ~ CallsIn(effects[t], h)
  BY FreeList DEF FreeStorage
<1>2. /\ installed' = installed /\ replaced' = replaced /\ onTermination' = NoHandler
  BY DEF FreeStorage
<1>3. ASSUME NEW h \in TerminationHandlers
      PROVE  Handled(h)'
  <2>1. Handled(h) /\ h # NoHandler /\ h \in Nat
    BY DEF HandlerInv, NoHandler, TerminationHandlers
  <2>2. \A u \in Threads : ~ CallsIn(effects'[u], h)
    BY <1>1 DEF CallsSame
  <2>3. CASE h = onTermination
    <3>1. calls[h] = 0
      BY <2>1, <2>3 DEF Handled
    <3>2. calls'[h] = 1
      BY <2>1, <2>3, <3>1 DEF FreeStorage, HandlerTypes
    <3>3. ~ (h > installed)
      BY <2>3 DEF HandlerTypes
    <3> QED
      BY <1>2, <2>1, <2>2, <3>2, <3>3 DEF Handled
  <2>4. CASE h # onTermination
    <3>1. calls'[h] = calls[h]
      BY <2>4 DEF FreeStorage, HandlerTypes
    <3> QED
      BY <1>1, <1>2, <2>1, <2>2, <2>4, <3>1 DEF Handled
  <2> QED
    BY <2>3, <2>4
<1> QED
  BY <1>3 DEF HandlerInv

LEMMA HandlerStep ==
  ASSUME StreamTypes, CallInv, CancelInv, HandlerInv, StreamNext
  PROVE  HandlerInv'
<1>a. HandlerTypes /\ EffectTypes /\ onTermination \in 0 .. MaxHandlers
  BY TypesOfSequences DEF StreamTypes
<1>b. UNCHANGED handlerVars /\ CallsSame => HandlerInv'
  BY HandlersKept
<1>1. ASSUME NEW t \in Threads, CallHandler(t) PROVE HandlerInv'
  BY <1>1, <1>a, CallEffect, HandlerCalled DEF CallHandler
<1>2. ASSUME NEW t \in Threads, ResumeContinuation(t) PROVE HandlerInv'
  BY <1>2, <1>a, <1>b, ResumeEffect DEF ResumeContinuation
<1>3. ASSUME NEW t \in Threads, CancelStorage(t) PROVE HandlerInv'
  BY <1>3, <1>a, CancelEffect, HandlerTaken DEF CancelStorage
<1>4. ASSUME NEW t \in Threads, FinishSection(t) PROVE HandlerInv'
  BY <1>4, <1>a, FinishCases, HandlerTaken DEF FinishSection
<1>5. ASSUME NEW p \in Producers, SetOnTermination(p) PROVE HandlerInv'
  BY <1>5, <1>a, KeptStep, HandlerSet DEF EffectsKept
<1>6. ASSUME NEW p \in Producers, YieldSection(p) PROVE HandlerInv'
  BY <1>6, <1>b, YieldCases DEF YieldSection
<1>7. ASSUME NEW p \in Producers, CallFinishSection(p) PROVE HandlerInv'
  BY <1>7, <1>a, <1>b, QuietStep DEF CallFinishSection
<1>8. ASSUME NEW c \in Consumers, EnterNext(c) \/ DropStream(c) PROVE HandlerInv'
  BY <1>8, <1>a, <1>b, QuietStep DEF EnterNext, DropStream
<1>9. ASSUME NEW c \in Consumers, ReturnFromNext(c) \/ SecondWaiter(c)
      PROVE  HandlerInv'
  BY <1>9, <1>a, <1>b, KeptStep DEF ReturnFromNext, SecondWaiter, EffectsKept
<1>10. ASSUME NEW c \in Consumers, NextSection(c) PROVE HandlerInv'
  BY <1>10, <1>b, NextCases DEF NextSection
<1>11. ASSUME NEW k \in Cancellers, CancelTask(k) \/ UnlockRecords(k) PROVE HandlerInv'
  BY <1>11, <1>a, <1>b, KeptStep DEF CancelTask, UnlockRecords, EffectsKept
<1>12. ASSUME NEW k \in Cancellers, LockAndCancel(k) PROVE HandlerInv'
  BY <1>12, <1>a, <1>b, QuietStep DEF LockAndCancel
<1>13. ASSUME FreeStorage PROVE HandlerInv'
  BY <1>13, <1>a, KeptStep, HandlerFreed DEF EffectsKept
<1> QED
  BY StepCases, <1>1, <1>2, <1>3, <1>4, <1>5, <1>6, <1>7, <1>8, <1>9, <1>10, <1>11,
     <1>12, <1>13

-----------------------------------------------------------------------------
(* Who has something to do, and when nobody has any more.                  *)

(* The only thread whose list a step may change.                           *)
OnlyList(t) == \A u \in Threads : u # t => effects'[u] = effects[u]

LEMMA OneList ==
  ASSUME EffectTypes
  PROVE  /\ \A t \in Threads :
              (CallHandler(t) \/ ResumeContinuation(t) \/ CancelStorage(t) \/ FinishSection(t))
                => OnlyList(t)
         /\ \A p \in Producers : YieldSection(p) \/ CallFinishSection(p) => OnlyList(p)
         /\ \A c \in Consumers :
              EnterNext(c) \/ DropStream(c) \/ NextSection(c) => OnlyList(c)
         /\ \A k \in Cancellers : LockAndCancel(k) => OnlyList(k)
<1>1. ASSUME NEW t, NEW list, effects' = [effects EXCEPT ![t] = list]
      PROVE  OnlyList(t)
  BY <1>1 DEF EffectTypes, OnlyList
<1>2. \A t \in Threads :
        (CallHandler(t) \/ ResumeContinuation(t) \/ CancelStorage(t) \/ FinishSection(t))
          => OnlyList(t)
  BY <1>1 DEF CallHandler, ResumeContinuation, CancelStorage, FinishSection, Then
<1>3. \A p \in Producers : YieldSection(p) \/ CallFinishSection(p) => OnlyList(p)
  BY <1>1 DEF YieldSection, CallFinishSection
<1>4. \A c \in Consumers : EnterNext(c) \/ DropStream(c) \/ NextSection(c) => OnlyList(c)
  BY <1>1 DEF EnterNext, DropStream, NextSection
<1>5. \A k \in Cancellers : LockAndCancel(k) => OnlyList(k)
  BY <1>1 DEF LockAndCancel
<1> QED
  BY <1>2, <1>3, <1>4, <1>5

LEMMA CancelInvStep ==
  ASSUME StreamTypes, CancelInv, StreamNext
  PROVE  CancelInv'
<1>a. EffectTypes /\ CancelTypes
  BY DEF StreamTypes
<1>b. /\ \A p \in Producers : p \notin Cancellers
      /\ \A c \in Consumers : c \notin Cancellers
  BY StreamThreadsAssumption
<1>1. ASSUME NEW t \in Threads,
             \/ CallHandler(t) \/ ResumeContinuation(t)
             \/ CancelStorage(t) \/ FinishSection(t)
      PROVE  CancelInv'
  <2>1. OnlyList(t) /\ kpc' = kpc /\ effects[t] # <<>>
    BY <1>1, <1>a, OneList DEF CallHandler, ResumeContinuation, CancelStorage,
       FinishSection, Doing, cancelVars
  <2> QED
    BY <2>1, ToThreads DEF CancelInv, OnlyList
<1>2. ASSUME NEW p \in Producers, YieldSection(p) \/ CallFinishSection(p)
      PROVE  CancelInv'
  <2>1. OnlyList(p) /\ kpc' = kpc
    BY <1>2, <1>a, OneList DEF YieldSection, CallFinishSection, cancelVars
  <2> QED
    BY <1>b, <2>1, ToThreads DEF CancelInv, OnlyList
<1>3. ASSUME NEW c \in Consumers, EnterNext(c) \/ DropStream(c) \/ NextSection(c)
      PROVE  CancelInv'
  <2>1. OnlyList(c) /\ kpc' = kpc
    BY <1>3, <1>a, OneList DEF EnterNext, DropStream, NextSection, cancelVars
  <2> QED
    BY <1>b, <2>1, ToThreads DEF CancelInv, OnlyList
<1>4. ASSUME NEW k \in Cancellers, LockAndCancel(k) PROVE CancelInv'
  <2>1. OnlyList(k) /\ kpc' = [kpc EXCEPT ![k] = "visit"]
    BY <1>4, <1>a, OneList DEF LockAndCancel
  <2> QED
    BY <1>a, <2>1, ToThreads DEF CancelInv, OnlyList, CancelTypes
<1>5. ASSUME NEW k \in Cancellers, CancelTask(k) \/ UnlockRecords(k) PROVE CancelInv'
  <2>1. effects' = effects /\ effects[k] = <<>>
    BY <1>5 DEF CancelTask, UnlockRecords, Free, CancelInv
  <2>2. \A x \in Cancellers : x # k => kpc'[x] = kpc[x]
    BY <1>5, <1>a DEF CancelTask, UnlockRecords, CancelTypes
  <2> QED
    BY <2>1, <2>2 DEF CancelInv
<1>6. UNCHANGED <<effects, kpc>> => CancelInv'
  BY DEF CancelInv
<1>7. ASSUME \/ \E p \in Producers : SetOnTermination(p)
             \/ \E c \in Consumers : ReturnFromNext(c) \/ SecondWaiter(c)
             \/ FreeStorage
      PROVE  CancelInv'
  BY <1>6, <1>7 DEF SetOnTermination, ReturnFromNext, SecondWaiter, FreeStorage, cancelVars
<1> QED
  BY StepCases, <1>1, <1>2, <1>3, <1>4, <1>5, <1>7
(* Nothing happens to a stream that nobody iterates except that its last   *)
(* threads finish.                                                         *)
LEMMA LifeInvStep ==
  ASSUME StreamTypes, CancelInv, WaiterInv, LifeInv, StreamNext
  PROVE  LifeInv'
<1>a. EffectTypes /\ ConsumerTypes /\ handle \in {"live", "dropped", "freed"}
  BY DEF StreamTypes
<1>1. ASSUME NEW t \in Threads,
             \/ CallHandler(t) \/ ResumeContinuation(t)
             \/ CancelStorage(t) \/ FinishSection(t)
      PROVE  LifeInv'
  <2>1. handle' = handle /\ cpc' = cpc /\ effects[t] # <<>>
    BY <1>1 DEF CallHandler, ResumeContinuation, CancelStorage, FinishSection, Doing,
       consumerVars
  <2> QED
    BY <2>1 DEF LifeInv
<1>2. ASSUME NEW p \in Producers,
             SetOnTermination(p) \/ YieldSection(p) \/ CallFinishSection(p)
      PROVE  LifeInv'
  <2>1. handle' = handle /\ cpc' = cpc /\ handle # "freed"
    BY <1>2 DEF SetOnTermination, YieldSection, CallFinishSection, consumerVars
  <2> QED
    BY <2>1 DEF LifeInv
<1>3. ASSUME NEW c \in Consumers,
             \/ EnterNext(c) \/ ReturnFromNext(c) \/ NextSection(c) \/ SecondWaiter(c)
      PROVE  LifeInv'
  <2>1. handle' = handle
    BY <1>3 DEF EnterNext, ReturnFromNext, NextSection, SecondWaiter
  <2>2. handle = "live"
    BY <1>3 DEF EnterNext, ReturnFromNext, NextSection, SecondWaiter, LifeInv
  <2> QED
    BY <2>1, <2>2 DEF LifeInv
<1>4. ASSUME NEW c \in Consumers, DropStream(c) PROVE LifeInv'
  BY <1>4 DEF DropStream, LifeInv, consumerVars
<1>5. ASSUME NEW k \in Cancellers, CancelTask(k) \/ UnlockRecords(k) PROVE LifeInv'
  BY <1>5 DEF CancelTask, UnlockRecords, LifeInv, consumerVars, handlerVars
<1>6. ASSUME NEW k \in Cancellers, LockAndCancel(k) PROVE LifeInv'
  <2>1. /\ handle' = handle /\ cpc' = cpc /\ onTermination' = onTermination
        /\ OnlyList(k)
    BY <1>6, <1>a, OneList DEF LockAndCancel, consumerVars, handlerVars
  <2>2. CASE handle # "freed"
    BY <2>1, <2>2 DEF LifeInv
  <2>3. CASE handle = "freed"
    <3>1. target[k] \in Consumers
      BY DEF StreamTypes, CancelTypes
    <3>2. cpc[target[k]] = "idle"
      BY <2>3, <3>1 DEF LifeInv
    <3>3. effects' = [effects EXCEPT ![k] = <<>>]
      BY <1>6, <3>2 DEF LockAndCancel
    <3>4. \A t \in Threads : effects'[t] = <<>>
      BY <1>a, <2>3, <3>3 DEF LifeInv, EffectTypes
    <3> QED
      BY <2>1, <3>4 DEF LifeInv
  <2> QED
    BY <2>2, <2>3
<1>7. ASSUME FreeStorage PROVE LifeInv'
  BY <1>7 DEF FreeStorage, LifeInv, consumerVars, Free
<1> QED
  BY StepCases, <1>1, <1>2, <1>3, <1>4, <1>5, <1>6, <1>7

-----------------------------------------------------------------------------
(* Nobody waits while a value is buffered, and calls are counted.          *)

LEMMA UnstarvedStep ==
  ASSUME StreamTypes, CallInv, CancelInv, StreamNext
  PROVE  Unstarved'
<1>a. continuations \in Seq(Consumers) /\ Unstarved
  BY TypesOfSequences DEF CallInv
<1>b. UNCHANGED bufferVars => Unstarved'
  BY <1>a DEF Unstarved, bufferVars
<1>1. ASSUME NEW t \in Threads, FinishSection(t) PROVE Unstarved'
  BY <1>1, FinishCases DEF FinishOnly, FinishWakes, Unstarved
<1>2. ASSUME NEW p \in Producers, YieldSection(p) PROVE Unstarved'
  BY <1>2, YieldCases DEF YieldStores, YieldWakes, Unstarved
<1>3. ASSUME NEW c \in Consumers, NextSection(c) PROVE Unstarved'
  BY <1>3, NextCases DEF NextWaits, NextServes, Unstarved
<1> QED
  BY StepCases, <1>b, <1>1, <1>2, <1>3
     DEF CallHandler, ResumeContinuation, CancelStorage, SetOnTermination,
         CallFinishSection, EnterNext, ReturnFromNext, DropStream, SecondWaiter,
         CancelTask, LockAndCancel, UnlockRecords, FreeStorage

LEMMA AnsweredStep ==
  ASSUME StreamTypes, CallInv, StreamNext
  PROVE  Answered'
<1>a. ConsumerTypes /\ Answered /\ MaxNexts \in Nat
  BY StreamBoundsAssumption DEF StreamTypes, CallInv
<1>b. UNCHANGED consumerVars => Answered'
  BY <1>a DEF Answered, consumerVars
<1>1. ASSUME NEW t \in Threads,
             \/ CallHandler(t) \/ ResumeContinuation(t)
             \/ CancelStorage(t) \/ FinishSection(t)
      PROVE  Answered'
  <2>1. cpc' = cpc /\ nexts' = nexts /\ received' = received
    BY <1>1 DEF CallHandler, ResumeContinuation, CancelStorage, FinishSection, consumerVars
  <2> QED
    BY <1>a, <2>1 DEF Answered
<1>2. ASSUME NEW c \in Consumers, EnterNext(c) PROVE Answered'
  <2>1. /\ nexts' = [nexts EXCEPT ![c] = @ + 1] /\ nexts[c] < MaxNexts
        /\ cpc' = [cpc EXCEPT ![c] = "entering"] /\ cpc[c] = "idle"
        /\ received' = received
    BY <1>2 DEF EnterNext
  <2> QED
    BY <1>a, <2>1 DEF Answered, ConsumerTypes
<1>3. ASSUME NEW c \in Consumers, ReturnFromNext(c) PROVE Answered'
  <2>1. /\ received' = [received EXCEPT ![c] = Append(@, Head(slot[c]))]
        /\ cpc' = [cpc EXCEPT ![c] = "idle"] /\ cpc[c] = "awaiting"
        /\ nexts' = nexts /\ slot[c] # <<>>
    BY <1>3 DEF ReturnFromNext
  <2>2. Head(slot[c]) \in Results
    BY <1>a, <2>1, HeadTailProperties DEF ConsumerTypes
  <2>3. Len(received'[c]) = Len(received[c]) + 1
    BY <1>a, <2>1, <2>2, AppendProperties DEF ConsumerTypes
  <2>4. ASSUME NEW x \in Consumers
        PROVE  /\ nexts'[x] <= MaxNexts
               /\ Len(received'[x]) = IF cpc'[x] = "idle" THEN nexts'[x] ELSE nexts'[x] - 1
    <3>1. CASE x = c
      BY <1>a, <2>1, <2>3, <3>1 DEF Answered, ConsumerTypes
    <3>2. CASE x # c
      <4>1. received'[x] = received[x] /\ cpc'[x] = cpc[x]
        BY <1>a, <2>1, <3>2 DEF ConsumerTypes
      <4> QED
        BY <1>a, <2>1, <4>1 DEF Answered
    <3> QED
      BY <3>1, <3>2
  <2> QED
    BY <2>4 DEF Answered
<1>4. ASSUME NEW c \in Consumers, NextSection(c) \/ SecondWaiter(c) PROVE Answered'
  <2>1. /\ cpc[c] = "entering" /\ nexts' = nexts /\ received' = received
        /\ \A x \in Consumers : cpc'[x] = "idle" <=> cpc[x] = "idle"
    BY <1>4, <1>a DEF NextSection, SecondWaiter, ConsumerTypes
  <2> QED
    BY <1>a, <2>1 DEF Answered
<1> QED
  BY StepCases, <1>b, <1>1, <1>2, <1>3, <1>4
     DEF SetOnTermination, YieldSection, CallFinishSection, DropStream,
         CancelTask, LockAndCancel, UnlockRecords, FreeStorage

LEMMA CallInvStep ==
  ASSUME StreamTypes, CallInv, CancelInv, StreamNext
  PROVE  CallInv'
BY UnstarvedStep, AnsweredStep DEF CallInv
-----------------------------------------------------------------------------
(* The answer that is on its way to a consumer.                            *)

LEMMA ResumeIsLast ==
  ASSUME NEW list \in EffectLists
  PROVE  /\ Len(list) \in 0 .. 2 /\ (list # <<>> => Len(list) \in 1 .. 2)
         /\ \A i \in 1 .. Len(list) : list[i][1] = "resume" => i = Len(list)
<1>1. ASSUME NEW item, list = << item >>
      PROVE  /\ Len(list) = 1
             /\ \A i \in 1 .. Len(list) : i = Len(list)
  BY <1>1, OneItem
<1>2. ASSUME NEW h, NEW item, list = << <<"call", h>> >> \o << item >>
      PROVE  /\ Len(list) = 2
             /\ \A i \in 1 .. Len(list) : list[i][1] = "resume" => i = Len(list)
  <2>1. Len(list) = 2 /\ list[1][1] = "call"
    BY <1>2, TwoItems, ItemKinds
  <2> QED
    BY <2>1
<1>3. ASSUME NEW h, list = << <<"call", h>> >> \o <<>>
      PROVE  \E item : list = << item >>
  BY <1>3
<1>4. list = <<>> => Len(list) = 0
  OBVIOUS
<1>5. \/ list = <<>>
      \/ \E item : list = << item >>
      \/ \E h, item : list = << <<"call", h>> >> \o << item >>
  <2>1. \A rest \in Rests : rest = <<>> \/ \E item : rest = << item >>
    BY RestCases
  <2>2. CASE list = << <<"cancel">> >>
    BY <2>2
  <2>3. CASE list \in Rests
    BY <2>1, <2>3
  <2>4. CASE \E h \in TerminationHandlers, rest \in Rests : list = << <<"call", h>> >> \o rest
    <3>1. PICK h \in TerminationHandlers, rest \in Rests : list = << <<"call", h>> >> \o rest
      BY <2>4
    <3>2. CASE rest = <<>>
      <4>1. list = << <<"call", h>> >> \o <<>>
        BY <3>1, <3>2
      <4> QED
        BY <1>3, <4>1
    <3>3. CASE \E item : rest = << item >>
      BY <3>1, <3>3
    <3> QED
      BY <2>1, <3>2, <3>3
  <2>5. \/ list = << <<"cancel">> >>
        \/ list \in Rests
        \/ \E h \in TerminationHandlers, rest \in Rests : list = << <<"call", h>> >> \o rest
    BY ListCases
  <2> QED
    BY <2>2, <2>3, <2>4, <2>5
<1>6. list = <<>> \/ Len(list) = 1 \/ Len(list) = 2
  BY <1>1, <1>2, <1>5
<1>7. \A i \in 1 .. Len(list) : list[i][1] = "resume" => i = Len(list)
  <2>1. CASE list = <<>>
    BY <1>4, <2>1
  <2>2. CASE \E item : list = << item >>
    BY <1>1, <2>2
  <2>3. CASE \E h, item : list = << <<"call", h>> >> \o << item >>
    BY <1>2, <2>3
  <2> QED
    BY <1>5, <2>1, <2>2, <2>3
<1> QED
  BY <1>4, <1>6, <1>7

LEMMA FlightOf ==
  ASSUME EffectTypes, NEW c, NEW e
  PROVE  e \in InFlight(c) <=>
           \E t \in Threads : WakesIn(effects[t], c) /\ e = <<t, Len(effects[t])>>
<1>1. ASSUME e \in InFlight(c)
      PROVE  \E t \in Threads : WakesIn(effects[t], c) /\ e = <<t, Len(effects[t])>>
  <2>1. PICK t \in Threads, i \in 1 .. 4 : e = <<t, i>>
    BY <1>1 DEF InFlight
  <2>2. /\ i <= Len(effects[t])
        /\ effects[t][i][1] = "resume" /\ effects[t][i][2] = c
    BY <1>1, <2>1 DEF InFlight
  <2>3. effects[t] \in EffectLists
    BY DEF EffectTypes
  <2>4. i = Len(effects[t]) /\ effects[t] # <<>>
    <3>1. Len(effects[t]) \in 0 .. 2 /\ Len(<<>>) = 0
      BY <2>3, ResumeIsLast
    <3> QED
      BY <2>2, <2>3, <3>1, ResumeIsLast
  <2> QED
    BY <2>1, <2>2, <2>4 DEF WakesIn
<1>2. ASSUME NEW t \in Threads, WakesIn(effects[t], c), e = <<t, Len(effects[t])>>
      PROVE  e \in InFlight(c)
  <2>1. effects[t] \in EffectLists /\ effects[t] # <<>>
    BY <1>2 DEF EffectTypes, WakesIn
  <2>2. Len(effects[t]) \in 1 .. 4 /\ Len(effects[t]) <= Len(effects[t])
    BY <2>1, ResumeIsLast
  <2>3. e \in Threads \X (1 .. 4) /\ e[1] = t /\ e[2] = Len(effects[t])
    BY <1>2, <2>2
  <2> QED
    BY <1>2, <2>2, <2>3 DEF InFlight, WakesIn
<1> QED
  BY <1>1, <1>2

LEMMA AssignedIs ==
  ASSUME EffectTypes, NEW c \in Consumers, Waiting(c)
  PROVE  /\ slot[c] # <<>> => Assigned(c) = slot[c]
         /\ \A t \in Threads : WakesIn(effects[t], c) =>
              Assigned(c) = << ResultIn(effects[t]) >>
         /\ (slot[c] = <<>> /\ \A t \in Threads : ~ WakesIn(effects[t], c)) =>
              Assigned(c) = <<>>
<1>1. slot[c] # <<>> => Assigned(c) = slot[c]
  BY DEF Assigned
<1>2. ASSUME NEW t \in Threads, WakesIn(effects[t], c)
      PROVE  Assigned(c) = << ResultIn(effects[t]) >>
  <2>1. slot[c] = <<>> /\ \A u \in Threads : WakesIn(effects[u], c) => u = t
    BY <1>2 DEF Waiting
  <2> DEFINE e == <<t, Len(effects[t])>>
  <2>2. e \in InFlight(c) /\ \A f \in InFlight(c) : f = e
    BY <1>2, <2>1, FlightOf
  <2> HIDE DEF e
  <2>3. (CHOOSE f \in InFlight(c) : TRUE) = e /\ InFlight(c) # {}
    BY <2>2
  <2>4. Assigned(c) = << effects[e[1]][e[2]][3] >>
    BY <2>1, <2>3 DEF Assigned
  <2> QED
    BY <2>4 DEF e, ResultIn
<1>3. ASSUME slot[c] = <<>>, \A t \in Threads : ~ WakesIn(effects[t], c)
      PROVE  Assigned(c) = <<>>
  <2>1. \A e : e \notin InFlight(c)
    BY <1>3, FlightOf
  <2> QED
    BY <1>3, <2>1 DEF Assigned
<1> QED
  BY <1>1, <1>2, <1>3
GotSame == \A c \in Consumers : Got(c)' = Got(c)
GotMore(d, r) ==
  \A c \in Consumers : Got(c)' = IF c = d THEN Append(Got(c), r) ELSE Got(c)

LEMMA GotType ==
  ASSUME StreamTypes, WaiterInv, NEW c \in Consumers
  PROVE  /\ Assigned(c) \in Seq(Results) /\ received[c] \in Seq(Results)
         /\ Got(c) \in Seq(Results)
<1>1. /\ EffectTypes /\ Waiting(c)
      /\ slot[c] \in Seq(Results) /\ received[c] \in Seq(Results)
  BY DEF StreamTypes, ConsumerTypes, WaiterInv
<1>2. ASSUME NEW t \in Threads, WakesIn(effects[t], c)
      PROVE  ResultIn(effects[t]) \in Results
  <2>1. effects[t] \in EffectLists
    BY <1>1 DEF EffectTypes
  <2>2. ASSUME NEW rest \in Rests, WakesIn(rest, c)
        PROVE  ResultIn(rest) \in Results /\ rest # <<>>
    BY <2>2, RestCases, EmptyList, FinishItem, ResumeItem DEF WakesIn
  <2>3. CASE effects[t] = << <<"cancel">> >>
    BY <1>2, <2>3, CancelItem
  <2>4. CASE effects[t] \in Rests
    BY <1>2, <2>2, <2>4
  <2>5. ASSUME NEW h \in TerminationHandlers, NEW rest \in Rests,
               effects[t] = << <<"call", h>> >> \o rest
        PROVE  ResultIn(effects[t]) \in Results
    BY <1>2, <2>2, <2>5, CallThenRest
  <2> QED
    BY <2>1, <2>3, <2>4, <2>5, ListCases
<1>3. Assigned(c) \in Seq(Results)
  <2>1. CASE slot[c] # <<>>
    BY <1>1, <2>1, AssignedIs
  <2>2. ASSUME NEW t \in Threads, WakesIn(effects[t], c)
        PROVE  Assigned(c) \in Seq(Results)
    <3>1. Assigned(c) = << ResultIn(effects[t]) >>
      BY <1>1, <2>2, AssignedIs
    <3> QED
      BY <1>2, <2>2, <3>1
  <2>3. CASE slot[c] = <<>> /\ \A t \in Threads : ~ WakesIn(effects[t], c)
    BY <1>1, <2>3, AssignedIs
  <2> QED
    BY <2>1, <2>2, <2>3
<1> QED
  BY <1>1, <1>3, ConcatProperties DEF Got

(* The same, and in the next state.                                        *)
AssignedFacts ==
  \A c \in Consumers : Waiting(c) =>
    /\ slot[c] # <<>> => Assigned(c) = slot[c]
    /\ \A t \in Threads : WakesIn(effects[t], c) =>
         Assigned(c) = << ResultIn(effects[t]) >>
    /\ (slot[c] = <<>> /\ \A t \in Threads : ~ WakesIn(effects[t], c)) =>
         Assigned(c) = <<>>

LEMMA AssignedNow == EffectTypes => AssignedFacts
BY AssignedIs DEF AssignedFacts

LEMMA AssignedNext == EffectTypes' => AssignedFacts'
BY AssignedNow, PTL
LEMMA OneElement ==
  ASSUME NEW S, NEW s \in Seq(S), s # <<>>, Len(s) <= 1
  PROVE  s = << Head(s) >>
<1>1. Len(s) = 1
  <2> DEFINE n == Len(s)
  <2>1. n \in Nat \ {0}
    BY EmptySeq
  <2>2. n <= 1
    OBVIOUS
  <2> HIDE DEF n
  <2>3. n = 1
    BY <2>1, <2>2
  <2> QED
    BY <2>3 DEF n
<1>2. Head(s) \in S /\ Head(s) = s[1]
  BY HeadTailProperties
<1> DEFINE b == << Head(s) >>
<1>3. b \in Seq(S) /\ Len(b) = 1 /\ b[1] = Head(s)
  BY <1>2
<1> HIDE DEF b
<1>4. s = b
  BY <1>1, <1>2, <1>3, SeqEqual
<1> QED
  BY <1>4 DEF b

LEMMA GotKept ==
  ASSUME EffectTypes, EffectTypes', WaiterInv, WaiterInv', WakesSame,
         UNCHANGED <<slot, received>>
  PROVE  GotSame
<1>1. ASSUME NEW c \in Consumers
      PROVE  Assigned(c)' = Assigned(c)
  <2>1. Waiting(c) /\ Waiting(c)' /\ AssignedFacts /\ AssignedFacts'
    BY AssignedNow, AssignedNext DEF WaiterInv
  <2>2. \A u \in Threads :
          /\ WakesIn(effects'[u], c) <=> WakesIn(effects[u], c)
          /\ WakesIn(effects[u], c) => ResultIn(effects'[u]) = ResultIn(effects[u])
    BY DEF WakesSame
  <2> QED
    BY <2>1, <2>2 DEF AssignedFacts
<1> QED
  BY <1>1 DEF GotSame, Got

LEMMA GotOnItsWay ==
  ASSUME StreamTypes, EffectTypes', WaiterInv, WaiterInv',
         NEW t \in Threads, NEW d \in Consumers, NEW r \in Results,
         WakesMore(t, d, r), UNCHANGED <<slot, received>>,
         slot[d] = <<>>, \A u \in Threads : ~ WakesIn(effects[u], d)
  PROVE  GotMore(d, r)
<1>a. EffectTypes
  BY DEF StreamTypes
<1>b. AssignedFacts /\ AssignedFacts'
  BY <1>a, AssignedNow, AssignedNext
<1>1. ASSUME NEW c \in Consumers, c # d
      PROVE  Got(c)' = Got(c)
  <2>1. Waiting(c) /\ Waiting(c)'
    BY DEF WaiterInv
  <2>2. \A u \in Threads :
          /\ WakesIn(effects'[u], c) <=> WakesIn(effects[u], c)
          /\ WakesIn(effects[u], c) => ResultIn(effects'[u]) = ResultIn(effects[u])
    BY <1>1 DEF WakesMore
  <2>3. Assigned(c)' = Assigned(c)
    BY <1>b, <2>1, <2>2 DEF AssignedFacts
  <2> QED
    BY <2>3 DEF Got
<1>2. Got(d)' = Append(Got(d), r)
  <2>1. Waiting(d) /\ Waiting(d)'
    BY DEF WaiterInv
  <2>2. WakesIn(effects'[t], d) /\ ResultIn(effects'[t]) = r
    BY DEF WakesMore
  <2>3. Assigned(d) = <<>> /\ Assigned(d)' = <<r>>
    BY <1>b, <2>1, <2>2 DEF AssignedFacts
  <2>4. received[d] \in Seq(Results)
    BY GotType
  <2>5. Got(d) = received[d]
    BY <2>3, <2>4, ConcatEmptySeq DEF Got
  <2>6. Got(d)' = received[d] \o <<r>>
    BY <2>3 DEF Got
  <2> QED
    BY <2>4, <2>5, <2>6, AppendIsConcat
<1> QED
  BY <1>1, <1>2 DEF GotMore

LEMMA GotResumed ==
  ASSUME StreamTypes, EffectTypes', WaiterInv, WaiterInv',
         NEW t \in Threads, NEW d \in Consumers, NEW r \in Results,
         WakesLess(t, d, r), slot' = [slot EXCEPT ![d] = Append(@, r)],
         received' = received
  PROVE  GotSame
<1>a. EffectTypes /\ ConsumerTypes
  BY DEF StreamTypes
<1>b. AssignedFacts /\ AssignedFacts'
  BY <1>a, AssignedNow, AssignedNext
<1>1. ASSUME NEW c \in Consumers, c # d
      PROVE  Assigned(c)' = Assigned(c)
  <2>1. Waiting(c) /\ Waiting(c)' /\ slot'[c] = slot[c]
    BY <1>a, <1>1 DEF WaiterInv, ConsumerTypes
  <2>2. \A u \in Threads :
          /\ WakesIn(effects'[u], c) <=> WakesIn(effects[u], c)
          /\ WakesIn(effects[u], c) => ResultIn(effects'[u]) = ResultIn(effects[u])
    BY <1>1 DEF WakesLess
  <2>3. CASE slot[c] # <<>>
    BY <1>b, <2>1, <2>3 DEF AssignedFacts
  <2>4. ASSUME NEW u \in Threads, WakesIn(effects[u], c)
        PROVE  Assigned(c)' = Assigned(c)
    BY <1>b, <2>1, <2>2, <2>4 DEF AssignedFacts
  <2>5. CASE slot[c] = <<>> /\ \A u \in Threads : ~ WakesIn(effects[u], c)
    <3>1. slot'[c] = <<>> /\ \A u \in Threads : ~ WakesIn(effects'[u], c)
      BY <2>1, <2>2, <2>5
    <3> QED
      BY <1>b, <2>1, <2>5, <3>1 DEF AssignedFacts
  <2> QED
    BY <2>3, <2>4, <2>5
<1>2. Assigned(d)' = Assigned(d)
  <2>1. Waiting(d) /\ Waiting(d)' /\ WakesIn(effects[t], d) /\ ResultIn(effects[t]) = r
    BY DEF WaiterInv, WakesLess
  <2>2. slot[d] = <<>>
    BY <2>1 DEF Waiting
  <2>3. slot'[d] = <<r>> /\ <<r>> # <<>>
    BY <1>a, <2>2 DEF ConsumerTypes
  <2> QED
    BY <1>b, <2>1, <2>3 DEF AssignedFacts
<1> QED
  BY <1>1, <1>2 DEF GotSame, Got

LEMMA GotReturned ==
  ASSUME StreamTypes, EffectTypes', WaiterInv, WaiterInv',
         NEW c \in Consumers, WakesSame, ReturnFromNext(c)
  PROVE  GotSame
<1>a. EffectTypes /\ ConsumerTypes
  BY DEF StreamTypes
<1>b. AssignedFacts /\ AssignedFacts'
  BY <1>a, AssignedNow, AssignedNext
<1>c. /\ slot[c] # <<>> /\ slot' = [slot EXCEPT ![c] = <<>>]
      /\ received' = [received EXCEPT ![c] = Append(@, Head(slot[c]))]
  BY DEF ReturnFromNext
<1>1. ASSUME NEW x \in Consumers, x # c
      PROVE  Got(x)' = Got(x)
  <2>1. Waiting(x) /\ Waiting(x)' /\ slot'[x] = slot[x] /\ received'[x] = received[x]
    BY <1>a, <1>c, <1>1 DEF WaiterInv, ConsumerTypes
  <2>2. \A u \in Threads :
          /\ WakesIn(effects'[u], x) <=> WakesIn(effects[u], x)
          /\ WakesIn(effects[u], x) => ResultIn(effects'[u]) = ResultIn(effects[u])
    BY DEF WakesSame
  <2>3. Assigned(x)' = Assigned(x)
    BY <1>b, <2>1, <2>2 DEF AssignedFacts
  <2> QED
    BY <2>1, <2>3 DEF Got
<1>2. Got(c)' = Got(c)
  <2>1. Waiting(c) /\ Waiting(c)' /\ slot'[c] = <<>>
    BY <1>a, <1>c DEF WaiterInv, ConsumerTypes
  <2>2. \A u \in Threads : ~ WakesIn(effects'[u], c)
    BY <1>c, <2>1 DEF WakesSame, Waiting
  <2>3. Assigned(c) = slot[c] /\ Assigned(c)' = <<>>
    BY <1>b, <1>c, <2>1, <2>2 DEF AssignedFacts
  <2>4. /\ slot[c] \in Seq(Results) /\ received[c] \in Seq(Results)
        /\ Head(slot[c]) \in Results
    BY <1>a, <1>c, HeadTailProperties DEF ConsumerTypes
  <2>5. slot[c] = << Head(slot[c]) >>
    BY <1>c, <2>1, <2>4, OneElement DEF Waiting
  <2>6. received'[c] = Append(received[c], Head(slot[c]))
    BY <1>a, <1>c DEF ConsumerTypes
  <2>7. received'[c] = received[c] \o slot[c] /\ received'[c] \in Seq(Results)
    <3>1. Append(received[c], Head(slot[c])) = received[c] \o << Head(slot[c]) >>
      BY <2>4, AppendIsConcat
    <3>2. Append(received[c], Head(slot[c])) \in Seq(Results)
      BY <2>4, AppendProperties
    <3> QED
      BY <2>5, <2>6, <3>1, <3>2
  <2>8. Got(c)' = received'[c]
    BY <2>3, <2>7, ConcatEmptySeq DEF Got
  <2> QED
    BY <2>3, <2>7, <2>8 DEF Got
<1> QED
  BY <1>1, <1>2 DEF GotSame
-----------------------------------------------------------------------------
(* A value is in one place.                                                *)

HasSame ==
  \A c \in Consumers, v \in Values :
    /\ Has(c, v)' <=> Has(c, v)
    /\ OnceIn(Got(c), v) => OnceIn(Got(c), v)'

LEMMA SameHasSame ==
  ASSUME GotSame
  PROVE  HasSame
BY DEF GotSame, HasSame, Has

LEMMA MoreHas ==
  ASSUME StreamTypes, WaiterInv, NEW d \in Consumers, NEW r \in Results, GotMore(d, r)
  PROVE  \A c \in Consumers, v \in Results :
           /\ Has(c, v)' <=> Has(c, v) \/ (c = d /\ v = r)
           /\ OnceIn(Got(c), v) /\ (c = d /\ v = r => ~ Has(c, v)) => OnceIn(Got(c), v)'
<1>1. ASSUME NEW c \in Consumers, NEW v \in Results, c # d
      PROVE  /\ Has(c, v)' <=> Has(c, v)
             /\ OnceIn(Got(c), v) => OnceIn(Got(c), v)'
  <2>1. Got(c)' = Got(c)
    BY <1>1 DEF GotMore
  <2> QED
    BY <2>1 DEF Has
<1>2. ASSUME NEW v \in Results
      PROVE  /\ Has(d, v)' <=> Has(d, v) \/ v = r
             /\ OnceIn(Got(d), v) /\ (v = r => ~ Has(d, v)) => OnceIn(Got(d), v)'
  <2>1. Got(d)' = Append(Got(d), r) /\ Got(d) \in Seq(Results)
    BY GotType DEF GotMore
  <2>2. /\ v \in ElementsOf(Append(Got(d), r)) <=> v \in ElementsOf(Got(d)) \/ v = r
        /\ OnceIn(Got(d), v) /\ (v = r => v \notin ElementsOf(Got(d)))
             => OnceIn(Append(Got(d), r), v)
    BY <2>1, AppendElements
  <2> QED
    BY <2>1, <2>2 DEF Has
<1> QED
  BY <1>1, <1>2

LEMMA EndingIsNoValue ==
  ASSUME NEW r \in Endings
  PROVE  r \notin Values
BY DEF Endings, Nil, Failure, Values

LEMMA ToldHasSame ==
  ASSUME StreamTypes, WaiterInv, NEW d \in Consumers, NEW r \in Endings, GotMore(d, r)
  PROVE  HasSame
<1>1. r \in Results /\ Values \subseteq Results /\ r \notin Values
  BY AnyResult, EndingIsNoValue
<1>2. ASSUME NEW c \in Consumers, NEW v \in Values
      PROVE  /\ Has(c, v)' <=> Has(c, v)
             /\ OnceIn(Got(c), v) => OnceIn(Got(c), v)'
  <2>1. v \in Results /\ v # r
    BY <1>1
  <2>2. /\ Has(c, v)' <=> Has(c, v) \/ (c = d /\ v = r)
        /\ OnceIn(Got(c), v) /\ (c = d /\ v = r => ~ Has(c, v)) => OnceIn(Got(c), v)'
    BY <1>1, <2>1, MoreHas
  <2> QED
    BY <2>1, <2>2
<1> QED
  BY <1>2 DEF HasSame

LEMMA ValueKept ==
  ASSUME ValueInv, HasSame, UNCHANGED <<pending, yields, discarded>>
  PROVE  ValueInv'
<1>1. ASSUME NEW v \in Values PROVE Accounted(v)'
  <2>1. Accounted(v)
    BY DEF ValueInv
  <2>2. /\ \A c \in Consumers : Has(c, v)' <=> Has(c, v)
        /\ \A c \in Consumers : OnceIn(Got(c), v) => OnceIn(Got(c), v)'
    BY DEF HasSame
  <2>3. /\ OnceIn(pending, v)' <=> OnceIn(pending, v)
        /\ (v \in ElementsOf(pending))' <=> v \in ElementsOf(pending)
    OBVIOUS
  <2> QED
    BY <2>1, <2>2, <2>3 DEF Accounted
<1> QED
  BY <1>1 DEF ValueInv

(* The next value to be yielded is nowhere yet.                            *)
LEMMA NextIsFresh ==
  ASSUME StreamTypes, ValueInv, yields + 1 \in Values
  PROVE  /\ yields + 1 \notin ElementsOf(pending) /\ yields + 1 \notin discarded
         /\ \A c \in Consumers : ~ Has(c, yields + 1)
         /\ \A v \in Values : v <= yields + 1 <=> v <= yields \/ v = yields + 1
<1>1. yields \in Nat /\ ~ (yields + 1 <= yields)
  BY TypesOfSequences
<1>2. Accounted(yields + 1)
  BY DEF ValueInv
<1>3. \A v \in Values : v \in Nat
  BY DEF Values
<1> QED
  BY <1>1, <1>2, <1>3 DEF Accounted

LEMMA ValueHanded ==
  ASSUME StreamTypes, WaiterInv, ValueInv, NEW d \in Consumers,
         yields + 1 \in Values, yields' = yields + 1, GotMore(d, yields + 1),
         UNCHANGED <<pending, discarded>>
  PROVE  ValueInv'
<1> DEFINE n == yields + 1
<1>1. /\ n \notin ElementsOf(pending) /\ n \notin discarded
      /\ \A c \in Consumers : ~ Has(c, n)
      /\ \A v \in Values : v <= n <=> v <= yields \/ v = n
  BY NextIsFresh
<1>2. n \in Results /\ Values \subseteq Results /\ yields' = n
  BY AnyResult
<1>a. GotMore(d, n)
  OBVIOUS
<1> HIDE DEF n
<1>3. ASSUME NEW v \in Values PROVE Accounted(v)'
  <2>1. Accounted(v)
    BY DEF ValueInv
  <2>2. \A c \in Consumers :
          /\ Has(c, v)' <=> Has(c, v) \/ (c = d /\ v = n)
          /\ OnceIn(Got(c), v) => OnceIn(Got(c), v)'
    BY <1>1, <1>2, <1>a, MoreHas
  <2>3. /\ OnceIn(pending, v)' <=> OnceIn(pending, v)
        /\ (v \in ElementsOf(pending))' <=> v \in ElementsOf(pending)
        /\ (v \in discarded)' <=> v \in discarded
        /\ (v <= yields)' <=> v <= yields \/ v = n
    BY <1>1, <1>2
  <2>4. OnceIn(pending, v)' /\ \A c \in Consumers : OnceIn(Got(c), v)'
    BY <2>1, <2>2, <2>3 DEF Accounted
  <2>5. CASE v = n
    BY <1>1, <2>2, <2>3, <2>4, <2>5 DEF Accounted
  <2>6. CASE v # n
    BY <2>1, <2>2, <2>3, <2>4, <2>6 DEF Accounted
  <2> QED
    BY <2>5, <2>6
<1> QED
  BY <1>3 DEF ValueInv

LEMMA ValueRefused ==
  ASSUME StreamTypes, WaiterInv, ValueInv,
         yields + 1 \in Values, yields' = yields + 1, HasSame,
         discarded' = discarded \cup {yields + 1}, pending' = pending
  PROVE  ValueInv'
<1> DEFINE n == yields + 1
<1>1. /\ n \notin ElementsOf(pending) /\ n \notin discarded
      /\ \A c \in Consumers : ~ Has(c, n)
      /\ \A v \in Values : v <= n <=> v <= yields \/ v = n
  BY NextIsFresh
<1>2. yields' = n /\ discarded' = discarded \cup {n}
  OBVIOUS
<1> HIDE DEF n
<1>3. ASSUME NEW v \in Values PROVE Accounted(v)'
  <2>1. Accounted(v)
    BY DEF ValueInv
  <2>2. \A c \in Consumers :
          /\ Has(c, v)' <=> Has(c, v)
          /\ OnceIn(Got(c), v) => OnceIn(Got(c), v)'
    BY DEF HasSame
  <2>3. /\ OnceIn(pending, v)' <=> OnceIn(pending, v)
        /\ (v \in ElementsOf(pending))' <=> v \in ElementsOf(pending)
        /\ (v \in discarded)' <=> v \in discarded \/ v = n
        /\ (v <= yields)' <=> v <= yields \/ v = n
    BY <1>1, <1>2
  <2>4. OnceIn(pending, v)' /\ \A c \in Consumers : OnceIn(Got(c), v)'
    BY <2>1, <2>2, <2>3 DEF Accounted
  <2>5. CASE v = n
    BY <1>1, <2>2, <2>3, <2>4, <2>5 DEF Accounted
  <2>6. CASE v # n
    BY <2>1, <2>2, <2>3, <2>4, <2>6 DEF Accounted
  <2> QED
    BY <2>5, <2>6
<1> QED
  BY <1>3 DEF ValueInv

LEMMA ValueTaken ==
  ASSUME StreamTypes, WaiterInv, ValueInv, NEW d \in Consumers,
         pending # <<>>, pending' = Tail(pending), GotMore(d, Head(pending)),
         UNCHANGED <<yields, discarded>>
  PROVE  ValueInv'
<1> DEFINE h == Head(pending)
<1>1. /\ h \in Values /\ h \in Results /\ Values \subseteq Results
      /\ h \in ElementsOf(pending)
      /\ \A v \in Values : OnceIn(pending, v) =>
           /\ v \in ElementsOf(pending') <=> v \in ElementsOf(pending) /\ v # h
           /\ OnceIn(pending', v)
  BY TypesOfSequences, TailElements, AnyResult
<1>a. GotMore(d, h)
  OBVIOUS
<1> HIDE DEF h
<1>2. Accounted(h)
  BY <1>1 DEF ValueInv
<1>3. h \notin discarded /\ \A c \in Consumers : ~ Has(c, h)
  BY <1>1, <1>2 DEF Accounted
<1>4. ASSUME NEW v \in Values PROVE Accounted(v)'
  <2>1. Accounted(v)
    BY DEF ValueInv
  <2>2. \A c \in Consumers :
          /\ Has(c, v)' <=> Has(c, v) \/ (c = d /\ v = h)
          /\ OnceIn(Got(c), v) => OnceIn(Got(c), v)'
    BY <1>1, <1>3, <1>a, MoreHas
  <2>3. /\ OnceIn(pending, v)'
        /\ (v \in ElementsOf(pending))' <=> v \in ElementsOf(pending) /\ v # h
        /\ (v \in discarded)' <=> v \in discarded
        /\ (v <= yields)' <=> v <= yields
    BY <1>1, <2>1 DEF Accounted
  <2>4. OnceIn(pending, v)' /\ \A c \in Consumers : OnceIn(Got(c), v)'
    BY <2>1, <2>2, <2>3 DEF Accounted
  <2>5. CASE v = h
    BY <1>1, <1>3, <2>1, <2>2, <2>3, <2>4, <2>5 DEF Accounted
  <2>6. CASE v # h
    BY <2>1, <2>2, <2>3, <2>4, <2>6 DEF Accounted
  <2> QED
    BY <2>5, <2>6
<1> QED
  BY <1>4 DEF ValueInv

(* Where the new value and the old ones are after yield stored it.         *)
LEMMA StoredElements ==
  ASSUME StreamTypes, ValueInv, yields + 1 \in Values
  PROVE  LET n == yields + 1
             after == Enqueue(pending, n)
             lost == Dropped(pending, n)
         IN  \A v \in Values :
               /\ OnceIn(after, v)
               /\ v \in ElementsOf(after) <=>
                    (v \in ElementsOf(pending) \/ v = n) /\ v \notin lost
               /\ v \in lost => v \in ElementsOf(pending) \/ v = n
<1> DEFINE n == yields + 1
<1>1. n \notin ElementsOf(pending) /\ pending \in Seq(Values) /\ n \in Values
  BY NextIsFresh, TypesOfSequences
<1>2. \A v \in Values : OnceIn(pending, v)
  BY DEF ValueInv, Accounted
<1> DEFINE Stored == \A v \in Values :
             /\ OnceIn(Enqueue(pending, n), v)
             /\ v \in ElementsOf(Enqueue(pending, n)) <=>
                  (v \in ElementsOf(pending) \/ v = n) /\ v \notin Dropped(pending, n)
             /\ v \in Dropped(pending, n) => v \in ElementsOf(pending) \/ v = n
<1> HIDE DEF n
<1>3. ASSUME ~ Full(pending) PROVE Stored
  <2>1. Enqueue(pending, n) = Append(pending, n) /\ Dropped(pending, n) = {}
    BY <1>3 DEF Enqueue, Dropped
  <2>2. \A v \in Values :
          /\ v \in ElementsOf(Append(pending, n)) <=> v \in ElementsOf(pending) \/ v = n
          /\ OnceIn(Append(pending, n), v)
    BY <1>1, <1>2, AppendElements
  <2> QED
    BY <2>1, <2>2
<1>4. ASSUME Full(pending), Policy = "bufferingNewest", pending # <<>> PROVE Stored
  <2> DEFINE t == Tail(pending)
             h == Head(pending)
  <2>1. /\ t \in Seq(Values) /\ h \in ElementsOf(pending)
        /\ \A v \in Values : /\ v \in ElementsOf(t) <=> v \in ElementsOf(pending) /\ v # h
                             /\ OnceIn(t, v)
    BY <1>1, <1>2, <1>4, TailElements
  <2>2. Enqueue(pending, n) = Append(t, n) /\ Dropped(pending, n) = {h}
    BY <1>4 DEF Enqueue, Dropped
  <2> HIDE DEF t, h
  <2>3. \A v \in Values : /\ v \in ElementsOf(Append(t, n)) <=> v \in ElementsOf(t) \/ v = n
                          /\ OnceIn(Append(t, n), v)
    BY <1>1, <2>1, AppendElements
  <2>4. n # h
    BY <1>1, <2>1
  <2> QED
    BY <2>1, <2>2, <2>3, <2>4
<1>5. ASSUME Full(pending), ~ (Policy = "bufferingNewest" /\ pending # <<>>) PROVE Stored
  <2>1. Enqueue(pending, n) = pending /\ Dropped(pending, n) = {n}
    BY <1>5 DEF Enqueue, Dropped
  <2> QED
    BY <1>1, <1>2, <2>1
<1> QED
  BY <1>3, <1>4, <1>5 DEF n

LEMMA ValueStored ==
  ASSUME StreamTypes, WaiterInv, ValueInv, HasSame,
         yields + 1 \in Values, yields' = yields + 1,
         pending' = Enqueue(pending, yields + 1),
         discarded' = discarded \cup Dropped(pending, yields + 1)
  PROVE  ValueInv'
<1> DEFINE n == yields + 1
           lost == Dropped(pending, n)
<1>1. /\ n \notin ElementsOf(pending) /\ n \notin discarded
      /\ \A c \in Consumers : ~ Has(c, n)
      /\ \A v \in Values : v <= n <=> v <= yields \/ v = n
  BY NextIsFresh
<1>2. \A v \in Values :
        /\ OnceIn(pending', v)
        /\ v \in ElementsOf(pending') <=>
             (v \in ElementsOf(pending) \/ v = n) /\ v \notin lost
        /\ v \in lost => v \in ElementsOf(pending) \/ v = n
  BY StoredElements
<1>a. yields' = n /\ discarded' = discarded \cup lost
  OBVIOUS
<1> HIDE DEF n, lost
<1>3. ASSUME NEW v \in Values PROVE Accounted(v)'
  <2>1. Accounted(v)
    BY DEF ValueInv
  <2>2. \A c \in Consumers :
          /\ Has(c, v)' <=> Has(c, v)
          /\ OnceIn(Got(c), v) => OnceIn(Got(c), v)'
    BY DEF HasSame
  <2>3. /\ OnceIn(pending, v)'
        /\ (v \in ElementsOf(pending))' <=>
             (v \in ElementsOf(pending) \/ v = n) /\ v \notin lost
        /\ v \in lost => v \in ElementsOf(pending) \/ v = n
        /\ (v \in discarded)' <=> v \in discarded \/ v \in lost
        /\ (v <= yields)' <=> v <= yields \/ v = n
    BY <1>1, <1>2, <1>a
  <2>4. OnceIn(pending, v)' /\ \A c \in Consumers : OnceIn(Got(c), v)'
    BY <2>1, <2>2, <2>3 DEF Accounted
  <2>5. CASE v = n
    BY <1>1, <2>2, <2>3, <2>4, <2>5 DEF Accounted
  <2>6. CASE v # n
    BY <2>1, <2>2, <2>3, <2>4, <2>6 DEF Accounted
  <2> QED
    BY <2>5, <2>6
<1> QED
  BY <1>3 DEF ValueInv
-----------------------------------------------------------------------------
(* The steps, as a user of the stream sees them.                           *)

StaysOpen == terminal' = "open" <=> terminal = "open"

Hidden ==
  /\ UNCHANGED <<continuations, pending, yields, discarded>> /\ StaysOpen
  /\ GotSame

GivesValue(d) ==
  /\ continuations # <<>> /\ d = Head(continuations) /\ pending = <<>>
  /\ continuations' = Tail(continuations)
  /\ terminal = "open" /\ StaysOpen
  /\ yields + 1 \in Values /\ yields' = yields + 1
  /\ UNCHANGED <<pending, discarded>>
  /\ GotMore(d, yields + 1)

StoresValue ==
  /\ continuations = <<>> /\ continuations' = continuations
  /\ terminal = "open" /\ StaysOpen
  /\ yields + 1 \in Values /\ yields' = yields + 1
  /\ pending' = Enqueue(pending, yields + 1)
  /\ discarded' = discarded \cup Dropped(pending, yields + 1)
  /\ GotSame

(* A consumer that was waiting may be told of the end.                     *)
MayTell ==
  \/ UNCHANGED continuations /\ GotSame
  \/ /\ continuations # <<>> /\ pending = <<>>
     /\ continuations' = Tail(continuations)
     /\ \E r \in Endings : GotMore(Head(continuations), r)

RefusesValue ==
  /\ terminal # "open" /\ StaysOpen
  /\ yields + 1 \in Values /\ yields' = yields + 1
  /\ discarded' = discarded \cup {yields + 1} /\ pending' = pending
  /\ MayTell

EndsStream ==
  /\ terminal' # "open" /\ UNCHANGED <<pending, yields, discarded>>
  /\ MayTell

Asks(c) ==
  /\ cpc[c] = "entering" /\ pending = <<>> /\ terminal = "open" /\ StaysOpen
  /\ continuations' = Append(continuations, c)
  /\ UNCHANGED <<pending, yields, discarded>> /\ GotSame

Takes(c) ==
  /\ cpc[c] = "entering" /\ pending # <<>> /\ StaysOpen
  /\ continuations = <<>> /\ continuations' = <<>>
  /\ pending' = Tail(pending) /\ UNCHANGED <<yields, discarded>>
  /\ GotMore(c, Head(pending))

LearnsOfEnd(c, d) ==
  /\ cpc[c] = "entering" /\ pending = <<>> /\ terminal # "open" /\ StaysOpen
  /\ d = Head(Append(continuations, c))
  /\ continuations' = Tail(Append(continuations, c))
  /\ UNCHANGED <<pending, yields, discarded>>
  /\ \E r \in Endings : GotMore(d, r)

View ==
  \/ Hidden \/ StoresValue \/ RefusesValue \/ EndsStream
  \/ \E d \in Consumers : GivesValue(d)
  \/ \E c \in Consumers : Asks(c) \/ Takes(c) \/ \E d \in Consumers : LearnsOfEnd(c, d)

(* Nobody has anything for a consumer that waits in the queue or that is   *)
(* about to.                                                               *)
LEMMA NothingFor ==
  ASSUME WaiterInv, NEW d \in Consumers, Queued(d) \/ cpc[d] = "entering"
  PROVE  slot[d] = <<>> /\ \A u \in Threads : ~ WakesIn(effects[u], d)
<1>1. Waiting(d) /\ "entering" # "awaiting"
  BY DEF WaiterInv
<1> QED
  BY <1>1 DEF Waiting

LEMMA HeadWaits ==
  ASSUME StreamTypes, continuations # <<>>
  PROVE  Head(continuations) \in Consumers /\ Queued(Head(continuations))
BY TypesOfSequences, TailElements DEF Queued

(* Most steps are not seen at all.                                         *)
QuietNext ==
  \/ CommonNext
  \/ \E p \in Producers : CallFinishSection(p)
  \/ \E c \in Consumers : SecondWaiter(c)

LEMMA HiddenStep ==
  ASSUME StreamTypes, WaiterInv, CallInv, CancelInv, StreamNext, QuietNext
  PROVE  Hidden
<1>a. EffectTypes /\ EffectTypes' /\ WaiterInv' /\ onTermination \in 0 .. MaxHandlers
  BY TypesOfSequences, TypesStep, WaiterStep DEF StreamTypes
<1>b. WakesSame /\ UNCHANGED <<slot, received>> => GotSame
  BY <1>a, GotKept
<1>c. /\ WakesSame /\ UNCHANGED <<slot, received>>
      /\ UNCHANGED <<continuations, pending, terminal, yields, discarded>>
      => Hidden
  BY <1>b DEF Hidden, StaysOpen
<1> USE DEF bufferVars, consumerVars
<1>1. ASSUME NEW t \in Threads, CallHandler(t) \/ CancelStorage(t) PROVE Hidden
  BY <1>1, <1>a, <1>c, CallEffect, CancelEffect DEF CallHandler, CancelStorage
<1>2. ASSUME NEW t \in Threads, ResumeContinuation(t) PROVE Hidden
  <2>1. PICK c \in Consumers, r \in Results :
          WakesLess(t, c, r) /\ slot' = [slot EXCEPT ![c] = Append(@, r)]
    BY <1>2, <1>a, ResumeEffect
  <2>2. UNCHANGED <<continuations, pending, terminal, yields, discarded, received>>
    BY <1>2 DEF ResumeContinuation
  <2>3. GotSame
    BY <1>a, <2>1, <2>2, GotResumed
  <2> QED
    BY <2>2, <2>3 DEF Hidden, StaysOpen
<1>3. ASSUME NEW p \in Producers, SetOnTermination(p) PROVE Hidden
  BY <1>3, <1>a, <1>c, KeptStep DEF SetOnTermination, EffectsKept
<1>4. ASSUME NEW p \in Producers, CallFinishSection(p) PROVE Hidden
  BY <1>4, <1>a, <1>c, QuietStep DEF CallFinishSection
<1>5. ASSUME NEW c \in Consumers, EnterNext(c) \/ DropStream(c) PROVE Hidden
  BY <1>5, <1>a, <1>c, QuietStep DEF EnterNext, DropStream
<1>6. ASSUME NEW c \in Consumers, ReturnFromNext(c) PROVE Hidden
  <2>1. WakesSame
    BY <1>6, <1>a, KeptStep DEF EffectsKept
  <2>2. GotSame
    BY <1>6, <1>a, <2>1, GotReturned
  <2> QED
    BY <1>6, <2>2 DEF ReturnFromNext, Hidden, StaysOpen
<1>7. ASSUME NEW c \in Consumers, SecondWaiter(c) PROVE Hidden
  BY <1>7, <1>a, <1>c, KeptStep DEF SecondWaiter, EffectsKept
<1>8. ASSUME NEW k \in Cancellers, CancelTask(k) \/ UnlockRecords(k) PROVE Hidden
  BY <1>8, <1>a, <1>c, KeptStep DEF CancelTask, UnlockRecords, EffectsKept
<1>9. ASSUME NEW k \in Cancellers, LockAndCancel(k) PROVE Hidden
  BY <1>9, <1>a, <1>c, QuietStep DEF LockAndCancel
<1>10. ASSUME FreeStorage PROVE Hidden
  BY <1>10, <1>a, <1>c, KeptStep DEF FreeStorage, EffectsKept
<1> QED
  BY <1>1, <1>2, <1>3, <1>4, <1>5, <1>6, <1>7, <1>8, <1>9, <1>10
     DEF QuietNext, CommonNext, Continue, CancelStep

(* The answer that a section hands over.                                   *)
LEMMA Handing ==
  ASSUME StreamTypes, WaiterInv, CallInv, CancelInv, StreamNext,
         NEW t \in Threads, NEW d \in Consumers, NEW r \in Results,
         WakesMore(t, d, r), UNCHANGED <<slot, received>>,
         Queued(d) \/ cpc[d] = "entering"
  PROVE  GotMore(d, r)
<1>1. EffectTypes' /\ WaiterInv'
  BY TypesStep, WaiterStep DEF StreamTypes
<1>2. slot[d] = <<>> /\ \A u \in Threads : ~ WakesIn(effects[u], d)
  BY NothingFor
<1> QED
  BY <1>1, <1>2, GotOnItsWay

LEMMA ViewStep ==
  ASSUME StreamTypes, WaiterInv, CallInv, CancelInv, StreamNext
  PROVE  View
<1>b. WakesSame /\ UNCHANGED <<slot, received>> => GotSame
  BY TypesStep, WaiterStep, GotKept DEF StreamTypes
<1> USE DEF bufferVars, consumerVars
<1>1. QuietNext => View
  BY HiddenStep DEF View
<1>2. ASSUME NEW t \in Threads, FinishSection(t) PROVE View
  <2>1. /\ terminal' # "open" /\ UNCHANGED <<yields, discarded, slot, received>>
    BY <1>2 DEF FinishSection
  <2>2. FinishOnly \/ \E r \in Endings : FinishWakes(t, r)
    BY <1>2, FinishCases
  <2>3. CASE FinishOnly
    BY <1>b, <2>1, <2>3 DEF FinishOnly, View, EndsStream, MayTell
  <2>4. ASSUME NEW r \in Endings, FinishWakes(t, r) PROVE View
    <3> DEFINE d == Head(continuations)
    <3>1. /\ continuations # <<>> /\ pending = <<>> /\ pending' = pending
          /\ continuations' = Tail(continuations) /\ WakesMore(t, d, r)
      BY <2>4 DEF FinishWakes
    <3>2. d \in Consumers /\ Queued(d) /\ r \in Results
      BY <3>1, HeadWaits, AnyResult
    <3>4. GotMore(d, r)
      BY <2>1, <3>1, <3>2, Handing
    <3>5. MayTell
      BY <3>1, <3>4 DEF MayTell
    <3> QED
      BY <2>1, <3>1, <3>5 DEF View, EndsStream
  <2> QED
    BY <2>2, <2>3, <2>4
<1>3. ASSUME NEW p \in Producers, YieldSection(p) PROVE View
  <2>1. /\ UNCHANGED <<slot, received>> /\ StaysOpen
    BY <1>3 DEF YieldSection, TerminalStays, StaysOpen
  <2>2. /\ yields + 1 \in Values /\ yields' = yields + 1 /\ p \in Threads
        /\ YieldStores \/ \E r \in Results : YieldWakes(p, r)
    BY <1>3, YieldCases, ToThreads
  <2>3. CASE YieldStores
    <3>1. GotSame /\ continuations = <<>> /\ continuations' = continuations
      BY <1>b, <2>1, <2>3 DEF YieldStores
    <3>2. CASE terminal = "open"
      BY <2>1, <2>2, <2>3, <3>1, <3>2 DEF YieldStores, View, StoresValue
    <3>3. CASE terminal # "open"
      BY <2>1, <2>2, <2>3, <3>1, <3>3 DEF YieldStores, View, RefusesValue, MayTell
    <3> QED
      BY <3>2, <3>3
  <2>4. ASSUME NEW r \in Results, YieldWakes(p, r) PROVE View
    <3> DEFINE d == Head(continuations)
    <3>1. /\ continuations # <<>> /\ pending = <<>> /\ pending' = pending
          /\ continuations' = Tail(continuations) /\ WakesMore(p, d, r)
          /\ IF terminal = "open" THEN r = yields + 1 /\ discarded' = discarded
             ELSE r \in Endings /\ discarded' = discarded \cup {yields + 1}
      BY <2>4 DEF YieldWakes
    <3>2. d \in Consumers /\ Queued(d)
      BY <3>1, HeadWaits
    <3>4. GotMore(d, r)
      BY <2>1, <2>2, <3>1, <3>2, Handing
    <3>5. CASE terminal = "open"
      <4>1. GivesValue(d)
        BY <2>1, <2>2, <3>1, <3>4, <3>5 DEF GivesValue
      <4> QED
        BY <3>2, <4>1 DEF View
    <3>6. CASE terminal # "open"
      <4>1. MayTell
        BY <3>1, <3>4, <3>6 DEF MayTell
      <4> QED
        BY <2>1, <2>2, <3>1, <3>6, <4>1 DEF View, RefusesValue
    <3> QED
      BY <3>5, <3>6
  <2> QED
    BY <2>2, <2>3, <2>4
<1>4. ASSUME NEW c \in Consumers, NextSection(c) PROVE View
  <2>1. /\ UNCHANGED <<yields, discarded, slot, received>> /\ cpc[c] = "entering"
        /\ StaysOpen /\ c \in Threads
    BY <1>4, ToThreads DEF NextSection, TerminalStays, StaysOpen
  <2>2. NextWaits(c) \/ \E d \in Consumers, r \in Results : NextServes(c, d, r)
    BY <1>4, NextCases
  <2>3. CASE NextWaits(c)
    <3>1. Asks(c)
      BY <1>b, <2>1, <2>3 DEF NextWaits, Asks
    <3> QED
      BY <3>1 DEF View
  <2>4. ASSUME NEW d \in Consumers, NEW r \in Results, NextServes(c, d, r) PROVE View
    <3>1. d = c \/ Queued(d)
      <4>1. \A x \in Consumers : OnceIn(continuations, x)
        BY DEF WaiterInv, Waiting
      <4>2. ~ Queued(c)
        BY <2>1 DEF WaiterInv, Waiting
      <4> QED
        BY <2>4, <4>1, <4>2, TypesOfSequences, AppendThenTake DEF NextServes, Queued
    <3>3. WakesMore(c, d, r)
      BY <2>4 DEF NextServes
    <3>4. GotMore(d, r)
      BY <2>1, <3>1, <3>3, Handing
    <3>5. Takes(c) \/ LearnsOfEnd(c, d)
      <4>1. CASE pending # <<>>
        BY <2>1, <2>4, <3>4, <4>1 DEF NextServes, Takes
      <4>2. CASE pending = <<>>
        BY <2>1, <2>4, <3>4, <4>2 DEF NextServes, LearnsOfEnd
      <4> QED
        BY <4>1, <4>2
    <3> QED
      BY <3>5 DEF View
  <2> QED
    BY <2>2, <2>3, <2>4
<1> QED
  BY <1>1, <1>2, <1>3, <1>4 DEF StreamNext, QuietNext

LEMMA ValueStep ==
  ASSUME StreamTypes, WaiterInv, ValueInv, View
  PROVE  ValueInv'
<1>1. MayTell => HasSame
  BY HeadWaits, SameHasSame, ToldHasSame DEF MayTell
<1>2. CASE Hidden
  BY <1>2, SameHasSame, ValueKept DEF Hidden
<1>3. CASE StoresValue
  BY <1>3, SameHasSame, ValueStored DEF StoresValue
<1>4. CASE RefusesValue
  BY <1>1, <1>4, ValueRefused DEF RefusesValue
<1>5. CASE EndsStream
  BY <1>1, <1>5, ValueKept DEF EndsStream
<1>6. ASSUME NEW d \in Consumers, GivesValue(d) PROVE ValueInv'
  BY <1>6, ValueHanded DEF GivesValue
<1>7. ASSUME NEW c \in Consumers, Asks(c) PROVE ValueInv'
  BY <1>7, SameHasSame, ValueKept DEF Asks
<1>8. ASSUME NEW c \in Consumers, Takes(c) PROVE ValueInv'
  BY <1>8, ValueTaken DEF Takes
<1>9. ASSUME NEW c \in Consumers, NEW d \in Consumers, LearnsOfEnd(c, d) PROVE ValueInv'
  BY <1>9, ToldHasSame, ValueKept DEF LearnsOfEnd
<1> QED
  BY <1>2, <1>3, <1>4, <1>5, <1>6, <1>7, <1>8, <1>9 DEF View

-----------------------------------------------------------------------------
(* The invariant of both kinds of stream.                                  *)

LEMMA StreamInit == Init => StreamInv
<1> SUFFICES ASSUME Init PROVE StreamInv
  OBVIOUS
<1>1. StreamTypes
  <2>1. <<>> \in EffectLists
    BY RestFacts DEF Rests
  <2>2. <<>> \in Seq(Consumers) /\ <<>> \in Seq(Values) /\ <<>> \in Seq(Results)
    BY EmptySeq
  <2>3. BufferTypes /\ HandlerTypes
    BY <2>2, StreamBoundsAssumption DEF Init, BufferTypes, HandlerTypes, NoHandler
  <2>4. EffectTypes /\ ConsumerTypes /\ CancelTypes
    BY <2>1, <2>2 DEF Init, EffectTypes, ConsumerTypes, CancelTypes
  <2> QED
    BY <2>3, <2>4 DEF StreamTypes, Init
<1>2. \A t \in Threads : effects[t] = <<>>
  BY DEF Init
<1>3. WaiterInv
  <2>1. ASSUME NEW c \in Consumers PROVE Waiting(c)
    <3>1. /\ OnceIn(continuations, c) /\ ~ Queued(c)
          /\ slot[c] = <<>> /\ cpc[c] = "idle" /\ Len(<<>>) = 0
      BY EmptyHasNothing DEF Init, Queued
    <3> QED
      BY <1>2, <3>1, EmptyList DEF Waiting
  <2> QED
    BY <2>1 DEF WaiterInv
<1>4. CancelInv
  BY <1>2, ToThreads DEF CancelInv
<1>5. HandlerInv
  <2>1. ASSUME NEW h \in TerminationHandlers PROVE Handled(h)
    <3>1. calls[h] = 0 /\ h \in Nat \ {0} /\ installed = 0
      BY <2>1 DEF Init, TerminationHandlers
    <3> QED
      BY <1>2, <3>1, EmptyList DEF Handled
  <2> QED
    BY <2>1 DEF HandlerInv
<1>6. LifeInv
  BY DEF Init, LifeInv
<1>7. CallInv
  BY StreamBoundsAssumption DEF Init, CallInv, Unstarved, Answered
<1>8. ValueInv
  <2>1. ASSUME NEW c \in Consumers PROVE Got(c) = <<>>
    <3>1. Assigned(c) = <<>>
      BY <1>1, <1>2, <1>3, EmptyList, AssignedIs DEF Init, WaiterInv, StreamTypes
    <3> QED
      BY <3>1 DEF Got, Init
  <2>2. ASSUME NEW v \in Values PROVE Accounted(v)
    <3>1. /\ \A c \in Consumers : OnceIn(Got(c), v) /\ ~ Has(c, v)
          /\ OnceIn(pending, v) /\ v \notin ElementsOf(pending) /\ v \notin discarded
      BY <2>1, EmptyHasNothing DEF Has, Init
    <3>2. ~ (v <= yields)
      BY DEF Init, Values
    <3> QED
      BY <3>1, <3>2 DEF Accounted
  <2> QED
    BY <2>2 DEF ValueInv
<1> QED
  BY <1>1, <1>3, <1>4, <1>5, <1>6, <1>7, <1>8 DEF StreamInv

LEMMA StreamStep ==
  ASSUME StreamInv, StreamNext
  PROVE  StreamInv'
<1>1. /\ StreamTypes /\ WaiterInv /\ CancelInv /\ HandlerInv /\ LifeInv /\ CallInv
      /\ ValueInv
  BY DEF StreamInv
<1>2. View
  BY <1>1, ViewStep
<1> QED
  BY <1>1, <1>2, TypesStep, WaiterStep, CancelInvStep, HandlerStep, LifeInvStep,
     CallInvStep, ValueStep DEF StreamInv

LEMMA InSlots ==
  ASSUME NEW c
  PROVE  UNCHANGED vars => Got(c)' = Got(c)
BY DEF vars, bufferVars, consumerVars, Got, Assigned, InFlight, Threads

LEMMA StreamStutter ==
  ASSUME StreamInv, UNCHANGED vars
  PROVE  StreamInv'
<1>1. /\ StreamTypes /\ WaiterInv /\ CancelInv /\ HandlerInv /\ LifeInv /\ CallInv
      /\ ValueInv
  BY DEF StreamInv
<1> USE DEF vars, bufferVars, handlerVars, consumerVars, cancelVars
<1>2. StreamTypes'
  BY <1>1 DEF StreamTypes, BufferTypes, HandlerTypes, EffectTypes, ConsumerTypes,
              CancelTypes
<1>3. WaiterInv'
  BY <1>1, NothingDone, WaitersKept DEF AwaitingSame
<1>4. HandlerInv'
  BY <1>1, NothingDone, HandlersKept
<1>5. CancelInv' /\ LifeInv' /\ CallInv'
  BY <1>1 DEF CancelInv, LifeInv, CallInv, Unstarved, Answered
<1>6. ValueInv'
  <2>1. GotSame
    BY InSlots DEF GotSame
  <2> QED
    BY <1>1, <2>1, SameHasSame, ValueKept
<1> QED
  BY <1>2, <1>3, <1>4, <1>5, <1>6 DEF StreamInv
-----------------------------------------------------------------------------
(* The throwing stream: at most one consumer waits, and it is told that    *)
(* the stream ended normally only if it did.                               *)

TellsTruth ==
  \/ GotSame
  \/ \E d \in Consumers, r \in Results :
       GotMore(d, r) /\ (r = Nil => terminal' = "finished")

LEMMA NilIsNoValue ==
  /\ Nil \in Results /\ Nil \notin Values /\ Failure # Nil
  /\ Endings \subseteq Results /\ Values \subseteq Results
BY AnyResult, EndingIsNoValue DEF Endings, Nil, Failure

LEMMA YieldTellsTruth ==
  ASSUME StreamInv, StreamNext, Len(continuations) <= 1,
         NEW p \in Producers, Throwing!Yield(p)
  PROVE  TellsTruth
<1>1. /\ StreamTypes /\ WaiterInv /\ CallInv /\ CancelInv /\ EffectTypes
      /\ continuations \in Seq(Consumers) /\ p \in Threads
  BY TypesOfSequences, ToThreads DEF StreamInv
<1>2. YieldSection(p)
  BY <1>1, ThrowingYield
<1>3. UNCHANGED <<slot, received>>
  BY <1>2 DEF YieldSection, consumerVars
<1>4. CASE YieldStores
  BY <1>1, <1>3, <1>4, TypesStep, WaiterStep, GotKept DEF YieldStores, TellsTruth, StreamTypes
<1>5. ASSUME NEW r \in Results, YieldWakes(p, r) PROVE TellsTruth
  <2> DEFINE d == Head(continuations)
  <2>1. /\ continuations # <<>> /\ pending = <<>> /\ WakesMore(p, d, r)
        /\ (terminal = "open" => r = yields + 1)
    BY <1>5 DEF YieldWakes
  <2>2. d \in Consumers /\ Queued(d)
    BY <1>1, <2>1, HeadWaits
  <2>3. GotMore(d, r)
    BY <1>1, <1>3, <2>1, <2>2, Handing
  <2>4. CASE terminal = "open"
    <3>1. r \in Values
      BY <1>1, <1>2, <2>1, <2>4, YieldCases
    <3> QED
      BY <2>2, <2>3, <3>1, NilIsNoValue DEF TellsTruth
  <2>5. CASE terminal # "open"
    <3>1. terminal' = "finished"
      BY <2>1, <2>5 DEF Throwing!Yield
    <3> QED
      BY <2>2, <2>3, <3>1 DEF TellsTruth
  <2> QED
    BY <2>4, <2>5
<1> QED
  BY <1>1, <1>2, <1>4, <1>5, YieldCases

LEMMA FinishTellsTruth ==
  ASSUME StreamInv, StreamNext, Len(continuations) <= 1,
         NEW t \in Threads, Throwing!Finish(t)
  PROVE  TellsTruth
<1>1. /\ StreamTypes /\ WaiterInv /\ CallInv /\ CancelInv /\ EffectTypes
      /\ continuations \in Seq(Consumers) /\ onTermination \in 0 .. MaxHandlers
  BY TypesOfSequences DEF StreamInv
<1>2. FinishSection(t)
  BY <1>1, ThrowingFinish
<1>3. /\ UNCHANGED <<slot, received>>
      /\ terminal' \in Ended
  BY <1>1, <1>2 DEF FinishSection, consumerVars, StreamTypes, BufferTypes
<1>4. CASE FinishOnly
  BY <1>1, <1>3, <1>4, TypesStep, WaiterStep, GotKept DEF FinishOnly, TellsTruth, StreamTypes
<1>5. ASSUME NEW r \in Endings, FinishWakes(t, r) PROVE TellsTruth
  <2> DEFINE d == Head(continuations)
             e == Throwing!Ending'
  <2>1. continuations # <<>> /\ pending = <<>> /\ WakesMore(t, d, r)
    BY <1>5 DEF FinishWakes
  <2>2. d \in Consumers /\ Queued(d) /\ r \in Results
    BY <1>1, <2>1, HeadWaits, NilIsNoValue
  <2>3. GotMore(d, r)
    BY <1>1, <1>3, <2>1, <2>2, Handing
  <2>4. e \in Results /\ (e = Nil => terminal' # "failed")
    BY ThrowingHelpers, NilIsNoValue DEF Throwing!Ending, Endings
  <2>5. effects' = [effects EXCEPT ![t] =
          (CallIfSet(onTermination) \o << <<"resume", d, e>> >>) \o Tail(effects[t])]
    BY <2>1, ThrowingHelpers DEF Throwing!Finish, Throwing!Then
  <2> HIDE DEF d, e
  <2>6. PICK x \in Endings : effects[t] = << <<"finish", x>> >>
    BY <1>1, <1>2, DoingCases DEF EffectTypes, FinishSection
  <2>7. /\ \A g : ~ CallsIn(effects[t], g)
        /\ \A c : ~ WakesIn(effects[t], c)
        /\ Tail(effects[t]) = <<>>
    BY <2>6, FinishItem, OneItem
  <2>8. \A y : (CallIfSet(onTermination) \o << y >>) \o <<>>
                 = CallIfSet(onTermination) \o << y >>
    <3>1. \A i, j : << i >> \o <<>> = << i >> /\ << i, j >> \o <<>> = << i, j >>
      OBVIOUS
    <3> QED
      BY <3>1 DEF CallIfSet
  <2>9. effects' = [effects EXCEPT ![t] =
          CallIfSet(onTermination) \o << <<"resume", d, e>> >>]
    BY <2>5, <2>7, <2>8
  <2>10. WakesMore(t, d, e)
    BY <1>1, <2>2, <2>4, <2>7, <2>9, HandOver
  <2>11. r = e
    BY <2>1, <2>10 DEF WakesMore
  <2> QED
    BY <1>3, <2>2, <2>3, <2>4, <2>11 DEF TellsTruth, Ended
<1> QED
  BY <1>1, <1>2, <1>4, <1>5, FinishCases

LEMMA NextTellsTruth ==
  ASSUME StreamInv, StreamNext, Len(continuations) <= 1,
         NEW c \in Consumers, Throwing!NextContinuation(c), continuations = <<>>
  PROVE  TellsTruth
<1>1. /\ StreamTypes /\ WaiterInv /\ CallInv /\ CancelInv /\ EffectTypes
      /\ continuations \in Seq(Consumers) /\ pending \in Seq(Values)
  BY TypesOfSequences DEF StreamInv
<1>2. NextSection(c)
  <2>1. cpc[c] = "entering" /\ cpc' = [cpc EXCEPT ![c] = "awaiting"]
        /\ cpc \in [Consumers -> {"idle", "entering", "awaiting", "fatal"}]
    BY <1>1 DEF Throwing!NextContinuation, StreamTypes, ConsumerTypes
  <2>2. cpc'[c] = "awaiting"
    BY <2>1
  <2>3. ~ SecondWaiter(c)
    BY <2>1, <2>2 DEF SecondWaiter
  <2> QED
    BY <1>1, <2>3, ThrowingNext
<1>3. UNCHANGED <<slot, received>> /\ cpc[c] = "entering" /\ c \in Threads
  BY <1>2, ToThreads DEF NextSection
<1>4. CASE NextWaits(c)
  BY <1>1, <1>3, <1>4, TypesStep, WaiterStep, GotKept DEF NextWaits, TellsTruth, StreamTypes
<1>5. ASSUME NEW d \in Consumers, NEW r \in Results, NextServes(c, d, r) PROVE TellsTruth
  <2>1. WakesMore(c, d, r) /\ d = c
    BY <1>5, AtMostOne, <1>1 DEF NextServes
  <2>2. GotMore(d, r)
    BY <1>1, <1>3, <2>1, Handing
  <2>3. CASE pending # <<>>
    <3>1. r \in Values
      BY <1>1, <1>5, <2>3, HeadTailProperties DEF NextServes
    <3> QED
      BY <2>2, <3>1, NilIsNoValue DEF TellsTruth
  <2>4. CASE pending = <<>>
    <3>1. terminal' = "finished"
      BY <1>5, <2>4 DEF NextServes, Throwing!NextContinuation
    <3> QED
      BY <2>2, <3>1 DEF TellsTruth
  <2> QED
    BY <2>3, <2>4
<1> QED
  BY <1>1, <1>2, <1>4, <1>5, NextCases

(* What each step of a throwing stream does to its queue and its end.      *)
LEMMA ThrowingQueue ==
  ASSUME StreamInv, Throwing!Next, Len(continuations) <= 1
  PROVE  /\ TellsTruth /\ Len(continuations') <= 1
         /\ terminal' \in {"open", "failed"} => terminal \in {"open", "failed"}
<1>1. /\ StreamTypes /\ WaiterInv /\ CallInv /\ CancelInv
      /\ continuations \in Seq(Consumers)
  BY TypesOfSequences DEF StreamInv
<1>2. StreamNext
  BY <1>1, ThrowingStep
<1>3. Len(<<>>) <= 1 /\ \A x : Len(<< x >>) <= 1
  OBVIOUS
<1>4. ASSUME QuietNext, UNCHANGED <<continuations, terminal>>
      PROVE  TellsTruth /\ Len(continuations') <= 1
             /\ (terminal' \in {"open", "failed"} => terminal \in {"open", "failed"})
  BY <1>1, <1>2, <1>4, HiddenStep DEF Hidden, TellsTruth
<1>5. CASE Throwing!CommonNext
  <2>1. CommonNext
    BY <1>5, ThrowingCommon
  <2>2. UNCHANGED <<continuations, terminal>>
    BY <2>1
       DEF CommonNext, Continue, CallHandler, ResumeContinuation, CancelStorage,
           SetOnTermination, EnterNext, ReturnFromNext, DropStream, CancelStep, CancelTask,
           LockAndCancel, UnlockRecords, FreeStorage, bufferVars
  <2> QED
    BY <1>4, <2>1, <2>2 DEF QuietNext
<1>6. ASSUME NEW p \in Producers, NEW e \in {Nil, Failure}, Throwing!CallFinish(p, e)
      PROVE  TellsTruth /\ Len(continuations') <= 1
             /\ (terminal' \in {"open", "failed"} => terminal \in {"open", "failed"})
  <2>1. CallFinishSection(p)
    BY <1>6, ThrowingCall, ThrowingHelpers
  <2>2. UNCHANGED <<continuations, terminal>>
    BY <2>1 DEF CallFinishSection, bufferVars
  <2> QED
    BY <1>4, <2>1, <2>2 DEF QuietNext
<1>7. ASSUME NEW p \in Producers, Throwing!Yield(p)
      PROVE  TellsTruth /\ Len(continuations') <= 1
             /\ (terminal' \in {"open", "failed"} => terminal \in {"open", "failed"})
  BY <1>2, <1>3, <1>7, YieldTellsTruth DEF Throwing!Yield
<1>8. ASSUME NEW t \in Threads, Throwing!Finish(t)
      PROVE  TellsTruth /\ Len(continuations') <= 1
             /\ (terminal' \in {"open", "failed"} => terminal \in {"open", "failed"})
  BY <1>2, <1>3, <1>8, FinishTellsTruth DEF Throwing!Finish, Throwing!EndsAs
<1>9. ASSUME NEW c \in Consumers, Throwing!NextContinuation(c)
      PROVE  TellsTruth /\ Len(continuations') <= 1
             /\ (terminal' \in {"open", "failed"} => terminal \in {"open", "failed"})
  <2>1. CASE continuations # <<>>
    <3>1. SecondWaiter(c)
      BY <1>9, <2>1 DEF Throwing!NextContinuation, SecondWaiter, bufferVars,
                        Throwing!handlerVars, handlerVars, Throwing!cancelVars, cancelVars
    <3>2. UNCHANGED <<continuations, terminal>>
      BY <3>1 DEF SecondWaiter, bufferVars
    <3> QED
      BY <1>4, <3>1, <3>2 DEF QuietNext
  <2>2. CASE continuations = <<>>
    BY <1>2, <1>3, <1>9, <2>2, NextTellsTruth DEF Throwing!NextContinuation
  <2> QED
    BY <2>1, <2>2
<1> QED
  BY <1>5, <1>6, <1>7, <1>8, <1>9, ThrowingHelpers DEF Throwing!Next

LEMMA ThrowingInvStep ==
  ASSUME ThrowingInv, Throwing!Next
  PROVE  ThrowingInv'
<1>1. /\ StreamInv /\ Len(continuations) <= 1 /\ NilUntold
      /\ StreamTypes /\ WaiterInv /\ continuations \in Seq(Consumers)
  BY TypesOfSequences DEF ThrowingInv, StreamInv
<1>2. StreamInv'
  BY <1>1, ThrowingStep, StreamStep
<1>3. /\ TellsTruth /\ Len(continuations') <= 1
      /\ terminal' \in {"open", "failed"} => terminal \in {"open", "failed"}
  BY <1>1, ThrowingQueue
<1>4. ASSUME terminal' \in {"open", "failed"}, NEW c \in Consumers
      PROVE  ~ Has(c, Nil)'
  <2>1. ~ Has(c, Nil)
    BY <1>1, <1>3, <1>4 DEF NilUntold
  <2>2. CASE GotSame
    BY <2>1, <2>2 DEF GotSame, Has
  <2>3. ASSUME NEW d \in Consumers, NEW r \in Results, GotMore(d, r),
               r = Nil => terminal' = "finished"
        PROVE  ~ Has(c, Nil)'
    <3>1. Has(c, Nil)' <=> Has(c, Nil) \/ (c = d /\ Nil = r)
      BY <1>1, <2>3, MoreHas, NilIsNoValue
    <3>2. Nil # r
      BY <1>4, <2>3
    <3> QED
      BY <2>1, <3>1, <3>2
  <2> QED
    BY <1>3, <2>2, <2>3 DEF TellsTruth
<1> QED
  BY <1>2, <1>3, <1>4 DEF ThrowingInv, NilUntold
-----------------------------------------------------------------------------
(* What the invariant says, in the words of the properties.                *)

LEMMA SoleElement ==
  ASSUME NEW S, NEW p, p \in S, \A q \in S : q = p
  PROVE  \E x \in S : S = {x}
<1>1. S = {p}
  OBVIOUS
<1> QED
  BY <1>1

(* The waiter is in one place.                                             *)
LEMMA WaiterPlace ==
  ASSUME StreamTypes, WaiterInv
  PROVE  ResumedExactlyOnce
<1>1. ASSUME NEW c \in Consumers
      PROVE  LET places == {<<"queue", i>> : i \in {j \in 1 .. Len(continuations) :
                                                      continuations[j] = c}}
                           \cup {<<"slot", i>> : i \in 1 .. Len(slot[c])}
                           \cup {<<"flight", e>> : e \in InFlight(c)}
             IN  IF cpc[c] = "awaiting" THEN \E p \in places : places = {p}
                 ELSE places = {}
  <2> DEFINE queue  == {j \in 1 .. Len(continuations) : continuations[j] = c}
             flight == InFlight(c)
             places == {<<"queue", i>> : i \in queue}
                       \cup {<<"slot", i>> : i \in 1 .. Len(slot[c])}
                       \cup {<<"flight", e>> : e \in flight}
  <2>1. Waiting(c) /\ EffectTypes /\ slot[c] \in Seq(Results)
    BY DEF WaiterInv, StreamTypes, ConsumerTypes
  <2>2. Len(slot[c]) \in Nat /\ (Len(slot[c]) = 0 <=> slot[c] = <<>>) /\ Len(slot[c]) <= 1
    BY <2>1, EmptySeq, LenProperties DEF Waiting
  <2>3. (Queued(c) <=> \E j : j \in queue) /\ \A i, j \in queue : i = j
    BY <2>1 DEF Waiting, Queued, ElementsOf, OnceIn
  <2>4. \A e : e \in flight <=>
          \E t \in Threads : WakesIn(effects[t], c) /\ e = <<t, Len(effects[t])>>
    BY <2>1, FlightOf
  <2>5. \A e, f \in flight : e = f
    BY <2>1, <2>4 DEF Waiting
  <2>6. Queued(c) => slot[c] = <<>> /\ flight = {}
    BY <2>1, <2>4 DEF Waiting
  <2>7. slot[c] # <<>> => queue = {} /\ flight = {}
    BY <2>1, <2>3, <2>4 DEF Waiting
  <2>8. flight # {} => queue = {} /\ slot[c] = <<>>
    BY <2>6, <2>7, <2>3
  <2>9. cpc[c] = "awaiting" <=> queue # {} \/ slot[c] # <<>> \/ flight # {}
    BY <2>1, <2>3, <2>4 DEF Waiting
  <2>10. slot[c] = <<>> => 1 .. Len(slot[c]) = {}
    BY <2>2
  <2>11. slot[c] # <<>> => 1 .. Len(slot[c]) = {1}
    BY <2>2
  <2> HIDE DEF queue, flight
  <2>12. CASE queue # {}
    <3>1. PICK j \in queue : TRUE
      BY <2>12
    <3>2. places = {<<"queue", j>>}
      BY <2>3, <2>6, <2>10, <3>1
    <3> QED
      BY <2>9, <2>12, <3>2 DEF queue, flight
  <2>13. CASE slot[c] # <<>>
    <3>1. places = {<<"slot", 1>>}
      BY <2>7, <2>11, <2>13
    <3> QED
      BY <2>9, <2>13, <3>1 DEF queue, flight
  <2>14. CASE flight # {}
    <3>1. PICK e \in flight : TRUE
      BY <2>14
    <3>2. places = {<<"flight", e>>}
      BY <2>5, <2>8, <2>10, <3>1
    <3> QED
      BY <2>9, <2>14, <3>2 DEF queue, flight
  <2>15. CASE queue = {} /\ slot[c] = <<>> /\ flight = {}
    <3>1. places = {}
      BY <2>10, <2>15
    <3> QED
      BY <2>9, <2>15, <3>1 DEF queue, flight
  <2> QED
    BY <2>12, <2>13, <2>14, <2>15
<1> QED
  BY <1>1 DEF ResumedExactlyOnce

(* A value is in one place.                                                *)
LEMMA ValuePlace ==
  ASSUME StreamTypes, WaiterInv, ValueInv
  PROVE  EveryValueAccountedFor
<1>1. ASSUME NEW v \in 1 .. yields
      PROVE  LET places == {<<"buffer", i>> : i \in {j \in 1 .. Len(pending) :
                                                       pending[j] = v}}
                           \cup (UNION {{<<"consumer", c, i>> :
                                   i \in {j \in 1 .. Len(Got(c)) : Got(c)[j] = v}} :
                                   c \in Consumers})
                           \cup (IF v \in discarded THEN {<<"reported">>} ELSE {})
             IN  \E p \in places : places = {p}
  <2> DEFINE buffer == {j \in 1 .. Len(pending) : pending[j] = v}
             with(c) == {j \in 1 .. Len(Got(c)) : Got(c)[j] = v}
             places == {<<"buffer", i>> : i \in buffer}
                       \cup (UNION {{<<"consumer", c, i>> : i \in with(c)} :
                                      c \in Consumers})
                       \cup (IF v \in discarded THEN {<<"reported">>} ELSE {})
  <2>1. v \in Values /\ v <= yields
    BY TypesOfSequences DEF StreamTypes, BufferTypes, Values
  <2>2. Accounted(v)
    BY <2>1 DEF ValueInv
  <2>3. /\ v \in ElementsOf(pending) <=> buffer # {}
        /\ \A i, j \in buffer : i = j
    BY <2>2 DEF Accounted, ElementsOf, OnceIn
  <2>4. ASSUME NEW c \in Consumers
        PROVE  /\ Has(c, v) <=> with(c) # {}
               /\ \A i, j \in with(c) : i = j
    BY <2>2 DEF Accounted, Has, ElementsOf, OnceIn
  <2>5. /\ buffer # {} => v \notin discarded /\ \A c \in Consumers : with(c) = {}
        /\ v \in discarded => \A c \in Consumers : with(c) = {}
        /\ \A c, d \in Consumers : with(c) # {} /\ with(d) # {} => c = d
        /\ buffer # {} \/ v \in discarded \/ \E c \in Consumers : with(c) # {}
    BY <2>1, <2>2, <2>3, <2>4 DEF Accounted
  <2> HIDE DEF buffer, with
  <2>6. CASE buffer # {}
    <3>1. PICK j \in buffer : TRUE
      BY <2>6
    <3>2. places = {<<"buffer", j>>}
      BY <2>3, <2>5, <3>1
    <3> QED
      BY <3>2 DEF buffer, with
  <2>7. CASE v \in discarded
    <3>1. buffer = {} /\ \A c \in Consumers : with(c) = {}
      BY <2>5, <2>7
    <3>2. places = {<<"reported">>}
      BY <2>7, <3>1
    <3> QED
      BY <3>2 DEF buffer, with
  <2>8. ASSUME NEW c \in Consumers, with(c) # {}
        PROVE  \E p \in places : places = {p}
    <3>1. PICK j \in with(c) : TRUE
      BY <2>8
    <3>2. buffer = {} /\ v \notin discarded /\ \A d \in Consumers : with(d) # {} => d = c
      BY <2>5, <2>8
    <3>3. \A i \in with(c) : i = j
      BY <2>4, <3>1
    <3>4. places = {<<"consumer", c, j>>}
      BY <3>1, <3>2, <3>3
    <3> QED
      BY <3>4
  <2> QED
    BY <2>5, <2>6, <2>7, <2>8 DEF buffer, with
<1> QED
  BY <1>1 DEF EveryValueAccountedFor

(* A handler has run at most once, and at the end exactly once.            *)
LEMMA HandlerPlace ==
  ASSUME StreamTypes, HandlerInv, LifeInv
  PROVE  HandlerRunsOnce
<1>1. ASSUME NEW h \in TerminationHandlers PROVE calls[h] <= 1
  BY DEF HandlerInv, Handled
<1>2. ASSUME handle = "freed", NEW h \in 1 .. installed
      PROVE  calls[h] = 1 \/ h \in replaced
  <2>1. h \in TerminationHandlers /\ h <= installed /\ h # NoHandler
    BY StreamBoundsAssumption
       DEF StreamTypes, HandlerTypes, TerminationHandlers, NoHandler
  <2>2. h # onTermination /\ \A t \in Threads : ~ CallsIn(effects[t], h)
    BY <1>2, <2>1, EmptyList DEF LifeInv
  <2> QED
    BY <2>1, <2>2 DEF HandlerInv, Handled
<1> QED
  BY <1>1, <1>2 DEF HandlerRunsOnce

LEMMA StreamProperties ==
  ASSUME StreamInv
  PROVE  ResumedExactlyOnce /\ EveryValueAccountedFor /\ HandlerRunsOnce
BY WaiterPlace, ValuePlace, HandlerPlace DEF StreamInv
-----------------------------------------------------------------------------
(* The theorems.                                                           *)

LEMMA Unchanged ==
  /\ UNCHANGED Plain!vars => UNCHANGED vars
  /\ UNCHANGED Throwing!vars => UNCHANGED vars
BY DEF Plain!vars, Throwing!vars, vars, Plain!bufferVars, Throwing!bufferVars, bufferVars,
       Plain!handlerVars, Throwing!handlerVars, handlerVars,
       Plain!consumerVars, Throwing!consumerVars, consumerVars,
       Plain!cancelVars, Throwing!cancelVars, cancelVars

(* In every state of an AsyncStream the invariant of streams holds: the    *)
(* places of consumers, values and handlers.                               *)
THEOREM PlainStreamInvariant == Plain!Spec => []StreamInv
<1>1. Plain!Init => StreamInv
  BY PlainRest, StreamInit
<1>2. StreamInv /\ [Plain!Next]_(Plain!vars) => StreamInv'
  BY PlainStep, StreamStep, StreamStutter, Unchanged
<1> QED
  BY <1>1, <1>2, PTL DEF Plain!Spec

(* The same of an AsyncThrowingStream, where moreover one consumer waits   *)
(* at most, and nobody is told of a normal end while the failure is stored.*)
THEOREM ThrowingStreamInvariant == Throwing!Spec => []ThrowingInv
<1>1. Throwing!Init => ThrowingInv
  <2>1. ASSUME Init PROVE ThrowingInv
    <3>1. StreamInv /\ StreamTypes /\ WaiterInv /\ EffectTypes
      BY <2>1, StreamInit DEF StreamInv, StreamTypes
    <3>2. ASSUME NEW c \in Consumers PROVE ~ Has(c, Nil)
      <4>1. Assigned(c) = <<>>
        BY <2>1, <3>1, EmptyList, AssignedIs DEF Init, WaiterInv
      <4>2. Got(c) = <<>>
        BY <2>1, <4>1 DEF Got, Init
      <4> QED
        BY <4>2, EmptyHasNothing DEF Has
    <3>3. Len(continuations) <= 1
      BY <2>1 DEF Init
    <3> QED
      BY <3>1, <3>2, <3>3 DEF ThrowingInv, NilUntold
  <2> QED
    BY <2>1, ThrowingRest
<1>2. ThrowingInv /\ UNCHANGED vars => ThrowingInv'
  <2>1. ASSUME ThrowingInv, UNCHANGED vars PROVE ThrowingInv'
    <3>1. StreamInv'
      BY <2>1, StreamStutter DEF ThrowingInv
    <3>2. \A c \in Consumers : Got(c)' = Got(c)
      BY <2>1, InSlots
    <3>3. continuations' = continuations /\ terminal' = terminal
      BY <2>1 DEF vars, bufferVars
    <3> QED
      BY <2>1, <3>1, <3>2, <3>3 DEF ThrowingInv, NilUntold, Has
  <2> QED
    BY <2>1
<1>3. ThrowingInv /\ [Throwing!Next]_(Throwing!vars) => ThrowingInv'
  BY <1>2, ThrowingInvStep, Unchanged
<1> QED
  BY <1>1, <1>3, PTL DEF Throwing!Spec

(* The continuation of each call of next() is resumed exactly once: a      *)
(* suspended consumer is in exactly one of the queue, the list of one      *)
(* thread that is about to resume it, and its own slot.                    *)
THEOREM ContinuationResumedOnce == Plain!Spec => []ResumedExactlyOnce
BY PlainStreamInvariant, StreamProperties, PTL

(* So is the continuation of each call of next() of a throwing stream.     *)
THEOREM ThrowingContinuationResumedOnce == Throwing!Spec => []ResumedExactlyOnce
<1>1. ThrowingInv => ResumedExactlyOnce
  BY StreamProperties DEF ThrowingInv
<1> QED
  BY <1>1, ThrowingStreamInvariant, PTL

(* A yielded value is in exactly one place, whatever the buffering policy: *)
(* buffered, given to one consumer, or reported to the producer.           *)
THEOREM NoValueLost == Plain!Spec => []EveryValueAccountedFor
BY PlainStreamInvariant, StreamProperties, PTL

(* Nor does a throwing stream lose a value or give it twice.               *)
THEOREM ThrowingLosesNoValue == Throwing!Spec => []EveryValueAccountedFor
<1>1. ThrowingInv => EveryValueAccountedFor
  BY StreamProperties DEF ThrowingInv
<1> QED
  BY <1>1, ThrowingStreamInvariant, PTL

(* A termination handler runs at most once, and each one that was not      *)
(* replaced has run when the storage is gone.                              *)
THEOREM ThrowingHandlerOnce == Throwing!Spec => []HandlerRunsOnce
<1>1. ThrowingInv => HandlerRunsOnce
  BY StreamProperties DEF ThrowingInv
<1> QED
  BY <1>1, ThrowingStreamInvariant, PTL

(* The same of the handlers of an AsyncStream.                             *)
THEOREM PlainHandlerOnce == Plain!Spec => []HandlerRunsOnce
BY PlainStreamInvariant, StreamProperties, PTL

(* The first ending of a throwing stream decides: while the failure is     *)
(* stored, no consumer has been told that the stream ended normally.       *)
THEOREM FirstEndingDecides == Throwing!Spec => []FirstEndingWins
<1>1. ThrowingInv => FirstEndingWins
  BY DEF ThrowingInv, NilUntold, Has, FirstEndingWins, ElementsOf
<1> QED
  BY <1>1, ThrowingStreamInvariant, PTL
-----------------------------------------------------------------------------
(* Each stream implements the channel.                                     *)

LEMMA AnswersSame == GotSame => Answers' = Answers
BY DEF GotSame, Answers

LEMMA AnswersMore ==
  ASSUME NEW d \in Consumers, NEW r, GotMore(d, r)
  PROVE  Answers' = [Answers EXCEPT ![d] = Append(@, r)]
<1>1. ASSUME NEW c \in Consumers
      PROVE  Got(c)' = IF c = d THEN Append(Got(c), r) ELSE Got(c)
  BY DEF GotMore
<1> QED
  BY <1>1 DEF Answers

LEMMA OverSame == StaysOpen => IsOver' = IsOver
BY DEF StaysOpen, IsOver

(* The first of the queue leaves it.                                       *)
LEMMA FirstLeaves ==
  ASSUME StreamTypes, WaiterInv, continuations # <<>>
  PROVE  /\ Head(continuations) \in Asking /\ Head(continuations) \in Consumers
         /\ ElementsOf(Tail(continuations)) = Asking \ {Head(continuations)}
<1>1. continuations \in Seq(Consumers) /\ \A c \in Consumers : OnceIn(continuations, c)
  BY TypesOfSequences DEF WaiterInv, Waiting
<1>2. /\ Head(continuations) \in Consumers /\ Head(continuations) \in Asking
      /\ \A c \in Consumers :
           c \in ElementsOf(Tail(continuations)) <=> c \in Asking /\ c # Head(continuations)
      /\ Tail(continuations) \in Seq(Consumers)
  BY <1>1, TailElements DEF Asking
<1>3. Asking \subseteq Consumers /\ ElementsOf(Tail(continuations)) \subseteq Consumers
  <2>1. ASSUME NEW s \in Seq(Consumers) PROVE ElementsOf(s) \subseteq Consumers
    BY ElementOfSeq DEF ElementsOf
  <2> QED
    BY <1>1, <1>2, <2>1 DEF Asking
<1> QED
  BY <1>2, <1>3

(* A consumer about to ask does not wait yet and has an answer to come.    *)
LEMMA MayAsk ==
  ASSUME StreamTypes, WaiterInv, CallInv, NEW c \in Consumers, cpc[c] = "entering"
  PROVE  /\ c \notin Asking /\ Len(Answers[c]) < MaxNexts
         /\ ElementsOf(Append(continuations, c)) = Asking \cup {c}
<1>1. Waiting(c) /\ EffectTypes /\ "entering" # "awaiting"
  BY DEF WaiterInv, StreamTypes
<1>2. /\ ~ Queued(c) /\ slot[c] = <<>>
      /\ \A t \in Threads : ~ WakesIn(effects[t], c)
  BY <1>1 DEF Waiting
<1>3. Got(c) = received[c]
  <2>1. Assigned(c) = <<>> /\ received[c] \in Seq(Results)
    BY <1>1, <1>2, AssignedIs DEF StreamTypes, ConsumerTypes
  <2> QED
    BY <2>1, ConcatEmptySeq DEF Got
<1>4. Len(Got(c)) < MaxNexts
  <2>1. Len(received[c]) = nexts[c] - 1 /\ nexts[c] <= MaxNexts
    BY DEF CallInv, Answered
  <2>2. nexts[c] \in Nat /\ MaxNexts \in Nat
    BY StreamBoundsAssumption DEF StreamTypes, ConsumerTypes
  <2> QED
    BY <1>3, <2>1, <2>2
<1>5. ElementsOf(Append(continuations, c)) = Asking \cup {c}
  BY TypesOfSequences, AppendElements DEF Asking
<1> QED
  BY <1>2, <1>4, <1>5 DEF Answers, Asking, Queued

(* When the stream has ended, the asker or the first that waits is told.   *)
LEMMA OneIsTold ==
  ASSUME StreamTypes, WaiterInv, CallInv, NEW c \in Consumers, cpc[c] = "entering",
         NEW d, d = Head(Append(continuations, c))
  PROVE  /\ d \in Asking \cup {c} /\ d \in Consumers
         /\ ElementsOf(Tail(Append(continuations, c))) = (Asking \cup {c}) \ {d}
<1> DEFINE queue == Append(continuations, c)
<1>1. continuations \in Seq(Consumers) /\ \A x \in Consumers : OnceIn(continuations, x)
  BY TypesOfSequences DEF WaiterInv, Waiting
<1>2. c \notin ElementsOf(continuations) /\ ElementsOf(queue) = Asking \cup {c}
  BY MayAsk DEF Asking
<1>3. /\ queue \in Seq(Consumers) /\ queue # <<>>
      /\ \A x \in Consumers : OnceIn(queue, x)
  BY <1>1, <1>2, AppendElements, AppendProperties
<1> HIDE DEF queue
<1>4. /\ Head(queue) \in Consumers /\ Head(queue) \in ElementsOf(queue)
      /\ Tail(queue) \in Seq(Consumers)
      /\ \A x \in Consumers :
           x \in ElementsOf(Tail(queue)) <=> x \in ElementsOf(queue) /\ x # Head(queue)
  BY <1>3, TailElements
<1>5. ASSUME NEW s \in Seq(Consumers) PROVE ElementsOf(s) \subseteq Consumers
  BY ElementOfSeq DEF ElementsOf
<1>6. ElementsOf(Tail(queue)) \subseteq Consumers /\ ElementsOf(queue) \subseteq Consumers
  BY <1>3, <1>4, <1>5
<1>7. d = Head(queue)
  BY DEF queue
<1>8. ElementsOf(Tail(queue)) = ElementsOf(queue) \ {d}
  BY <1>4, <1>6, <1>7
<1> QED
  BY <1>2, <1>4, <1>7, <1>8 DEF queue

LEMMA SameEnds == Promise!Ends = Endings
BY DEF Promise!Ends, Endings, Nil, Failure

(* What the user of the stream sees is a step of the channel, or nothing.  *)
LEMMA ChannelStep ==
  ASSUME StreamTypes, WaiterInv, CallInv, View
  PROVE  Promise!Next \/ UNCHANGED Promise!chanVars
<1>1. MayTell => \/ UNCHANGED <<Asking, Answers>>
                 \/ \E d \in Asking, r \in Promise!Ends :
                      pending = <<>> /\ Promise!Answer(d, r)
  <2>1. UNCHANGED continuations /\ GotSame => UNCHANGED <<Asking, Answers>>
    BY AnswersSame DEF Asking
  <2>2. ASSUME NEW r \in Endings, continuations # <<>>,
               continuations' = Tail(continuations), GotMore(Head(continuations), r)
        PROVE  Head(continuations) \in Asking /\ Promise!Answer(Head(continuations), r)
    <3>1. /\ Head(continuations) \in Asking /\ Head(continuations) \in Consumers
          /\ Asking' = Asking \ {Head(continuations)}
      BY <2>2, FirstLeaves DEF Asking
    <3> QED
      BY <2>2, <3>1, AnswersMore DEF Promise!Answer
  <2> QED
    BY <2>1, <2>2, SameEnds DEF MayTell
<1>2. yields + 1 \in Values => yields < MaxYields
  BY TypesOfSequences DEF Values
<1>3. CASE Hidden
  BY <1>3, AnswersSame, OverSame DEF Hidden, Promise!chanVars, Asking
<1>4. CASE StoresValue
  <2>1. UNCHANGED <<Asking, Answers, IsOver>> /\ Asking = {} /\ ~ IsOver
    BY <1>4, AnswersSame, OverSame, EmptyHasNothing DEF StoresValue, Asking, IsOver
  <2>2. \/ pending' = Append(pending, yields') \/ pending' = pending
        \/ pending # <<>> /\ pending' = Append(Tail(pending), yields')
    BY <1>4 DEF StoresValue, Enqueue
  <2>3. Promise!SendToBuffer
    BY <1>2, <1>4, <2>1, <2>2 DEF StoresValue, Promise!SendToBuffer
  <2> QED
    BY <2>3 DEF Promise!Next
<1>5. CASE RefusesValue
  <2>1. UNCHANGED <<pending, IsOver>> /\ IsOver /\ yields < MaxYields /\ yields' = yields + 1
    BY <1>2, <1>5, OverSame DEF RefusesValue, IsOver
  <2>2. Promise!SendRefused
    BY <1>1, <1>5, <2>1 DEF RefusesValue, Promise!SendRefused
  <2> QED
    BY <2>2 DEF Promise!Next
<1>6. CASE EndsStream
  <2>1. Promise!End
    BY <1>1, <1>6 DEF EndsStream, IsOver, Promise!End
  <2> QED
    BY <2>1 DEF Promise!Next
<1>7. ASSUME NEW d \in Consumers, GivesValue(d) PROVE Promise!Next
  <2>1. d \in Asking /\ Asking' = Asking \ {d}
    BY <1>7, FirstLeaves DEF GivesValue, Asking
  <2>2. Answers' = [Answers EXCEPT ![d] = Append(@, yields')]
    BY <1>7, AnswersMore DEF GivesValue
  <2>3. UNCHANGED <<pending, IsOver>> /\ ~ IsOver /\ pending = <<>>
        /\ yields < MaxYields /\ yields' = yields + 1
    BY <1>2, <1>7, OverSame DEF GivesValue, IsOver
  <2>4. Promise!SendToAsking(d)
    BY <2>1, <2>2, <2>3 DEF Promise!SendToAsking, Promise!Answer
  <2> QED
    BY <2>4 DEF Promise!Next
<1>8. ASSUME NEW c \in Consumers, Asks(c) PROVE Promise!Next
  <2>1. c \notin Asking /\ Len(Answers[c]) < MaxNexts /\ Asking' = Asking \cup {c}
    BY <1>8, MayAsk DEF Asks, Asking
  <2>2. UNCHANGED <<pending, yields, IsOver, Answers>> /\ ~ IsOver /\ pending = <<>>
    BY <1>8, AnswersSame, OverSame DEF Asks, IsOver
  <2>3. Promise!Ask(c)
    BY <2>1, <2>2 DEF Promise!Ask
  <2> QED
    BY <2>3 DEF Promise!Next
<1>9. ASSUME NEW c \in Consumers, Takes(c) PROVE Promise!Next
  <2>1. c \notin Asking /\ Len(Answers[c]) < MaxNexts
    BY <1>9, MayAsk DEF Takes
  <2>2. Asking' = Asking \ {c}
    BY <1>9, <2>1 DEF Takes, Asking
  <2>3. Answers' = [Answers EXCEPT ![c] = Append(@, Head(pending))]
    BY <1>9, AnswersMore DEF Takes
  <2>4. UNCHANGED <<yields, IsOver>> /\ pending # <<>> /\ pending' = Tail(pending)
    BY <1>9, OverSame DEF Takes
  <2>5. Promise!AskAndGet(c)
    BY <2>1, <2>2, <2>3, <2>4 DEF Promise!AskAndGet, Promise!Answer
  <2> QED
    BY <2>5 DEF Promise!Next
<1>10. ASSUME NEW c \in Consumers, NEW d \in Consumers, LearnsOfEnd(c, d) PROVE Promise!Next
  <2>1. c \notin Asking /\ Len(Answers[c]) < MaxNexts
    BY <1>10, MayAsk DEF LearnsOfEnd
  <2>2. d \in Asking \cup {c} /\ Asking' = (Asking \cup {c}) \ {d}
    BY <1>10, OneIsTold DEF LearnsOfEnd, Asking
  <2>3. PICK r \in Endings : GotMore(d, r)
    BY <1>10 DEF LearnsOfEnd
  <2>4. Answers' = [Answers EXCEPT ![d] = Append(@, r)]
    BY <2>3, AnswersMore
  <2>5. UNCHANGED <<pending, yields, IsOver>> /\ IsOver /\ pending = <<>>
    BY <1>10, OverSame DEF LearnsOfEnd, IsOver
  <2>6. Promise!AskAtEnd(c)
    BY <2>1, <2>2, <2>4, <2>5, SameEnds DEF Promise!AskAtEnd
  <2> QED
    BY <2>6 DEF Promise!Next
<1> QED
  BY <1>3, <1>4, <1>5, <1>6, <1>7, <1>8, <1>9, <1>10 DEF View

LEMMA ChannelInit ==
  ASSUME Init
  PROVE  Promise!Init
<1>1. \A c \in Consumers : Got(c) = <<>>
  <2>1. EffectTypes /\ WaiterInv
    BY StreamInit DEF StreamInv, StreamTypes
  <2>2. ASSUME NEW c \in Consumers PROVE Assigned(c) = <<>>
    BY <2>1, EmptyList, AssignedIs DEF Init, WaiterInv
  <2> QED
    BY <2>2 DEF Got, Init
<1> QED
  BY <1>1, EmptyHasNothing DEF Init, Promise!Init, Asking, Answers, IsOver

LEMMA ChannelStutter ==
  ASSUME UNCHANGED vars
  PROVE  UNCHANGED Promise!chanVars
<1>1. UNCHANGED <<continuations, pending, yields, terminal>> /\ Answers' = Answers
  BY InSlots DEF vars, bufferVars, Answers
<1> QED
  BY <1>1 DEF Promise!chanVars, Asking, IsOver

(* An AsyncStream implements the channel: answers come in the order of the *)
(* values, and the end after what was buffered.                            *)
THEOREM PlainStreamIsAChannel == Plain!Spec => ImplementsChannel
<1>1. Plain!Init => Promise!Init
  BY PlainRest, ChannelInit
<1>2. StreamInv /\ [Plain!Next]_(Plain!vars)
        => [Promise!Next]_(Promise!chanVars)
  <2>1. ASSUME StreamInv, Plain!Next
        PROVE  Promise!Next \/ UNCHANGED Promise!chanVars
    BY <2>1, PlainStep, ViewStep, ChannelStep DEF StreamInv
  <2>2. ASSUME UNCHANGED Plain!vars PROVE UNCHANGED Promise!chanVars
    BY <2>2, Unchanged, ChannelStutter
  <2> QED
    BY <2>1, <2>2
<1> QED
  BY <1>1, <1>2, PlainStreamInvariant, PTL
     DEF Plain!Spec, ImplementsChannel, Promise!Spec

(* So does an AsyncThrowingStream, which may end with an error.            *)
THEOREM ThrowingStreamIsAChannel == Throwing!Spec => ImplementsChannel
<1>1. Throwing!Init => Promise!Init
  BY ThrowingRest, ChannelInit
<1>2. ThrowingInv /\ [Throwing!Next]_(Throwing!vars)
        => [Promise!Next]_(Promise!chanVars)
  <2>1. ASSUME ThrowingInv, Throwing!Next
        PROVE  Promise!Next \/ UNCHANGED Promise!chanVars
    <3>1. StreamTypes /\ WaiterInv /\ CallInv /\ CancelInv /\ StreamNext
      BY <2>1, TypesOfSequences, ThrowingStep DEF ThrowingInv, StreamInv
    <3> QED
      BY <3>1, ViewStep, ChannelStep
  <2>2. ASSUME UNCHANGED Throwing!vars PROVE UNCHANGED Promise!chanVars
    BY <2>2, Unchanged, ChannelStutter
  <2> QED
    BY <2>1, <2>2
<1> QED
  BY <1>1, <1>2, ThrowingStreamInvariant, PTL
     DEF Throwing!Spec, ImplementsChannel, Promise!Spec
=============================================================================
