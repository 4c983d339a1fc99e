---------------------------- MODULE AsyncStream ----------------------------
(* AsyncStream._Storage: several consumers may wait; finish() ends it.     *)
EXTENDS StreamStorage

YieldMutant(p) ==               \* leaves the waiting consumer in the queue
  LET v == yields + 1
      waiting == continuations # <<>>
      result == IF terminal = "open" THEN v ELSE Nil
  IN  /\ handle # "freed" /\ Free(p) /\ yields < MaxYields
      /\ yields' = v
      /\ effects' = [effects EXCEPT ![p] =
           IF waiting THEN << <<"resume", Head(continuations), result>> >> ELSE <<>>]
      /\ pending' = IF waiting \/ terminal # "open" THEN pending ELSE Enqueue(pending, v)
      /\ discarded' = discarded \cup
           (IF terminal # "open" THEN {v} ELSE IF waiting THEN {} ELSE Dropped(pending, v))
      /\ UNCHANGED <<continuations, terminal, handlerVars, consumerVars, cancelVars, handle>>

YieldEndedMutant(p) ==          \* does not ask whether the stream has ended
  LET v == yields + 1
      waiting == continuations # <<>>
  IN  /\ handle # "freed" /\ Free(p) /\ yields < MaxYields
      /\ yields' = v
      /\ continuations' = IF waiting THEN Tail(continuations) ELSE continuations
      /\ effects' = [effects EXCEPT ![p] =
           IF waiting THEN << <<"resume", Head(continuations), v>> >> ELSE <<>>]
      /\ pending' = IF waiting THEN pending ELSE Enqueue(pending, v)
      /\ discarded' = discarded \cup (IF waiting THEN {} ELSE Dropped(pending, v))
      /\ UNCHANGED <<terminal, handlerVars, consumerVars, cancelVars, handle>>

(* yield(_:).  The value goes to the first waiting consumer, or into the   *)
(* buffer; a consumer found waiting at a non-empty buffer gets its head.   *)
Yield(p) ==
  LET v == yields + 1
      waiting == continuations # <<>>
      direct == waiting /\ pending = <<>>
      accepted == IF terminal = "open" THEN Enqueue(pending, v) ELSE pending
      result == IF ~ direct THEN Head(accepted)
                ELSE IF terminal = "open" THEN v ELSE Nil
  IN  /\ handle # "freed" /\ Free(p) /\ yields < MaxYields
      /\ yields' = v
      /\ continuations' = IF waiting THEN Tail(continuations) ELSE continuations
      /\ effects' = [effects EXCEPT ![p] =
           IF waiting THEN << <<"resume", Head(continuations), result>> >> ELSE <<>>]
      /\ pending' = IF direct THEN pending
                    ELSE IF waiting THEN Tail(accepted) ELSE accepted
      /\ discarded' = discarded \cup
           (IF terminal # "open" THEN {v}
            ELSE IF direct THEN {} ELSE Dropped(pending, v))
      /\ UNCHANGED <<terminal, handlerVars, consumerVars, cancelVars, handle>>

(* A producer calls finish(); calls that would change nothing are left out.*)
CallFinish(p) ==
  /\ handle # "freed" /\ Free(p)
  /\ terminal = "open" \/ continuations # <<>> \/ onTermination # NoHandler
  /\ effects' = [effects EXCEPT ![p] = << <<"finish", Nil>> >>]
  /\ UNCHANGED <<bufferVars, handlerVars, consumerVars, cancelVars, handle>>

(* finish(): take the handler, end the stream, wake the first consumer.    *)
Finish(t) ==
  /\ Doing(t, "finish")
  /\ terminal' = "finished" /\ onTermination' = NoHandler
  /\ LET waiting == continuations # <<>>
         result == IF pending # <<>> THEN Head(pending) ELSE Nil
     IN  /\ continuations' = IF waiting THEN Tail(continuations) ELSE continuations
         /\ pending' = IF waiting /\ pending # <<>> THEN Tail(pending) ELSE pending
         /\ Then(t, CallIfSet(onTermination) \o
                    (IF waiting THEN << <<"resume", Head(continuations), result>> >>
                     ELSE <<>>))
  /\ UNCHANGED <<yields, discarded, installed, replaced, calls, consumerVars, cancelVars,
                 handle>>

(* next(_:): queue the continuation, then serve the first one if possible. *)
NextContinuation(c) ==
  /\ cpc[c] = "entering" /\ Free(c)
  /\ cpc' = [cpc EXCEPT ![c] = "awaiting"]
  /\ LET queue == Append(continuations, c)
         serve == pending # <<>> \/ terminal # "open"
         result == IF pending # <<>> THEN Head(pending) ELSE Nil
     IN  /\ continuations' = IF serve THEN Tail(queue) ELSE queue
         /\ pending' = IF pending # <<>> THEN Tail(pending) ELSE pending
         /\ effects' = [effects EXCEPT ![c] =
              IF serve THEN << <<"resume", Head(queue), result>> >> ELSE <<>>]
  /\ UNCHANGED <<terminal, yields, discarded, handlerVars, nexts, slot, received,
                 cancelVars, handle>>

-----------------------------------------------------------------------------
Next ==
  \/ CommonNext
  \/ \E p \in Producers : Yield(p) \/ CallFinish(p)
  \/ \E t \in Threads : Finish(t)
  \/ \E c \in Consumers : NextContinuation(c)

Spec == Init /\ [][Next]_vars

(* Threads inside the runtime go on; nobody has to yield, to finish, to    *)
(* cancel or to call next.                                                 *)
Fairness ==
  /\ \A t \in Threads : WF_vars(Continue(t) \/ Finish(t))
  /\ \A c \in Consumers : WF_vars(NextContinuation(c) \/ ReturnFromNext(c))
  /\ \A k \in Cancellers : WF_vars(LockAndCancel(k) \/ UnlockRecords(k))

FairSpec == Spec /\ Fairness
=============================================================================
