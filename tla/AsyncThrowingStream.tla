------------------------ MODULE AsyncThrowingStream ------------------------
(* AsyncThrowingStream._Storage: one consumer may wait, and the stream may *)
(* end with an error.  The optional continuation is a queue of at most one.*)
EXTENDS StreamStorage

Ending == IF terminal = "failed" THEN Failure ELSE Nil

(* yield(_:).                                                              *)
Yield(p) ==
  LET v == yields + 1
      waiting == continuations # <<>>
      direct == waiting /\ pending = <<>>
      accepted == IF terminal = "open" THEN Enqueue(pending, v) ELSE pending
      result == IF ~ direct THEN Head(accepted)
                ELSE IF terminal = "open" THEN v ELSE Ending
  IN  /\ handle # "freed" /\ Free(p) /\ yields < MaxYields
      /\ yields' = v
      /\ continuations' = <<>>
      /\ effects' = [effects EXCEPT ![p] =
           IF waiting THEN << <<"resume", Head(continuations), result>> >> ELSE <<>>]
      /\ pending' = IF direct THEN pending
                    ELSE IF waiting THEN Tail(accepted) ELSE accepted
      /\ discarded' = discarded \cup
           (IF terminal # "open" THEN {v}
            ELSE IF direct THEN {} ELSE Dropped(pending, v))
      /\ terminal' = IF direct /\ terminal # "open" THEN "finished" ELSE terminal
      /\ UNCHANGED <<handlerVars, consumerVars, cancelVars, handle>>

(* A producer calls finish(throwing:), with or without an error; calls     *)
(* that would change nothing are left out.                                 *)
CallFinish(p, error) ==
  /\ handle # "freed" /\ Free(p)
  /\ terminal = "open" \/ continuations # <<>> \/ onTermination # NoHandler
  /\ effects' = [effects EXCEPT ![p] = << <<"finish", error>> >>]
  /\ UNCHANGED <<bufferVars, handlerVars, consumerVars, cancelVars, handle>>

EndsAsMutant(error) == IF error = Failure THEN "failed" ELSE "finished"
(* The first call of finish decides how the stream ends.                   *)
EndsAs(error) ==
  IF terminal # "open" THEN terminal
  ELSE IF error = Failure THEN "failed" ELSE "finished"

(* finish(throwing:); cancel() comes here too, without an error.           *)
Finish(t) ==
  /\ Doing(t, "finish")
  /\ terminal' = EndsAs(Head(effects[t])[2])
  /\ onTermination' = NoHandler
  /\ LET waiting == continuations # <<>>
         result == IF pending # <<>> THEN Head(pending) ELSE Ending'
     IN  /\ continuations' = <<>>
         /\ pending' = IF waiting /\ pending # <<>> THEN Tail(pending) ELSE pending
         /\ Then(t, CallIfSet(onTermination) \o
                    (IF waiting THEN << <<"resume", Head(continuations), result>> >>
                     ELSE <<>>))
  /\ UNCHANGED <<yields, discarded, installed, replaced, calls, consumerVars, cancelVars,
                 handle>>

NextMutant(c) ==                \* an ended stream forgets its buffer
  /\ cpc[c] = "entering" /\ Free(c)
  /\ cpc' = [cpc EXCEPT ![c] = "awaiting"]
  /\ LET serve == pending # <<>> \/ terminal # "open"
         result == IF terminal # "open" THEN Ending ELSE Head(pending)
     IN  /\ pending' = IF serve /\ terminal = "open" THEN Tail(pending) ELSE pending
         /\ continuations' = IF serve THEN <<>> ELSE <<c>>
         /\ effects' = [effects EXCEPT ![c] =
              IF serve THEN << <<"resume", c, result>> >> ELSE <<>>]
  /\ UNCHANGED <<terminal, yields, discarded, handlerVars, nexts, slot, received, cancelVars,
                 handle>>

(* next(_:): serve the caller, or store its continuation.  An error is     *)
(* thrown once here; afterwards the stream is merely finished.             *)
NextContinuation(c) ==
  /\ cpc[c] = "entering" /\ Free(c)
  /\ LET serve == pending # <<>> \/ terminal # "open"
         result == IF pending # <<>> THEN Head(pending) ELSE Ending
     IN  IF continuations # <<>>
         THEN /\ cpc' = [cpc EXCEPT ![c] = "fatal"]
              /\ UNCHANGED <<continuations, pending, terminal, effects>>
         ELSE /\ cpc' = [cpc EXCEPT ![c] = "awaiting"]
              /\ pending' = IF pending # <<>> THEN Tail(pending) ELSE pending
              /\ terminal' = IF pending = <<>> /\ terminal # "open"
                             THEN "finished" ELSE terminal
              /\ continuations' = IF serve THEN <<>> ELSE <<c>>
              /\ effects' = [effects EXCEPT ![c] =
                   IF serve THEN << <<"resume", c, result>> >> ELSE <<>>]
  /\ UNCHANGED <<yields, discarded, handlerVars, nexts, slot, received, cancelVars, handle>>

-----------------------------------------------------------------------------
Next ==
  \/ CommonNext
  \/ \E p \in Producers : Yield(p) \/ \E e \in {Nil, Failure} : CallFinish(p, e)
  \/ \E t \in Threads : Finish(t)
  \/ \E c \in Consumers : NextContinuation(c)

Spec == Init /\ [][Next]_vars

(* Threads inside the runtime go on; nobody has to yield, to finish, to    *)
(* cancel or to call next.                                                 *)
Fairness ==
  /\ \A t \in Threads : WF_vars(Continue(t) \/ Finish(t))
  /\ \A c \in Consumers : WF_vars(NextContinuation(c) \/ ReturnFromNext(c))
  /\ \A k \in Cancellers : WF_vars(LockAndCancel(k) \/ UnlockRecords(k))

FairSpec == Spec /\ Fairness

-----------------------------------------------------------------------------
(* "After returning nil (or throwing an error) from next(), the iterator   *)
(* enters a terminal state, and all future calls to next() must return     *)
(* nil" (AsyncIteratorProtocol.swift:67).                                  *)
OnlyNilAfterError ==
  \A c \in Consumers : \A i, j \in 1 .. Len(received[c]) :
    i < j /\ received[c][i] = Failure => received[c][j] = Nil
=============================================================================
