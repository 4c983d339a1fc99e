------------------------------ MODULE Channel ------------------------------
(***************************************************************************)
(* What an asynchronous stream promises its users, without continuations,  *)
(* locks, handlers and cancellation: consumers ask for values and get them *)
(* in the order in which they were sent, or are told of the end.           *)
(***************************************************************************)
EXTENDS Integers, Sequences

CONSTANTS
  Consumers,  \* who asks
  MaxSends,   \* bound: values sent
  MaxAsks     \* bound: answers to one consumer

Values == Nat \ {0}  \* the n-th value is n
Ends   == {0, -1}    \* the answers that tell of the end: nil and an error

VARIABLES
  buffer,   \* values sent and not yet asked for
  sent,     \* how many values were sent
  ended,    \* nothing more will be sent
  asking,   \* consumers that wait for an answer
  got       \* got[c]: the answers to c

chanVars == <<buffer, sent, ended, asking, got>>

Init ==
  /\ buffer = <<>> /\ sent = 0 /\ ended = FALSE
  /\ asking = {}
  /\ got = [c \in Consumers |-> <<>>]

Answer(c, r) == got' = [got EXCEPT ![c] = Append(@, r)] /\ asking' = asking \ {c}

(* A value goes to somebody who asks, or into the buffer; a full buffer    *)
(* drops it, or its oldest value.                                          *)
SendToAsking(c) ==
  /\ sent < MaxSends /\ sent' = sent + 1
  /\ c \in asking /\ ~ ended /\ buffer = <<>>
  /\ Answer(c, sent')
  /\ UNCHANGED <<buffer, ended>>

SendToBuffer ==
  /\ sent < MaxSends /\ sent' = sent + 1
  /\ asking = {} /\ ~ ended
  /\ \/ buffer' = Append(buffer, sent')
     \/ buffer' = buffer
     \/ buffer # <<>> /\ buffer' = Append(Tail(buffer), sent')
  /\ UNCHANGED <<ended, asking, got>>

(* After the end a value is refused; somebody who still waits may be told. *)
SendRefused ==
  /\ sent < MaxSends /\ sent' = sent + 1
  /\ ended
  /\ UNCHANGED <<buffer, ended>>
  /\ \/ UNCHANGED <<asking, got>>
     \/ \E c \in asking, r \in Ends : buffer = <<>> /\ Answer(c, r)

Ask(c) ==
  /\ c \notin asking /\ Len(got[c]) < MaxAsks /\ buffer = <<>> /\ ~ ended
  /\ asking' = asking \cup {c}
  /\ UNCHANGED <<buffer, sent, ended, got>>

AskAndGet(c) ==
  /\ c \notin asking /\ Len(got[c]) < MaxAsks /\ buffer # <<>>
  /\ Answer(c, Head(buffer)) /\ buffer' = Tail(buffer)
  /\ UNCHANGED <<sent, ended>>

(* The asker is told, or somebody who has been waiting since the end.      *)
AskAtEnd(c) ==
  /\ c \notin asking /\ Len(got[c]) < MaxAsks /\ buffer = <<>> /\ ended
  /\ \E d \in asking \cup {c}, r \in Ends :
       /\ got' = [got EXCEPT ![d] = Append(@, r)]
       /\ asking' = (asking \cup {c}) \ {d}
  /\ UNCHANGED <<buffer, sent, ended>>

End ==
  /\ ended' = TRUE
  /\ UNCHANGED <<buffer, sent>>
  /\ \/ UNCHANGED <<asking, got>>
     \/ \E c \in asking, r \in Ends : buffer = <<>> /\ Answer(c, r)

Next ==
  \/ \E c \in Consumers : SendToAsking(c) \/ Ask(c) \/ AskAndGet(c) \/ AskAtEnd(c)
  \/ SendToBuffer \/ SendRefused \/ End

Spec == Init /\ [][Next]_chanVars

-----------------------------------------------------------------------------
TypeOK ==
  /\ buffer \in Seq(Values) /\ sent \in Nat
  /\ ended \in BOOLEAN /\ asking \subseteq Consumers
  /\ got \in [Consumers -> Seq(Values \cup Ends)]

IsValue(r) == r \in Values

(* Nobody waits while a value is buffered.                                 *)
NobodyStarves == asking = {} \/ buffer = <<>>

(* Each consumer sees the values in the order in which they were sent, and *)
(* before any value that is still buffered; after the end it sees no more, *)
(* and it is told of the end only when there is nothing left to send it.   *)
Ordered(s) ==
  \A i, j \in 1 .. Len(s) :
    i < j /\ IsValue(s[j]) => IsValue(s[i]) /\ s[i] < s[j]

Fits(answers, rest, n, over) ==
  /\ Ordered(answers)
  /\ \A i \in 1 .. Len(answers) :
       /\ IsValue(answers[i]) => answers[i] <= n
       /\ ~ IsValue(answers[i]) => over
       /\ \A j \in 1 .. Len(rest) : IsValue(answers[i]) /\ answers[i] < rest[j]

InOrder == \A c \in Consumers : Fits(got[c], buffer, sent, ended)
=============================================================================
