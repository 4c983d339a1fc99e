--------------------------- MODULE Channel_proofs ---------------------------
(***************************************************************************)
(* What the abstract channel promises holds for any number of consumers    *)
(* and values, however many are sent and dropped.                          *)
(***************************************************************************)
EXTENDS Channel, SequenceTheorems, TLAPS

Answers == Seq(Values \cup Ends)

(* The order of what was received is inductive only with the order of what *)
(* is still buffered.                                                      *)
BufferInOrder ==
  /\ Ordered(buffer)
  /\ \A i \in 1 .. Len(buffer) : buffer[i] <= sent

IInv == TypeOK /\ BufferInOrder /\ InOrder

-----------------------------------------------------------------------------
LEMMA EndIsNoValue ==
  ASSUME NEW r \in Ends
  PROVE  ~ IsValue(r)
BY DEF IsValue, Values, Ends

(* A sequence stays ordered when a value above all of it is appended, or a *)
(* result that tells of the end.                                           *)
LEMMA OrderedAppend ==
  ASSUME NEW S, NEW s \in Seq(S), NEW r \in S, Ordered(s),
         IsValue(r) => \A i \in 1 .. Len(s) : IsValue(s[i]) /\ s[i] < r
  PROVE  Ordered(Append(s, r))
<1> DEFINE t == Append(s, r)
<1>1. /\ Len(t) = Len(s) + 1 /\ Len(s) \in Nat
      /\ \A i \in 1 .. Len(s) : t[i] = s[i]
      /\ t[Len(s) + 1] = r
  BY AppendProperties, LenProperties
<1> HIDE DEF t
<1>2. SUFFICES ASSUME NEW i \in 1 .. Len(t), NEW j \in 1 .. Len(t), i < j, IsValue(t[j])
               PROVE  IsValue(t[i]) /\ t[i] < t[j]
  BY DEF Ordered, t
<1>3. i \in 1 .. Len(s)
  BY <1>1, <1>2
<1>4. CASE j \in 1 .. Len(s)
  BY <1>1, <1>2, <1>3, <1>4 DEF Ordered
<1>5. CASE j = Len(s) + 1
  BY <1>1, <1>2, <1>3, <1>5
<1> QED
  BY <1>1, <1>4, <1>5

LEMMA OrderedTail ==
  ASSUME NEW S, NEW s \in Seq(S), s # <<>>, Ordered(s)
  PROVE  Ordered(Tail(s))
<1>1. /\ Len(Tail(s)) = Len(s) - 1 /\ Len(s) \in Nat
      /\ \A i \in 1 .. Len(Tail(s)) : Tail(s)[i] = s[i + 1]
  BY HeadTailProperties, LenProperties
<1> QED
  BY <1>1 DEF Ordered

(* The first value of the buffer comes before all others.                  *)
LEMMA HeadIsFirst ==
  ASSUME TypeOK, BufferInOrder, buffer # <<>>
  PROVE  /\ Head(buffer) \in Values /\ Head(buffer) <= sent
         /\ \A j \in 1 .. Len(Tail(buffer)) : Head(buffer) < Tail(buffer)[j]
<1> DEFINE b == buffer
<1>a. b \in Seq(Values) /\ b # <<>>
  BY DEF TypeOK
<1>b. Len(b) \in Nat \ {0} /\ Head(b) = b[1]
  BY <1>a, EmptySeq
<1>1. /\ buffer \in Seq(Values) /\ Len(buffer) \in Nat \ {0}
      /\ Head(buffer) = buffer[1] /\ Head(buffer) \in Values
      /\ Len(Tail(buffer)) = Len(buffer) - 1
      /\ \A j \in 1 .. Len(Tail(buffer)) : Tail(buffer)[j] = buffer[j + 1]
  BY <1>a, <1>b, HeadTailProperties
<1>2. \A j \in 1 .. Len(buffer) : IsValue(buffer[j])
  BY <1>1, LenProperties DEF IsValue
<1> QED
  BY <1>1, <1>2 DEF BufferInOrder, Ordered

(* What keeps fitting: the rest loses values, or gains the newest one      *)
(* while the channel is open.                                              *)
LEMMA FitsStays ==
  ASSUME NEW answers \in Answers, NEW n \in Nat, NEW m \in Nat, n <= m,
         NEW e \in BOOLEAN, NEW f \in BOOLEAN, e => f,
         NEW b \in Seq(Values), NEW d \in Seq(Values),
         Fits(answers, b, n, e),
         \A j \in 1 .. Len(d) :
           \/ \E k \in 1 .. Len(b) : d[j] = b[k]
           \/ ~ e /\ d[j] > n
  PROVE  Fits(answers, d, m, f)
<1>1. SUFFICES ASSUME NEW i \in 1 .. Len(answers)
               PROVE  /\ IsValue(answers[i]) => answers[i] <= m
                      /\ ~ IsValue(answers[i]) => f
                      /\ \A j \in 1 .. Len(d) : IsValue(answers[i]) /\ answers[i] < d[j]
  BY DEF Fits
<1>2. /\ IsValue(answers[i]) => answers[i] <= n /\ answers[i] \in Nat
      /\ ~ IsValue(answers[i]) => e
  BY <1>1 DEF Fits, IsValue, Values
<1>3. d \in [1 .. Len(d) -> Values]
  BY LenProperties
<1>4. ASSUME NEW j \in 1 .. Len(d)
      PROVE  IsValue(answers[i]) /\ answers[i] < d[j]
  <2>1. CASE \E k \in 1 .. Len(b) : d[j] = b[k]
    BY <1>1, <2>1 DEF Fits
  <2>2. CASE ~ e /\ d[j] > n
    BY <1>2, <1>3, <1>4, <2>2 DEF Values
  <2> QED
    BY <1>4, <2>1, <2>2
<1> QED
  BY <1>2, <1>4

(* One more answer fits if it is a value above all others and below the    *)
(* rest, or tells of the end when nothing is left.                         *)
LEMMA FitsAppend ==
  ASSUME NEW answers \in Answers, NEW r \in Values \cup Ends,
         NEW n \in Nat, NEW e \in BOOLEAN, NEW b \in Seq(Values),
         Fits(answers, b, n, e),
         IsValue(r) => /\ r <= n
                       /\ \A i \in 1 .. Len(answers) : IsValue(answers[i]) /\ answers[i] < r
                       /\ \A j \in 1 .. Len(b) : r < b[j],
         ~ IsValue(r) => e /\ b = <<>>
  PROVE  Fits(Append(answers, r), b, n, e)
<1> DEFINE t == Append(answers, r)
<1>1. /\ Len(t) = Len(answers) + 1 /\ Len(answers) \in Nat
      /\ \A i \in 1 .. Len(answers) : t[i] = answers[i]
      /\ t[Len(answers) + 1] = r
  BY AppendProperties, LenProperties DEF Answers
<1>2. Ordered(t)
  BY OrderedAppend DEF Fits, Answers
<1> HIDE DEF t
<1>3. ASSUME NEW i \in 1 .. Len(t)
      PROVE  /\ IsValue(t[i]) => t[i] <= n
             /\ ~ IsValue(t[i]) => e
             /\ \A j \in 1 .. Len(b) : IsValue(t[i]) /\ t[i] < b[j]
  <2>1. CASE i \in 1 .. Len(answers)
    BY <1>1, <2>1 DEF Fits
  <2>2. CASE i = Len(answers) + 1
    <3>1. b = <<>> => Len(b) = 0
      OBVIOUS
    <3> QED
      BY <1>1, <2>2, <3>1
  <2> QED
    BY <1>1, <1>3, <2>1, <2>2
<1> QED
  BY <1>2, <1>3 DEF Fits, t

-----------------------------------------------------------------------------
LEMMA InitIInv == Init => IInv
<1> SUFFICES ASSUME Init PROVE IInv
  OBVIOUS
<1>a. <<>> \in Seq(Values) /\ <<>> \in Seq(Values \cup Ends)
  OBVIOUS
<1>b. got \in [Consumers -> {<<>>}]
  BY DEF Init
<1>c. got \in [Consumers -> Seq(Values \cup Ends)]
  BY <1>a DEF Init
<1>d. sent \in Nat
  BY DEF Init
<1>1. TypeOK
  BY <1>a, <1>c, <1>d DEF Init, TypeOK
<1>2. BufferInOrder
  BY DEF Init, BufferInOrder, Ordered
<1>3. InOrder
  <2>1. ASSUME NEW c \in Consumers PROVE got[c] = <<>>
    BY <1>b
  <2>2. Fits(<<>>, buffer, sent, ended)
    BY DEF Fits, Ordered
  <2> QED
    BY <2>1, <2>2 DEF InOrder
<1> QED
  BY <1>1, <1>2, <1>3 DEF IInv

LEMMA NextType ==
  ASSUME TypeOK, Next
  PROVE  TypeOK'
<1> USE DEF Values
<1> DEFINE V == Values
<1>a. /\ buffer \in Seq(V) /\ sent \in Nat /\ ended \in BOOLEAN
      /\ asking \subseteq Consumers /\ got \in [Consumers -> Answers]
  BY DEF TypeOK, Answers
<1>b. \A c \in Consumers, r \in V \cup Ends : Append(got[c], r) \in Answers
  BY <1>a, AppendProperties DEF Answers
<1>c. ASSUME NEW c \in Consumers, NEW r \in V \cup Ends, Answer(c, r)
      PROVE  asking' \subseteq Consumers /\ got' \in [Consumers -> Answers]
  BY <1>a, <1>b, <1>c DEF Answer
<1>d. sent < MaxSends /\ sent' = sent + 1 => sent' \in V /\ sent' \in Nat
  BY <1>a
<1>1. ASSUME NEW c \in Consumers, SendToAsking(c) PROVE TypeOK'
  BY <1>1, <1>a, <1>c, <1>d DEF SendToAsking, TypeOK, Answers
<1>2. ASSUME SendToBuffer PROVE TypeOK'
  <2>1. buffer' \in Seq(V)
    <3>1. Append(buffer, sent') \in Seq(V)
      BY <1>2, <1>a, <1>d, AppendProperties DEF SendToBuffer
    <3>2. buffer # <<>> => Append(Tail(buffer), sent') \in Seq(V)
      BY <1>2, <1>a, <1>d, AppendProperties, HeadTailProperties DEF SendToBuffer
    <3> QED
      BY <1>2, <1>a, <3>1, <3>2 DEF SendToBuffer
  <2> QED
    BY <1>2, <1>a, <1>d, <2>1 DEF SendToBuffer, TypeOK, Answers
<1>3. ASSUME SendRefused PROVE TypeOK'
  <2>1. asking' \subseteq Consumers /\ got' \in [Consumers -> Answers]
    BY <1>3, <1>a, <1>c DEF SendRefused
  <2> QED
    BY <1>3, <1>a, <1>d, <2>1 DEF SendRefused, TypeOK, Answers
<1>4. ASSUME NEW c \in Consumers, Ask(c) PROVE TypeOK'
  BY <1>4, <1>a DEF Ask, TypeOK, Answers
<1>5. ASSUME NEW c \in Consumers, AskAndGet(c) PROVE TypeOK'
  <2>1. Head(buffer) \in V /\ Tail(buffer) \in Seq(V)
    BY <1>5, <1>a, HeadTailProperties DEF AskAndGet
  <2>2. asking' \subseteq Consumers /\ got' \in [Consumers -> Answers]
    BY <1>5, <1>c, <2>1 DEF AskAndGet
  <2> QED
    BY <1>5, <1>a, <2>1, <2>2 DEF AskAndGet, TypeOK, Answers
<1>6. ASSUME NEW c \in Consumers, AskAtEnd(c) PROVE TypeOK'
  <2>1. PICK d \in asking \cup {c}, r \in Ends :
          /\ got' = [got EXCEPT ![d] = Append(@, r)]
          /\ asking' = (asking \cup {c}) \ {d}
    BY <1>6 DEF AskAtEnd
  <2>2. got' \in [Consumers -> Answers]
    BY <1>a, <1>b, <2>1
  <2> QED
    BY <1>6, <1>a, <2>1, <2>2 DEF AskAtEnd, TypeOK, Answers
<1>7. ASSUME End PROVE TypeOK'
  <2>1. asking' \subseteq Consumers /\ got' \in [Consumers -> Answers]
    BY <1>7, <1>a, <1>c DEF End
  <2> QED
    BY <1>7, <1>a, <2>1 DEF End, TypeOK, Answers
<1> QED
  BY <1>1, <1>2, <1>3, <1>4, <1>5, <1>6, <1>7 DEF Next

(* The buffer stays in order: it loses its head, or gains the newest value.*)
LEMMA BufferStays ==
  ASSUME IInv, Next
  PROVE  BufferInOrder'
<1> USE DEF Values
<1>a. /\ buffer \in Seq(Values) /\ sent \in Nat
      /\ Ordered(buffer) /\ \A i \in 1 .. Len(buffer) : buffer[i] <= sent
  BY DEF IInv, TypeOK, BufferInOrder
<1>b. buffer \in [1 .. Len(buffer) -> Values] /\ Len(buffer) \in Nat
  BY <1>a, LenProperties
<1>1. ASSUME UNCHANGED buffer, sent' \in {sent, sent + 1} PROVE BufferInOrder'
  BY <1>a, <1>b, <1>1 DEF BufferInOrder, Ordered
<1>2. ASSUME NEW b \in Seq(Values), Ordered(b), \A i \in 1 .. Len(b) : b[i] <= sent,
             sent < MaxSends, sent' = sent + 1, buffer' = Append(b, sent')
      PROVE  BufferInOrder'
  <2>0. b \in [1 .. Len(b) -> Values] /\ Len(b) \in Nat
    BY LenProperties
  <2>1. sent' \in Values
    BY <1>a, <1>2
  <2>2. Ordered(Append(b, sent'))
    <3>1. \A i \in 1 .. Len(b) : IsValue(b[i]) /\ b[i] < sent'
      BY <1>a, <1>2, <2>0 DEF IsValue
    <3> QED
      BY <1>2, <2>1, <3>1, OrderedAppend
  <2>3. /\ Len(buffer') = Len(b) + 1
        /\ \A i \in 1 .. Len(b) : buffer'[i] = b[i]
        /\ buffer'[Len(b) + 1] = sent'
    BY <1>2, <2>1, AppendProperties
  <2>4. ASSUME NEW i \in 1 .. Len(buffer') PROVE buffer'[i] <= sent'
    <3>1. CASE i \in 1 .. Len(b)
      BY <1>a, <1>2, <2>0, <2>3, <3>1
    <3>2. CASE i = Len(b) + 1
      BY <2>1, <2>3, <3>2
    <3> QED
      BY <2>0, <2>3, <2>4, <3>1, <3>2
  <2> QED
    BY <1>2, <2>2, <2>4 DEF BufferInOrder, Ordered
<1>3. ASSUME buffer # <<>>
      PROVE  /\ Tail(buffer) \in Seq(Values) /\ Ordered(Tail(buffer))
             /\ \A i \in 1 .. Len(Tail(buffer)) : Tail(buffer)[i] <= sent
  <2>1. /\ Len(Tail(buffer)) = Len(buffer) - 1
        /\ \A i \in 1 .. Len(Tail(buffer)) : Tail(buffer)[i] = buffer[i + 1]
        /\ Tail(buffer) \in Seq(Values)
    BY <1>a, <1>3, HeadTailProperties
  <2>2. Ordered(Tail(buffer))
    BY <1>a, <1>3, OrderedTail
  <2> QED
    BY <1>a, <1>b, <2>1, <2>2
<1>4. ASSUME SendToBuffer PROVE BufferInOrder'
  <2>1. CASE buffer' = Append(buffer, sent')
    BY <1>4, <2>1, <1>2, <1>a DEF SendToBuffer
  <2>2. CASE buffer' = buffer
    BY <1>4, <2>2, <1>1 DEF SendToBuffer
  <2>3. CASE buffer # <<>> /\ buffer' = Append(Tail(buffer), sent')
    BY <1>4, <2>3, <1>2, <1>3 DEF SendToBuffer
  <2> QED
    BY <1>4, <2>1, <2>2, <2>3 DEF SendToBuffer
<1>5. ASSUME NEW c \in Consumers, AskAndGet(c) PROVE BufferInOrder'
  BY <1>3, <1>5 DEF AskAndGet, BufferInOrder, Ordered
<1>6. ASSUME NEW c \in Consumers, SendToAsking(c) \/ Ask(c) \/ AskAtEnd(c)
      PROVE  BufferInOrder'
  BY <1>1, <1>6 DEF SendToAsking, Ask, AskAtEnd
<1>7. ASSUME SendRefused \/ End PROVE BufferInOrder'
  BY <1>1, <1>7 DEF SendRefused, End
<1> QED
  BY <1>4, <1>5, <1>6, <1>7 DEF Next

(* Everybody's answers stay in order.  An action either answers nobody, or *)
(* gives one consumer the newest value, the first of the buffer or the end.*)
LEMMA AnswersStay ==
  ASSUME IInv, TypeOK', Next
  PROVE  InOrder'
<1> USE DEF Values
<1>a. /\ got \in [Consumers -> Answers] /\ buffer \in Seq(Values)
      /\ sent \in Nat /\ ended \in BOOLEAN
      /\ \A c \in Consumers : Fits(got[c], buffer, sent, ended)
  BY DEF IInv, TypeOK, InOrder, Answers
<1>b. buffer' \in Seq(Values) /\ sent' \in Nat /\ ended' \in BOOLEAN
  BY DEF TypeOK
<1>c. buffer \in [1 .. Len(buffer) -> Values] /\ Len(buffer) \in Nat
  BY <1>a, LenProperties
<1>d. (ended => ended') /\ sent <= sent'
  BY <1>a DEF Next, SendToAsking, SendToBuffer, SendRefused, Ask, AskAndGet, AskAtEnd, End
(* What was received before still fits the new buffer.                     *)
<1>1. ASSUME NEW c \in Consumers PROVE Fits(got[c], buffer', sent', ended')
  <2>1. ASSUME buffer' = buffer PROVE Fits(got[c], buffer', sent', ended')
    BY <1>a, <1>b, <1>d, <2>1, FitsStays
  <2>2. ASSUME buffer # <<>>
        PROVE  /\ Tail(buffer) \in Seq(Values)
               /\ \A j \in 1 .. Len(Tail(buffer)) :
                    \E k \in 1 .. Len(buffer) : Tail(buffer)[j] = buffer[k]
    <3>1. /\ Len(Tail(buffer)) = Len(buffer) - 1
          /\ \A i \in 1 .. Len(Tail(buffer)) : Tail(buffer)[i] = buffer[i + 1]
          /\ Tail(buffer) \in Seq(Values)
      BY <1>a, <2>2, HeadTailProperties
    <3>2. \A j \in 1 .. Len(Tail(buffer)) : j + 1 \in 1 .. Len(buffer)
      BY <1>c, <3>1
    <3> QED
      BY <3>1, <3>2
  <2>3. ASSUME NEW b \in Seq(Values), ~ ended, sent < MaxSends, sent' = sent + 1,
               buffer' = Append(b, sent'),
               \A j \in 1 .. Len(b) : \E k \in 1 .. Len(buffer) : b[j] = buffer[k]
        PROVE  Fits(got[c], buffer', sent', ended')
    <3>1. /\ Len(buffer') = Len(b) + 1 /\ Len(b) \in Nat
          /\ \A i \in 1 .. Len(b) : buffer'[i] = b[i]
          /\ buffer'[Len(b) + 1] = sent'
      BY <1>a, <2>3, AppendProperties, LenProperties
    <3>2. ASSUME NEW j \in 1 .. Len(buffer')
          PROVE  \/ \E k \in 1 .. Len(buffer) : buffer'[j] = buffer[k]
                 \/ ~ ended /\ buffer'[j] > sent
      <4>1. CASE j \in 1 .. Len(b)
        BY <2>3, <3>1, <4>1
      <4>2. CASE j = Len(b) + 1
        BY <1>a, <2>3, <3>1, <4>2
      <4> QED
        BY <3>1, <3>2, <4>1, <4>2
    <3> QED
      BY <1>a, <1>b, <1>d, <3>2, FitsStays
  <2>4. CASE SendToBuffer
    <3>1. CASE buffer' = Append(buffer, sent')
      BY <1>a, <2>3, <2>4, <3>1 DEF SendToBuffer
    <3>2. CASE buffer # <<>> /\ buffer' = Append(Tail(buffer), sent')
      BY <2>2, <2>3, <2>4, <3>2 DEF SendToBuffer
    <3> QED
      BY <2>1, <2>4, <3>1, <3>2 DEF SendToBuffer
  <2>5. CASE \E d \in Consumers : AskAndGet(d)
    <3>1. buffer # <<>> /\ buffer' = Tail(buffer)
      BY <2>5 DEF AskAndGet
    <3>2. \A j \in 1 .. Len(buffer') : \E k \in 1 .. Len(buffer) : buffer'[j] = buffer[k]
      BY <2>2, <3>1
    <3> HIDE <3>1
    <3> QED
      BY <1>a, <1>b, <1>d, <3>2, FitsStays
  <2>6. CASE \E d \in Consumers : SendToAsking(d) \/ Ask(d) \/ AskAtEnd(d)
    BY <2>1, <2>6 DEF SendToAsking, Ask, AskAtEnd
  <2>7. CASE SendRefused \/ End
    BY <2>1, <2>7 DEF SendRefused, End
  <2> QED
    BY <2>4, <2>5, <2>6, <2>7 DEF Next
(* Who is told of the end is told when nothing is left.                    *)
<1>2. ASSUME NEW d \in Consumers, NEW r \in Ends, buffer' = <<>>, ended',
             got' = [got EXCEPT ![d] = Append(@, r)]
      PROVE  InOrder'
  <2>1. ~ IsValue(r)
    BY EndIsNoValue
  <2>2. Fits(Append(got[d], r), buffer', sent', ended')
    BY <1>a, <1>b, <1>1, <1>2, <2>1, FitsAppend
  <2> QED
    BY <1>a, <1>1, <1>2, <2>2 DEF InOrder
<1>3. ASSUME UNCHANGED got PROVE InOrder'
  BY <1>1, <1>3 DEF InOrder
<1>4. ASSUME NEW c \in Consumers, SendToAsking(c) PROVE InOrder'
  <2>1. sent' = sent + 1 /\ sent' \in Values /\ ~ ended /\ buffer' = <<>>
    BY <1>a, <1>4 DEF SendToAsking
  <2>2. \A i \in 1 .. Len(got[c]) : IsValue(got[c][i]) /\ got[c][i] < sent'
    BY <1>a, <2>1 DEF Fits, IsValue
  <2>3. Fits(Append(got[c], sent'), buffer', sent', ended')
    <3>1. \A j \in 1 .. Len(buffer') : sent' < buffer'[j]
      BY <2>1
    <3>2. IsValue(sent') /\ sent' \in Values \cup Ends
      BY <2>1 DEF IsValue
    <3>3. got[c] \in Answers /\ Fits(got[c], buffer', sent', ended')
      BY <1>a, <1>1
    <3>4. sent' <= sent'
      BY <1>b
    <3> QED
      BY <1>b, <2>2, <3>1, <3>2, <3>3, <3>4, FitsAppend
  <2> QED
    BY <1>a, <1>1, <1>4, <2>3 DEF SendToAsking, Answer, InOrder
<1>5. ASSUME NEW c \in Consumers, AskAndGet(c) PROVE InOrder'
  <2>1. /\ buffer # <<>> /\ buffer' = Tail(buffer) /\ sent' = sent
        /\ got' = [got EXCEPT ![c] = Append(@, Head(buffer))]
    BY <1>5 DEF AskAndGet, Answer
  <2>2. /\ Head(buffer) \in Values /\ Head(buffer) <= sent'
        /\ \A j \in 1 .. Len(buffer') : Head(buffer) < buffer'[j]
    BY <2>1, HeadIsFirst DEF IInv
  <2>3. \A i \in 1 .. Len(got[c]) : IsValue(got[c][i]) /\ got[c][i] < Head(buffer)
    <3>1. Head(buffer) = buffer[1] /\ 1 \in 1 .. Len(buffer)
      BY <1>a, <1>c, <2>1, EmptySeq
    <3> QED
      BY <1>a, <3>1 DEF Fits
  <2>4. Fits(Append(got[c], Head(buffer)), buffer', sent', ended')
    BY <1>a, <1>b, <1>1, <2>2, <2>3, FitsAppend DEF IsValue
  <2> QED
    BY <1>a, <1>1, <2>1, <2>4 DEF InOrder
<1>6. ASSUME NEW c \in Consumers, AskAtEnd(c) PROVE InOrder'
  BY <1>2, <1>6 DEF AskAtEnd, IInv, TypeOK
<1>7. ASSUME SendRefused \/ End PROVE InOrder'
  <2>1. CASE UNCHANGED got
    BY <1>3, <2>1
  <2>2. CASE \E c \in asking, r \in Ends : buffer = <<>> /\ Answer(c, r)
    <3>1. ended' /\ buffer' = buffer
      BY <1>7, <1>a DEF SendRefused, End
    <3> QED
      BY <1>2, <2>2, <3>1 DEF Answer, IInv, TypeOK
  <2> QED
    BY <1>7, <2>1, <2>2 DEF SendRefused, End
<1>8. ASSUME SendToBuffer \/ \E c \in Consumers : Ask(c) PROVE InOrder'
  BY <1>3, <1>8 DEF SendToBuffer, Ask
<1> QED
  BY <1>4, <1>5, <1>6, <1>7, <1>8 DEF Next

-----------------------------------------------------------------------------
(* The invariant is inductive.                                             *)
LEMMA StepIInv == IInv /\ [Next]_chanVars => IInv'
<1> SUFFICES ASSUME IInv, [Next]_chanVars PROVE IInv'
  OBVIOUS
<1>1. CASE Next
  BY <1>1, NextType, BufferStays, AnswersStay DEF IInv
<1>2. CASE UNCHANGED chanVars
  BY <1>2 DEF IInv, TypeOK, BufferInOrder, InOrder, chanVars
<1> QED
  BY <1>1, <1>2

(* Every consumer gets the values in the order in which they were sent, no *)
(* value after it was told of the end, and no end while a value is left:   *)
(* what the doc comments of AsyncStream promise of yield, finish and next. *)
THEOREM AnswersInOrder == Spec => []InOrder
<1>1. IInv => InOrder
  BY DEF IInv
<1> QED
  BY <1>1, InitIInv, StepIInv, PTL DEF Spec

(* Nobody waits for a value while one is in the buffer.                    *)
THEOREM NoStarvation == Spec => []NobodyStarves
<1>1. Init => NobodyStarves
  BY DEF Init, NobodyStarves
<1>2. NobodyStarves /\ [Next]_chanVars => NobodyStarves'
  BY DEF NobodyStarves, Next, chanVars, Answer, SendToAsking, SendToBuffer, SendRefused,
         Ask, AskAndGet, AskAtEnd, End
<1> QED
  BY <1>1, <1>2, PTL DEF Spec
=============================================================================
