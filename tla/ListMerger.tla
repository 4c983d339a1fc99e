----------------------------- MODULE ListMerger -----------------------------
(***************************************************************************)
(* The sorted linked lists of include/swift/Basic/ListMerger.h, in which   *)
(* executors keep their jobs: higher priorities first, and jobs of one     *)
(* priority in the order of their arrival.  A list is a sequence of nodes  *)
(* and the last insertion point is an index, 0 for the null node.          *)
(***************************************************************************)
EXTENDS Integers, Sequences

CONSTANT Priority  \* Priority[n]: the sort value of a node

(* compare(lhs, rhs) <= 0 and >= 0 under descendingPriorityOrder.          *)
NotAfter(lhs, rhs)  == Priority[lhs] >= Priority[rhs]
NotBefore(lhs, rhs) == Priority[lhs] <= Priority[rhs]

(* insertAtFront begins to search after the last insertion point when the  *)
(* new node cannot belong before it.                                       *)
SearchStart(m, n) ==
  LET next == m.point + 1
  IN  IF /\ m.point > 0
         /\ IF next > Len(m.list) THEN ~ NotBefore(m.list[m.point], n)
                                  ELSE NotAfter(m.list[next], n)
      THEN next ELSE 1

InsertAtFront(m, n) ==
  LET stops == {k \in SearchStart(m, n) .. Len(m.list) : NotBefore(m.list[k], n)}
      at    == IF stops = {} THEN Len(m.list) + 1
               ELSE CHOOSE k \in stops : \A i \in stops : k <= i
  IN  [list  |-> SubSeq(m.list, 1, at - 1) \o <<n>> \o SubSeq(m.list, at, Len(m.list)),
       point |-> at - 1]

(* Nodes met in the opposite of their order of arrival, each inserted in   *)
(* front of its equals.                                                    *)
SortReversed(nodes) ==
  LET after[k \in 0 .. Len(nodes)] ==
        IF k = 0 THEN [list |-> <<>>, point |-> 0] ELSE InsertAtFront(after[k - 1], nodes[k])
  IN  after[Len(nodes)].list

(* The k-th node of the merged list, of which m has the ones before, the   *)
(* first m.taken nodes of the list among them: of two equal nodes the one  *)
(* that was in the list comes first.                                       *)
TakeNext(list, new, m, k) ==
  LET i == m.taken + 1
      j == k - m.taken
  IN  IF i <= Len(list) /\ (j > Len(new) \/ NotAfter(list[i], new[j]))
      THEN [taken |-> i, nodes |-> Append(m.nodes, list[i])]
      ELSE [taken |-> m.taken, nodes |-> Append(m.nodes, new[j])]

Merge(list, new) ==
  LET after[k \in 0 .. Len(list) + Len(new)] ==
        IF k = 0 THEN [taken |-> 0, nodes |-> <<>>] ELSE TakeNext(list, new, after[k - 1], k)
  IN  after[Len(list) + Len(new)].nodes
=============================================================================
