--------------------------- MODULE MCDefaultActor ---------------------------
(* DefaultActor for TLC: two tasks of one priority and one more urgent;    *)
(* and the list merger over all lists of five nodes.                       *)
EXTENDS DefaultActor, TLC

CONSTANTS j1, j2, j3

JobPriority == (j1 :> 1) @@ (j2 :> 2) @@ (j3 :> 1)

Lists(p) == INSTANCE ListMerger WITH Priority <- p

(* The reference: nodes numbered in the order of their arrival, sorted by  *)
(* priority and, within one priority, by arrival.                          *)
InOrder(p, list, nodes) ==
  /\ Len(list) = Cardinality(nodes)
  /\ \A n \in nodes : \E i \in DOMAIN list : list[i] = n
  /\ \A i, k \in DOMAIN list :
       i < k => \/ p[list[i]] > p[list[k]]
                \/ p[list[i]] = p[list[k]] /\ list[i] < list[k]

NewestFirst(from, to) == [i \in 1 .. to - from + 1 |-> to + 1 - i]

(* insertAtFront and merge yield the reference, however the nodes are      *)
(* split into those that were sorted before and those that are new.        *)
ASSUME ListsInOrder ==
  \A p \in [1 .. 5 -> 1 .. 3], n \in 0 .. 5 :
    LET old == Lists(p)!SortReversed(NewestFirst(1, n))
        new == Lists(p)!SortReversed(NewestFirst(n + 1, 5))
    IN  /\ InOrder(p, old, 1 .. n) /\ InOrder(p, new, n + 1 .. 5)
        /\ InOrder(p, Lists(p)!Merge(old, new), 1 .. 5)
=============================================================================
