------------------------------ MODULE NodeLists ------------------------------
(* What utils/linked_list.rs promises: lists of nodes, no node in two of   *)
(* them, changed one operation at a time.                                  *)
EXTENDS SequencesExt, Naturals

CONSTANTS Nodes, Lists
VARIABLE order   \* the nodes of each list, front first

Init == order = [l \in Lists |-> <<>>]

Loose == {n \in Nodes : \A l \in Lists : n \notin ToSet(order[l])}
PositionOf(n, s) == CHOOSE i \in DOMAIN s : s[i] = n

Link(l, n) == n \in Loose /\ order' = [order EXCEPT ![l] = <<n>> \o order[l]]
LinkAfter(l, a, n) ==
  /\ n \in Loose /\ a \in ToSet(order[l])
  /\ order' = [order EXCEPT ![l] = InsertAt(order[l], PositionOf(a, order[l]) + 1, n)]
Unlink(l, n) ==
  /\ n \in ToSet(order[l])
  /\ order' = [order EXCEPT ![l] = RemoveAt(order[l], PositionOf(n, order[l]))]
Splice(l, other) == order' = [order EXCEPT ![l] = order[other] \o order[l], ![other] = <<>>]

Next == \E l \in Lists, n \in Nodes :
  \/ Link(l, n) \/ Unlink(l, n)
  \/ \E a \in Nodes : LinkAfter(l, a, n)
  \/ \E other \in Lists \ {l} : Splice(l, other)

Spec == Init /\ [][Next]_order
=============================================================================
