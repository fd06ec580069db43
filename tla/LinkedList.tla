----------------------------- MODULE LinkedList -----------------------------
(* utils/linked_list.rs: intrusive doubly linked lists.  A list is a head; *)
(* the links live in the nodes.  Every user holds its own lock, so an      *)
(* operation is one step.                                                  *)
EXTENDS Naturals, Sequences, FiniteSets

CONSTANTS
  Nodes, Lists,
  Nil            \* None

VARIABLES head, prev, next

vars == <<head, prev, next>>

Init ==
  /\ head = [l \in Lists |-> Nil]
  /\ prev = [n \in Nodes |-> Nil] /\ next = [n \in Nodes |-> Nil]

(* f with link n set to v, when there is a node n.                         *)
Set(f, n, v) == IF n = Nil THEN f ELSE [f EXCEPT ![n] = v]

(* The nodes from n on, as iter walks them (a chain is no longer than the  *)
(* number of nodes: one more shows a loop).                               *)
Chain(n) ==
  LET walk[k \in Nat, m \in Nodes \cup {Nil}] ==
        IF m = Nil \/ k = 0 THEN <<>> ELSE <<m>> \o walk[k - 1, next[m]]
  IN walk[Cardinality(Nodes) + 1, n]
Contains(l, n) == \E i \in DOMAIN Chain(head[l]) : Chain(head[l])[i] = n
Loose(n) == \A l \in Lists : ~Contains(l, n)

Push(l, n) ==
  /\ Loose(n)
  /\ next' = [next EXCEPT ![n] = head[l]]
  /\ prev' = Set([prev EXCEPT ![n] = Nil], head[l], n)
  /\ head' = [head EXCEPT ![l] = n]

NextAfterInsert(a, n) == [next EXCEPT ![n] = next[a], ![a] = n]
InsertAfter(l, a, n) ==
  /\ Loose(n) /\ Contains(l, a)
  /\ next' = NextAfterInsert(a, n)
  /\ prev' = Set([prev EXCEPT ![n] = a], next[a], n)
  /\ UNCHANGED head

PrevAfterRemove(n) == [Set(prev, next[n], prev[n]) EXCEPT ![n] = Nil]
Remove(l, n) ==   \* pop removes the head
  /\ Contains(l, n)
  /\ head' = IF prev[n] = Nil THEN [head EXCEPT ![l] = next[n]] ELSE head
  /\ next' = [Set(next, prev[n], next[n]) EXCEPT ![n] = Nil]
  /\ prev' = PrevAfterRemove(n)

(* prepend_adopt: walk to the tail of the other list and tie it to the     *)
(* front of this one.                                                      *)
FirstOf(chain) == chain[1]
TailOf(chain) == chain[Len(chain)]
PrependAdopt(l, other) ==
  /\ l # other
  /\ IF head[other] = Nil THEN UNCHANGED vars
     ELSE LET tail == TailOf(Chain(head[other]))
          IN /\ next' = [next EXCEPT ![tail] = head[l]]
             /\ prev' = Set(prev, head[l], tail)
             /\ head' = [head EXCEPT ![l] = head[other], ![other] = Nil]

Next == \E l \in Lists, n \in Nodes :
  \/ Push(l, n) \/ Remove(l, n)
  \/ \E a \in Nodes : InsertAfter(l, a, n)
  \/ \E other \in Lists : PrependAdopt(l, other)

Spec == Init /\ [][Next]_vars

-----------------------------------------------------------------------------
Abstract == INSTANCE NodeLists WITH order <- [l \in Lists |-> Chain(head[l])]

(* Walking the links from each head gives the lists that the callers of    *)
(* push, insert_after, remove, pop and prepend_adopt think they have: no   *)
(* order of calls strands, duplicates or loops a node.                     *)
ImplementsLists == Abstract!Spec

(* Every prev mirrors a next, and a node in no list has none: the removal  *)
(* that comes next reads both (linked_list.rs:69-82).                      *)
LinksMirror ==
  \A n \in Nodes :
    /\ next[n] # Nil => prev[next[n]] = n
    /\ prev[n] # Nil => next[prev[n]] = n
    /\ Loose(n) => next[n] = Nil /\ prev[n] = Nil
=============================================================================
