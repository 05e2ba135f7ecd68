------------------------------- MODULE DList --------------------------------
(***************************************************************************)
(* src/dlist.c: a doubly linked list.  A list is a record: head, tail, len *)
(* and the next and prev of every node.  A job is in one list at a time    *)
(* (Tasque), so that the node that holds it is named by it; the pointers   *)
(* of a node that is not in the list are null.                             *)
(***************************************************************************)
EXTENDS Integers, Sequences, SequencesExt

CONSTANTS
  Nodes,     \* what a list may hold
  NoNode     \* a null dlist_node pointer

\* dlist_init.
EmptyList == [head |-> NoNode, tail |-> NoNode, len |-> 0,
              next |-> [n \in Nodes |-> NoNode], prev |-> [n \in Nodes |-> NoNode]]

\* The old head is not linked back.
AddHead_Fault(l, n) ==
  [l EXCEPT !.head = n, !.tail = IF @ = NoNode THEN n ELSE @, !.len = @ + 1, !.next[n] = l.head]

\* dlist_add_node_head.
AddHead(l, n) ==
  IF l.len = 0 THEN [l EXCEPT !.head = n, !.tail = n, !.len = 1]
  ELSE [l EXCEPT !.head = n, !.len = @ + 1, !.next[n] = l.head, !.prev[l.head] = n]

\* dlist_add_node_tail.
AddTail(l, n) ==
  IF l.len = 0 THEN [l EXCEPT !.head = n, !.tail = n, !.len = 1]
  ELSE [l EXCEPT !.tail = n, !.len = @ + 1, !.prev[n] = l.tail, !.next[l.tail] = n]

\* The tail stands when the last node goes.
DeleteNode_Fault(l, n) ==
  [head |-> IF l.prev[n] = NoNode THEN l.next[n] ELSE l.head,
   tail |-> l.tail,
   len  |-> l.len - 1,
   next |-> [m \in Nodes |-> IF m = n THEN NoNode ELSE IF m = l.prev[n] THEN l.next[n] ELSE l.next[m]],
   prev |-> [m \in Nodes |-> IF m = n THEN NoNode ELSE IF m = l.next[n] THEN l.prev[n] ELSE l.prev[m]]]

\* dlist_delete_node.
DeleteNode(l, n) ==
  [head |-> IF l.prev[n] = NoNode THEN l.next[n] ELSE l.head,
   tail |-> IF l.next[n] = NoNode THEN l.prev[n] ELSE l.tail,
   len  |-> l.len - 1,
   next |-> [m \in Nodes |-> IF m = n THEN NoNode ELSE IF m = l.prev[n] THEN l.next[n] ELSE l.next[m]],
   prev |-> [m \in Nodes |-> IF m = n THEN NoNode ELSE IF m = l.next[n] THEN l.prev[n] ELSE l.prev[m]]]

\* A turn of dlist_next: the node that it has come to, unless the list is over.
Follow(s, link) ==
  IF s.at = NoNode THEN s ELSE [seen |-> Append(s.seen, s.at), at |-> link[s.at]]

\* The nodes from first on along the pointers of link: what dlist_next returns
\* one after the other, and no more than all of them were the list a ring.
Walk(first, link) ==
  LET turns[k \in 0 .. Cardinality(Nodes) + 1] ==
        IF k = 0 THEN [seen |-> <<>>, at |-> first] ELSE Follow(turns[k - 1], link)
  IN turns[Cardinality(Nodes) + 1].seen

\* dlist_rewind and dlist_next, and the same from dlist_rewind_tail.
Forward(l)  == Walk(l.head, l.next)
Backward(l) == Walk(l.tail, l.prev)

\* dlist_search_key.
SearchKey(l, n) == IF Contains(Forward(l), n) THEN n ELSE NoNode

=============================================================================
