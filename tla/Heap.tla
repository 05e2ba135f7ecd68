-------------------------------- MODULE Heap --------------------------------
(***************************************************************************)
(* src/heap.c: a binary heap in an array whose first element is data[0].   *)
(* A heap is a record: len elements in data, and pos, what h->record has   *)
(* written into each element (heap_index of a job, tickpos of a            *)
(* connection), OutOfHeap for none.  The array has a slot for every item;  *)
(* what is behind the first len slots stays there.  key is the order of    *)
(* h->less: it holds if key[a] < key[b].                                   *)
(***************************************************************************)
EXTENDS Integers, FiniteSets

CONSTANTS
  Items,      \* what a heap may hold
  NoItem      \* a null pointer in the array

OutOfHeap == -1

Slots == 0 .. Cardinality(Items)

EmptyHeap == [len  |-> 0,
              data |-> [k \in Slots |-> NoItem],
              pos  |-> [x \in Items |-> OutOfHeap]]

Contents(h) == {h.data[k] : k \in 0 .. h.len - 1}

\* The position is not recorded.
HeapSet_Fault(h, k, x) == [h EXCEPT !.data[k] = x, !.pos[x] = IF @ = OutOfHeap THEN k ELSE @]

\* heap_set.
HeapSet(h, k, x) == [h EXCEPT !.data[k] = x, !.pos[x] = k]

\* heap_swap.
HeapSwap(h, a, b) == HeapSet(HeapSet(h, a, h.data[b]), b, h.data[a])

\* heap_less.
HeapLess(h, key, a, b) == key[h.data[a]] < key[h.data[b]]

Parent(k) == (k - 1) \div 2

\* Where a turn of heap_siftdown takes the element at k: to its parent, or nowhere.
Higher(h, key, k) == IF k = 0 \/ HeapLess(h, key, Parent(k), k) THEN k ELSE Parent(k)

\* Where a turn of heap_siftup takes it: to the smallest of itself and its children.
Lower(h, key, k) ==
  LET l == 2 * k + 1
      r == 2 * k + 2
      s == IF l < h.len /\ HeapLess(h, key, l, k) THEN l ELSE k
  IN IF r < h.len /\ HeapLess(h, key, r, s) THEN r ELSE s

\* A turn: a heap and the position its element has come to, when it goes on to p.
Turn(s, p) == IF p = s.at THEN s ELSE [heap |-> HeapSwap(s.heap, s.at, p), at |-> p]

\* heap_siftdown: towards the root, in no more turns than there are positions.
SiftDown(h, key, k) ==
  LET turns[n \in 0 .. k] ==
        IF n = 0 THEN [heap |-> h, at |-> k]
        ELSE LET s == turns[n - 1] IN Turn(s, Higher(s.heap, key, s.at))
  IN turns[k].heap

\* heap_siftup: towards the leaves.
SiftUp(h, key, k) ==
  LET turns[n \in 0 .. h.len] ==
        IF n = 0 THEN [heap |-> h, at |-> k]
        ELSE LET s == turns[n - 1] IN Turn(s, Lower(s.heap, key, s.at))
  IN turns[h.len].heap

\* heap_insert, when the array is large enough or grows.
HeapInsert(h, key, x) == SiftDown(HeapSet([h EXCEPT !.len = @ + 1], h.len, x), key, h.len)

\* The last element is moved towards the leaves only.
HeapRemove_Fault(h, key, k) ==
  IF k >= h.len THEN h
  ELSE [SiftUp(HeapSet([h EXCEPT !.len = @ - 1], k, h.data[h.len - 1]), key, k)
          EXCEPT !.pos[h.data[k]] = OutOfHeap]

\* heap_remove of the element at k: the last element takes its place.  When k is
\* the last position the element is set in its own place, behind the heap, and
\* may still be moved from there.
HeapRemove(h, key, k) ==
  IF k >= h.len THEN h
  ELSE LET moved == HeapSet([h EXCEPT !.len = @ - 1], k, h.data[h.len - 1])
       IN [SiftUp(SiftDown(moved, key, k), key, k) EXCEPT !.pos[h.data[k]] = OutOfHeap]

=============================================================================
