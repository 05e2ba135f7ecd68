------------------------------ MODULE WaitSet -------------------------------
(***************************************************************************)
(* src/set.c: an array without order.  A set is a record: items, the used  *)
(* slots in their order, and last, the position set_take has come to.      *)
(* set_take goes round the array, but set_delete fills the hole with the   *)
(* last item, so that the order in which items are taken is nobody's order *)
(* of arrival, and the item that fills the hole is stepped over.           *)
(***************************************************************************)
EXTENDS Integers, Sequences

EmptySet == [items |-> <<>>, last |-> 0]

\* set_append, when the array is large enough or grows.
SetAppend(s, x) == [s EXCEPT !.items = Append(@, x)]

\* The last item is dropped before it has filled the hole.
SetDelete_Fault(s, i) ==
  LET n == Len(s.items) - 1
  IN [s EXCEPT !.items = [k \in 1 .. n |-> IF k = i + 1 THEN s.items[n] ELSE s.items[k]]]

\* set_delete of the item at i, counted from 0.
SetDelete(s, i) ==
  LET n == Len(s.items)
  IN [s EXCEPT !.items = [k \in 1 .. n - 1 |-> IF k = i + 1 THEN s.items[n] ELSE s.items[k]]]

\* set_remove: the first slot that holds x.
SetRemove(s, x) ==
  LET slots == {i \in 1 .. Len(s.items) : s.items[i] = x}
  IN IF slots = {} THEN s
     ELSE SetDelete(s, (CHOOSE i \in slots : \A k \in slots : i <= k) - 1)

\* set_take of a set that is not empty: the position, the item, and what is left.
TakePosition(s) == s.last % Len(s.items)
SetTaken(s) == s.items[TakePosition(s) + 1]
SetTake(s) == [SetDelete(s, TakePosition(s)) EXCEPT !.last = TakePosition(s) + 1]

=============================================================================
