-------------------------------- MODULE Hash --------------------------------
(***************************************************************************)
(* src/hash.c: a hash table with chains.  A table is a record: slots,      *)
(* count, and in data a chain of keys for every slot, the first entry      *)
(* first.  The hash of a key is the key (hash_func_int), and the value of  *)
(* an entry is the job that the key is the id of, so that only keys are    *)
(* kept.                                                                   *)
(***************************************************************************)
EXTENDS Integers, Sequences, SequencesExt

CONSTANTS
  InitSlots,    \* HASH_INIT_SLOTS
  ResizeRatio   \* HASH_RESIZE_RATIO

\* A null pointer in ht->data.
NoData == <<>>

\* next_power: HASH_INIT_SLOTS doubled until size slots are there.
NextPower(size) ==
  LET power[k \in 0 .. size] ==
        IF k = 0 THEN InitSlots
        ELSE IF power[k - 1] >= size THEN power[k - 1] ELSE 2 * power[k - 1]
  IN power[size]

\* hash_init.
HashInit(size) ==
  LET n == NextPower(size)
  IN [slots |-> n, count |-> 0, data |-> [i \in 0 .. n - 1 |-> <<>>]]

\* hash_func.
HashSlot(h, key) == key % h.slots

\* All entries, slot by slot, in the order in which they are walked.
Entries(h) == FlattenSeq([i \in 1 .. h.slots |-> h.data[i - 1]])

\* A new entry goes in front of its chain.
HashPut(h, key) == [h EXCEPT !.data[HashSlot(h, key)] = <<key>> \o @, !.count = @ + 1]

\* An entry stays in the slot it was in.
HashResize_Fault(h) ==
  [slots |-> 2 * h.slots, count |-> h.count,
   data  |-> [i \in 0 .. 2 * h.slots - 1 |-> IF i < h.slots THEN h.data[i] ELSE <<>>]]

\* The entries of h go one after the other into the empty table new.
Moved(h, new) ==
  LET old == Entries(h)
      moved[k \in 0 .. Len(old)] == IF k = 0 THEN new ELSE HashPut(moved[k - 1], old[k])
  IN moved[Len(old)]

\* The count of the old table is counted on.
HashResize_Count(h) == Moved(h, [HashInit(2 * h.slots) EXCEPT !.count = h.count])

\* hash_resize.
HashResize(h) == Moved(h, HashInit(2 * h.slots))

\* hash_resize whose calloc fails: the old array is not put back.
HashLost(h) == [slots |-> NextPower(2 * h.slots), count |-> 0, data |-> NoData]

HashFull(h) == h.count \div h.slots >= ResizeRatio

\* The first step of hash_insert.
HashGrown(h) == IF HashFull(h) THEN HashResize(h) ELSE h

\* hash_get_val.
HashHas(h, key) == Contains(h.data[HashSlot(h, key)], key)

\* hash_insert when calloc succeeds; a key that is there gets a new value.
HashInsert(h, key) ==
  LET g == HashGrown(h)
  IN IF HashHas(g, key) THEN g ELSE HashPut(g, key)

\* hash_delete.
HashDelete(h, key) ==
  IF ~ HashHas(h, key) THEN h
  ELSE [h EXCEPT !.data[HashSlot(h, key)] = RemoveFirst(@, key), !.count = @ - 1]

=============================================================================
