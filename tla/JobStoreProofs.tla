---------------------------- MODULE JobStoreProofs ----------------------------
(* The lists are the same from both ends, the table counts the jobs, and lists  *)
(* and table are the sequences and the set of JobSequences, for every number of *)
(* jobs, connections and slots.                                                 *)
EXTENDS JobStore, RecursionFacts, SequenceTheorems, FiniteSetTheorems

(* Sequences without duplicates.                                                *)

Distinct(s) == s \in Seq(Ids) /\ \A i, k \in 1 .. Len(s) : s[i] = s[k] => i = k

\* s without its i-th element.
Cut(s, i) == [k \in 1 .. Len(s) - 1 |-> IF k < i THEN s[k] ELSE s[k + 1]]

LEMMA Parts ==
  ASSUME NEW s, Distinct(s)
  PROVE  /\ s \in Seq(Ids) /\ Len(s) \in Nat /\ DOMAIN s = 1 .. Len(s)
         /\ \A i \in 1 .. Len(s) : s[i] \in Ids
         /\ \A i, k \in 1 .. Len(s) : s[i] = s[k] => i = k
         /\ \A e : Contains(s, e) <=> e \in ToSet(s)
         /\ \A e : e \in ToSet(s) <=> \E i \in 1 .. Len(s) : s[i] = e
<1>1. s \in Seq(Ids) /\ \A i, k \in 1 .. Len(s) : s[i] = s[k] => i = k
  BY DEF Distinct
<1>2. Len(s) \in Nat /\ DOMAIN s = 1 .. Len(s) /\ \A i \in 1 .. Len(s) : s[i] \in Ids
  BY <1>1, LenProperties, ElementOfSeq
<1>3. ASSUME NEW e  PROVE e \in ToSet(s) <=> \E i \in 1 .. Len(s) : s[i] = e
  BY <1>2, Zenon DEF ToSet
<1>4. ASSUME NEW e  PROVE Contains(s, e) <=> e \in ToSet(s)
  BY <1>3, Zenon DEF Contains
<1>. QED BY <1>1, <1>2, <1>3, <1>4, Zenon

\* A function on 1 .. n is a sequence.
LEMMA FunctionSeq ==
  ASSUME NEW S, NEW n \in Nat, NEW q, q = [k \in 1 .. n |-> q[k]], \A k \in 1 .. n : q[k] \in S
  PROVE  q \in Seq(S) /\ Len(q) = n
<1>1. q \in [1 .. n -> S]
  OBVIOUS
<1>. QED BY <1>1

\* Sequences with the same elements in the same places are the same.
LEMMA SameSeq ==
  ASSUME NEW s \in Seq(Ids), NEW t \in Seq(Ids), Len(s) = Len(t), \A k \in 1 .. Len(s) : s[k] = t[k]
  PROVE  s = t
BY SeqEqual

\* What is left when an element is taken out.
LEMMA CutIs ==
  ASSUME NEW s, Distinct(s), NEW i \in 1 .. Len(s)
  PROVE  /\ Distinct(Cut(s, i)) /\ Len(Cut(s, i)) = Len(s) - 1
         /\ \A k \in 1 .. Len(s) - 1 : Cut(s, i)[k] = IF k < i THEN s[k] ELSE s[k + 1]
         /\ ToSet(Cut(s, i)) = ToSet(s) \ {s[i]}
<1>. DEFINE n == Len(s) - 1
            q == Cut(s, i)
<1>1. /\ n \in Nat /\ Len(s) = n + 1 /\ i \in 1 .. n + 1
      /\ \A k \in 1 .. n + 1 : s[k] \in Ids
      /\ \A k, m \in 1 .. n + 1 : s[k] = s[m] => k = m
      /\ \A e : e \in ToSet(s) <=> \E k \in 1 .. n + 1 : s[k] = e
  <2>1. Len(s) \in Nat
    BY Parts
  <2>2. n \in Nat /\ Len(s) = n + 1
    BY <2>1
  <2>. QED BY <2>1, <2>2, Parts
<1>2. q = [k \in 1 .. n |-> q[k]] /\ \A k \in 1 .. n : q[k] = IF k < i THEN s[k] ELSE s[k + 1]
  BY DEF Cut
<1>3. Len(q) = Len(s) - 1 => Len(q) = n
  OBVIOUS
<1>. HIDE DEF n, q
<1>4. ASSUME NEW k \in 1 .. n
      PROVE  \E m \in 1 .. n + 1 : /\ q[k] = s[m] /\ m # i
                                   /\ (k < i => m = k) /\ (~ (k < i) => m = k + 1)
  BY <1>1, <1>2
<1>5. \A k \in 1 .. n : q[k] \in Ids /\ q[k] # s[i]
  BY <1>1, <1>4
<1>6. q \in Seq(Ids) /\ Len(q) = n
  BY <1>1, <1>2, <1>5, FunctionSeq
<1>7. ASSUME NEW k \in 1 .. n, NEW m \in 1 .. n, q[k] = q[m]  PROVE k = m
  <2>1. PICK a \in 1 .. n + 1 : q[k] = s[a] /\ (k < i => a = k) /\ (~ (k < i) => a = k + 1)
    BY <1>4
  <2>2. PICK b \in 1 .. n + 1 : q[m] = s[b] /\ (m < i => b = m) /\ (~ (m < i) => b = m + 1)
    BY <1>4
  <2>3. a = b
    BY <1>1, <1>7, <2>1, <2>2
  <2>. QED BY <1>1, <2>1, <2>2, <2>3
<1>8. Distinct(q)
  BY <1>6, <1>7 DEF Distinct
<1>9. ToSet(q) = ToSet(s) \ {s[i]}
  <2>1. \A e : e \in ToSet(q) <=> \E k \in 1 .. n : q[k] = e
    BY <1>6, <1>8, Parts
  <2>2. ASSUME NEW e \in ToSet(q)  PROVE e \in ToSet(s) \ {s[i]}
    BY <1>1, <1>4, <2>1, <2>2
  <2>3. ASSUME NEW e \in ToSet(s) \ {s[i]}  PROVE e \in ToSet(q)
    <3>1. PICK m \in 1 .. n + 1 : s[m] = e /\ m # i
      BY <1>1, <2>3
    <3>2. CASE m < i
      <4>1. m \in 1 .. n /\ q[m] = e
        BY <1>1, <1>2, <3>1, <3>2
      <4>. QED BY <2>1, <4>1
    <3>3. CASE ~ (m < i)
      <4>1. m - 1 \in 1 .. n /\ ~ (m - 1 < i) /\ (m - 1) + 1 = m
        BY <1>1, <3>1, <3>3
      <4>2. q[m - 1] = e
        BY <1>2, <3>1, <4>1
      <4>. QED BY <2>1, <4>1, <4>2
    <3>. QED BY <3>2, <3>3
  <2>. QED BY <2>2, <2>3
<1>. QED BY <1>1, <1>2, <1>6, <1>8, <1>9 DEF n, q

\* RemoveFirst takes the element out.
LEMMA RemoveIs ==
  ASSUME NEW s, Distinct(s), NEW i \in 1 .. Len(s)
  PROVE  RemoveFirst(s, s[i]) = Cut(s, i)
<1>. s \in Seq(Ids) /\ Len(s) \in Nat
  BY Parts
<1>. DEFINE I == {k \in 1 .. Len(s) : s[k] = s[i]}
<1>1. I = {i}
  BY Parts
<1>2. SelectInSeq(s, LAMBDA v : v = s[i]) = i
  <2>1. SelectInSeq(s, LAMBDA v : v = s[i]) = IF I # {} THEN Min(I) ELSE 0
    BY DEF SelectInSeq
  <2>2. Min({i}) = i
    BY DEF Min
  <2>. QED BY <1>1, <2>1, <2>2
<1>3. RemoveFirst(s, s[i]) = SubSeq(s, 1, i - 1) \o SubSeq(s, i + 1, Len(s))
  BY <1>2 DEF RemoveFirst, RemoveAt
<1>. DEFINE a == SubSeq(s, 1, i - 1)
            b == SubSeq(s, i + 1, Len(s))
<1>4. /\ a \in Seq(Ids) /\ Len(a) = i - 1 /\ \A k \in 1 .. i - 1 : a[k] = s[k]
  <2>1. \A k \in 1 .. i - 1 : s[k] \in Ids
    BY Parts
  <2>2. 1 \in Int /\ i - 1 \in Int
    OBVIOUS
  <2>3. /\ a \in Seq(Ids) /\ Len(a) = IF 1 <= i - 1 THEN (i - 1) - 1 + 1 ELSE 0
        /\ \A k \in 1 .. (i - 1) - 1 + 1 : a[k] = s[1 + k - 1]
    BY <2>1, <2>2, SubSeqProperties
  <2>4. Len(a) = i - 1 /\ \A k \in 1 .. i - 1 : k \in 1 .. (i - 1) - 1 + 1 /\ 1 + k - 1 = k
    BY <2>3
  <2>. QED BY <2>3, <2>4
<1>5. /\ b \in Seq(Ids) /\ Len(b) = Len(s) - i /\ \A k \in 1 .. Len(s) - i : b[k] = s[i + k]
  <2>1. \A k \in i + 1 .. Len(s) : s[k] \in Ids
    BY Parts
  <2>2. i + 1 \in Int /\ Len(s) \in Int
    OBVIOUS
  <2>3. /\ b \in Seq(Ids) /\ Len(b) = IF i + 1 <= Len(s) THEN Len(s) - (i + 1) + 1 ELSE 0
        /\ \A k \in 1 .. Len(s) - (i + 1) + 1 : b[k] = s[(i + 1) + k - 1]
    BY <2>1, <2>2, SubSeqProperties
  <2>4. /\ Len(b) = Len(s) - i
        /\ \A k \in 1 .. Len(s) - i : k \in 1 .. Len(s) - (i + 1) + 1 /\ (i + 1) + k - 1 = i + k
    BY <2>3
  <2>. QED BY <2>3, <2>4
<1>. HIDE DEF a, b
<1>6. /\ a \o b \in Seq(Ids) /\ Len(a \o b) = Len(s) - 1
      /\ \A k \in 1 .. Len(s) - 1 : (a \o b)[k] = IF k <= i - 1 THEN a[k] ELSE b[k - (i - 1)]
  <2>1. (i - 1) + (Len(s) - i) = Len(s) - 1
    OBVIOUS
  <2>2. /\ a \o b \in Seq(Ids) /\ Len(a \o b) = Len(a) + Len(b)
        /\ \A k \in 1 .. Len(a) + Len(b) : (a \o b)[k] = IF k <= Len(a) THEN a[k] ELSE b[k - Len(a)]
    BY <1>4, <1>5, ConcatProperties, Zenon
  <2>3. Len(a) + Len(b) = Len(s) - 1
    BY <1>4, <1>5, <2>1
  <2>. QED BY <1>4, <2>2, <2>3, Zenon
<1>7. ASSUME NEW k \in 1 .. Len(s) - 1  PROVE (a \o b)[k] = Cut(s, i)[k]
  <2>1. CASE k < i
    <3>1. k <= i - 1 /\ k \in 1 .. i - 1
      BY <2>1
    <3>. QED BY <1>4, <1>6, <2>1, <3>1, CutIs
  <2>2. CASE ~ (k < i)
    <3>1. ~ (k <= i - 1) /\ k - (i - 1) \in 1 .. Len(s) - i /\ i + (k - (i - 1)) = k + 1
      BY <2>2
    <3>2. (a \o b)[k] = s[k + 1]
      BY <1>5, <1>6, <3>1
    <3>. QED BY <2>2, <3>2, CutIs
  <2>. QED BY <2>1, <2>2
<1>8. a \o b = Cut(s, i)
  <2>1. Cut(s, i) \in Seq(Ids) /\ Len(Cut(s, i)) = Len(s) - 1
    BY CutIs DEF Distinct
  <2>. QED BY <1>6, <1>7, <2>1, SameSeq, Zenon
<1>. QED BY <1>3, <1>8 DEF a, b

\* The first element taken out.
LEMMA CutFirst ==
  ASSUME NEW s, Distinct(s), s # <<>>
  PROVE  /\ 1 \in 1 .. Len(s) /\ Head(s) = s[1] /\ Tail(s) = Cut(s, 1)
<1>. s \in Seq(Ids) /\ Len(s) \in Nat
  BY Parts
<1>1. 1 \in 1 .. Len(s) /\ Head(s) = s[1]
  OBVIOUS
<1>2. Tail(s) \in Seq(Ids) /\ Len(Tail(s)) = Len(s) - 1 /\ \A k \in 1 .. Len(s) - 1 : Tail(s)[k] = s[k + 1]
  BY HeadTailProperties
<1>3. \A k \in 1 .. Len(s) - 1 : Cut(s, 1)[k] = s[k + 1]
  BY <1>1, CutIs
<1>4. Tail(s) = Cut(s, 1)
  BY <1>1, <1>2, <1>3, CutIs, SameSeq DEF Distinct
<1>. QED BY <1>1, <1>4

\* A new element in front, and behind.
LEMMA PushIs ==
  ASSUME NEW s, Distinct(s), NEW j \in Ids \ ToSet(s)
  PROVE  /\ Distinct(<<j>> \o s) /\ Len(<<j>> \o s) = Len(s) + 1 /\ (<<j>> \o s)[1] = j
         /\ \A k \in 1 .. Len(s) : (<<j>> \o s)[k + 1] = s[k]
         /\ ToSet(<<j>> \o s) = ToSet(s) \union {j}
<1>1. /\ s \in Seq(Ids) /\ Len(s) \in Nat
      /\ \A i \in 1 .. Len(s) : s[i] \in Ids
      /\ \A i, k \in 1 .. Len(s) : s[i] = s[k] => i = k
      /\ \A e : e \in ToSet(s) <=> \E i \in 1 .. Len(s) : s[i] = e
  BY Parts
<1>2. PICK n \in Nat : n = Len(s)
  BY <1>1
<1>3. PICK t : n = Len(s) /\ t = <<j>> \o s
  BY <1>2
<1>4. t \in Seq(Ids) /\ Len(t) = n + 1 /\ \A k \in 1 .. n + 1 : t[k] = IF k = 1 THEN j ELSE s[k - 1]
  <2>1. <<j>> \in Seq(Ids) /\ Len(<<j>>) = 1 /\ <<j>>[1] = j
    OBVIOUS
  <2>2. t \in Seq(Ids) /\ Len(t) = 1 + n /\ \A k \in 1 .. 1 + n : t[k] = IF k <= 1 THEN <<j>>[k] ELSE s[k - 1]
    BY <1>1, <1>3, <2>1, ConcatProperties
  <2>3. 1 + n = n + 1 /\ \A k \in 1 .. n + 1 : k <= 1 <=> k = 1
    OBVIOUS
  <2>. QED BY <2>1, <2>2, <2>3
<1>5. t[1] = j /\ \A k \in 1 .. n : t[k + 1] = s[k]
  <2>1. 1 \in 1 .. n + 1 /\ \A k \in 1 .. n : k + 1 \in 1 .. n + 1 /\ k + 1 # 1 /\ (k + 1) - 1 = k
    OBVIOUS
  <2>. QED BY <1>4, <2>1
<1>6. \A k \in 1 .. n + 1 : k = 1 \/ \E m \in 1 .. n : k = m + 1
  <2>1. \A k \in 1 .. n + 1 : k # 1 => k - 1 \in 1 .. n /\ k = (k - 1) + 1
    OBVIOUS
  <2>. QED BY <2>1
<1>7. ASSUME NEW a \in 1 .. n + 1, NEW b \in 1 .. n + 1, t[a] = t[b]  PROVE a = b
  <2>1. \A m \in 1 .. n : t[m + 1] = s[m] /\ s[m] # j
    BY <1>1, <1>3, <1>5
  <2>2. CASE a = 1 \/ b = 1
    BY <1>5, <1>6, <1>7, <2>1, <2>2
  <2>3. CASE a # 1 /\ b # 1
    <3>1. PICK x, y \in 1 .. n : a = x + 1 /\ b = y + 1
      BY <1>6, <2>3
    <3>2. s[x] = s[y]
      BY <1>7, <2>1, <3>1
    <3>. QED BY <1>1, <1>3, <3>1, <3>2
  <2>. QED BY <2>2, <2>3
<1>8. Distinct(t)
  BY <1>4, <1>7 DEF Distinct
<1>9. ToSet(t) = ToSet(s) \union {j}
  <2>1. \A e : e \in ToSet(t) <=> \E k \in 1 .. n + 1 : t[k] = e
    BY <1>4, <1>8, Parts
  <2>2. ASSUME NEW e  PROVE e \in ToSet(t) <=> e = j \/ \E k \in 1 .. n : s[k] = e
    <3>1. 1 \in 1 .. n + 1 /\ \A k \in 1 .. n : k + 1 \in 1 .. n + 1
      OBVIOUS
    <3>. QED BY <1>5, <1>6, <2>1, <3>1
  <2>. QED BY <1>1, <1>3, <2>2
<1>. QED BY <1>3, <1>4, <1>5, <1>8, <1>9

LEMMA AppendIs ==
  ASSUME NEW s, Distinct(s), NEW j \in Ids \ ToSet(s)
  PROVE  /\ Distinct(Append(s, j)) /\ Len(Append(s, j)) = Len(s) + 1
         /\ Append(s, j)[Len(s) + 1] = j
         /\ \A k \in 1 .. Len(s) : Append(s, j)[k] = s[k]
         /\ ToSet(Append(s, j)) = ToSet(s) \union {j}
<1>1. /\ s \in Seq(Ids) /\ Len(s) \in Nat
      /\ \A i, k \in 1 .. Len(s) : s[i] = s[k] => i = k
      /\ \A e : e \in ToSet(s) <=> \E i \in 1 .. Len(s) : s[i] = e
  BY Parts
<1>2. PICK n \in Nat : n = Len(s)
  BY <1>1
<1>3. PICK t : n = Len(s) /\ t = Append(s, j)
  BY <1>2
<1>4. t \in Seq(Ids) /\ Len(t) = n + 1 /\ t[n + 1] = j /\ \A k \in 1 .. n : t[k] = s[k]
  BY <1>1, <1>3, AppendProperties
<1>5. n + 1 \in 1 .. n + 1 /\ \A k \in 1 .. n + 1 : k = n + 1 \/ k \in 1 .. n
  OBVIOUS
<1>6. \A k \in 1 .. n : t[k] # j /\ k \in 1 .. n + 1
  BY <1>1, <1>3, <1>4
<1>7. ASSUME NEW a \in 1 .. n + 1, NEW b \in 1 .. n + 1, t[a] = t[b]  PROVE a = b
  BY <1>1, <1>3, <1>4, <1>5, <1>6, <1>7
<1>8. Distinct(t)
  BY <1>4, <1>7 DEF Distinct
<1>9. ToSet(t) = ToSet(s) \union {j}
  <2>1. \A e : e \in ToSet(t) <=> \E k \in 1 .. n + 1 : t[k] = e
    BY <1>4, <1>8, Parts
  <2>2. ASSUME NEW e  PROVE e \in ToSet(t) <=> e = j \/ \E k \in 1 .. n : s[k] = e
    BY <1>4, <1>5, <1>6, <2>1
  <2>. QED BY <1>1, <1>3, <2>2
<1>. QED BY <1>3, <1>4, <1>8, <1>9

(* The lists.                                                                   *)

Links == Ids \union {0}

IsList(l) ==
  l \in [head : Links, tail : Links, len : Int, next : [Ids -> Links], prev : [Ids -> Links]]

\* What a pointer to the place k of s holds.
At(s, k) == IF k \in 1 .. Len(s) THEN s[k] ELSE 0

\* The pointers of l hold the elements of s together.
Linked(l, s) ==
  /\ IsList(l) /\ Distinct(s)
  /\ l.len = Len(s) /\ l.head = At(s, 1) /\ l.tail = At(s, Len(s))
  /\ \A k \in 1 .. Len(s) : l.next[s[k]] = At(s, k + 1) /\ l.prev[s[k]] = At(s, k - 1)
  /\ \A j \in Ids \ ToSet(s) : l.next[j] = 0 /\ l.prev[j] = 0

LEMMA LinkedParts ==
  ASSUME NEW l, NEW s, Linked(l, s)
  PROVE  /\ IsList(l) /\ Distinct(s) /\ Len(s) \in Nat
         /\ l.len = Len(s) /\ l.head = At(s, 1) /\ l.tail = At(s, Len(s))
         /\ \A k \in 1 .. Len(s) : l.next[s[k]] = At(s, k + 1) /\ l.prev[s[k]] = At(s, k - 1)
         /\ \A j \in Ids \ ToSet(s) : l.next[j] = 0 /\ l.prev[j] = 0
BY Parts DEF Linked

LEMMA EmptyLinked == Linked(L!EmptyList, <<>>)
<1>1. IsList(L!EmptyList)
  BY StoreAssumption DEF L!EmptyList, IsList, Links, Ids
<1>2. <<>> \in Seq(Ids) /\ Len(<<>>) = 0
  OBVIOUS
<1>3. Distinct(<<>>)
  BY <1>2 DEF Distinct
<1>. QED BY <1>1, <1>2, <1>3 DEF L!EmptyList, Linked, At

\* A list after dlist_add_node_head.
LEMMA AddHeadEmpty ==
  ASSUME NEW l, IsList(l), NEW j \in Ids, l.len = 0
  PROVE  /\ L!AddHead(l, j) = [head |-> j, tail |-> j, len |-> 1, next |-> l.next, prev |-> l.prev]
         /\ IsList(L!AddHead(l, j))
<1>1. L!AddHead(l, j) = [head |-> j, tail |-> j, len |-> 1, next |-> l.next, prev |-> l.prev]
  BY DEF L!AddHead, IsList
<1>2. IsList([head |-> j, tail |-> j, len |-> 1, next |-> l.next, prev |-> l.prev])
  BY DEF IsList, Links
<1>. QED BY <1>1, <1>2

LEMMA AddHeadMore ==
  ASSUME NEW l, IsList(l), NEW j \in Ids, l.len # 0, l.head \in Ids
  PROVE  /\ L!AddHead(l, j) = [head |-> j, tail |-> l.tail, len |-> l.len + 1,
                               next |-> [l.next EXCEPT ![j] = l.head],
                               prev |-> [l.prev EXCEPT ![l.head] = j]]
         /\ IsList(L!AddHead(l, j))
<1>. DEFINE g == [head |-> j, tail |-> l.tail, len |-> l.len + 1,
                 next |-> [l.next EXCEPT ![j] = l.head], prev |-> [l.prev EXCEPT ![l.head] = j]]
<1>1. L!AddHead(l, j) = g
  BY DEF L!AddHead, IsList
<1>2. IsList(g)
  BY DEF IsList, Links
<1>. QED BY <1>1, <1>2

\* dlist_add_node_head.
LEMMA AddHeadLinked ==
  ASSUME NEW l, NEW s, Linked(l, s), NEW j \in Ids \ ToSet(s)
  PROVE  Linked(L!AddHead(l, j), <<j>> \o s)
<1>. DEFINE g == L!AddHead(l, j)
<1>1. /\ IsList(l) /\ Distinct(s) /\ Len(s) \in Nat
      /\ l.len = Len(s) /\ l.head = At(s, 1) /\ l.tail = At(s, Len(s))
      /\ \A k \in 1 .. Len(s) : l.next[s[k]] = At(s, k + 1) /\ l.prev[s[k]] = At(s, k - 1)
      /\ \A i \in Ids \ ToSet(s) : l.next[i] = 0 /\ l.prev[i] = 0
  BY LinkedParts, Zenon
<1>2. /\ \A i \in 1 .. Len(s) : s[i] \in Ids
      /\ \A i, k \in 1 .. Len(s) : s[i] = s[k] => i = k
      /\ \A e : e \in ToSet(s) <=> \E i \in 1 .. Len(s) : s[i] = e
  BY <1>1, Parts, Zenon
<1>3. \A i \in Ids : i # 0
  BY StoreAssumption DEF Ids
<1>4. PICK n \in Nat : n = Len(s)
  BY <1>1
<1>5. PICK t : /\ n = Len(s) /\ t = <<j>> \o s
               /\ Distinct(t) /\ Len(t) = n + 1 /\ t[1] = j
               /\ \A k \in 1 .. n : t[k + 1] = s[k]
               /\ ToSet(t) = ToSet(s) \union {j}
  <2>1. PICK t : t = <<j>> \o s
    OBVIOUS
  <2>2. /\ Distinct(t) /\ Len(t) = Len(s) + 1 /\ t[1] = j
        /\ \A k \in 1 .. Len(s) : t[k + 1] = s[k]
        /\ ToSet(t) = ToSet(s) \union {j}
    BY <1>1, <2>1, PushIs
  <2>. QED BY <1>4, <2>1, <2>2
<1>6. CASE n = 0
  <2>1. l.len = 0
    BY <1>1, <1>5, <1>6
  <2>2. IsList(g) /\ g.head = j /\ g.tail = j /\ g.len = 1 /\ g.next = l.next /\ g.prev = l.prev
    BY <1>1, <2>1, AddHeadEmpty
  <2>3. \A i \in Ids : g.next[i] = 0 /\ g.prev[i] = 0
    BY <1>1, <1>2, <1>5, <1>6, <2>2
  <2>. QED BY <1>5, <1>6, <2>2, <2>3 DEF Linked, At
<1>7. CASE n # 0
  <2>1. l.head = s[1] /\ l.tail = s[n] /\ s[1] \in Ids /\ s[1] # j
    BY <1>1, <1>2, <1>5, <1>7 DEF At
  <2>2. l.len # 0 /\ l.len = n
    BY <1>1, <1>5, <1>7
  <2>3. /\ IsList(g)
        /\ g = [head |-> j, tail |-> l.tail, len |-> l.len + 1,
                next |-> [l.next EXCEPT ![j] = l.head], prev |-> [l.prev EXCEPT ![l.head] = j]]
    BY <1>1, <2>1, <2>2, AddHeadMore
  <2>. HIDE DEF g
  <2>4. /\ IsList(g) /\ g.head = j /\ g.tail = s[n] /\ g.len = n + 1
        /\ g.next = [l.next EXCEPT ![j] = s[1]] /\ g.prev = [l.prev EXCEPT ![s[1]] = j]
    BY <2>1, <2>2, <2>3
  <2>5. /\ \A i \in Ids : g.next[i] = IF i = j THEN s[1] ELSE l.next[i]
        /\ \A i \in Ids : g.prev[i] = IF i = s[1] THEN j ELSE l.prev[i]
    BY <1>1, <2>1, <2>4 DEF IsList
  <2>6. t[n + 1] = s[n] /\ 1 \in 1 .. n /\ n \in 1 .. n /\ t[2] = s[1]
    BY <1>5, <1>7
  <2>7. ASSUME NEW k \in 1 .. n + 1  PROVE g.next[t[k]] = At(t, k + 1) /\ g.prev[t[k]] = At(t, k - 1)
    <3>1. CASE k = 1
      <4>1. l.prev[j] = 0
        BY <1>1
      <4>. QED BY <1>5, <1>7, <2>1, <2>5, <2>6, <3>1, <4>1 DEF At
    <3>2. CASE k # 1
      <4>1. PICK m \in 1 .. n : k = m + 1
        <5>1. k - 1 \in 1 .. n /\ k = (k - 1) + 1
          BY <3>2
        <5>. QED BY <5>1
      <4>2. t[k] = s[m] /\ s[m] \in Ids /\ s[m] # j /\ (s[m] = s[1] <=> m = 1)
        BY <1>2, <1>5, <2>6, <4>1
      <4>3. l.next[s[m]] = At(s, m + 1) /\ l.prev[s[m]] = At(s, m - 1)
        BY <1>1, <1>5
      <4>4. g.next[t[k]] = At(s, m + 1)
        BY <2>5, <4>2, <4>3, Zenon
      <4>5. g.prev[t[k]] = IF m = 1 THEN j ELSE At(s, m - 1)
        BY <2>5, <4>2, <4>3, Zenon
      <4>6. At(s, m + 1) = At(t, k + 1)
        BY <1>5, <4>1 DEF At
      <4>7. (IF m = 1 THEN j ELSE At(s, m - 1)) = At(t, k - 1)
        <5>1. CASE m = 1
          BY <1>5, <4>1, <5>1 DEF At
        <5>2. CASE m # 1
          <6>1. m - 1 \in 1 .. n /\ (m - 1) + 1 = k - 1 /\ k - 1 \in 1 .. n + 1
            BY <4>1, <5>2
          <6>. QED BY <1>5, <5>2, <6>1 DEF At
        <5>. QED BY <5>1, <5>2
      <4>. QED BY <4>4, <4>5, <4>6, <4>7
    <3>. QED BY <3>1, <3>2
  <2>8. ASSUME NEW i \in Ids \ ToSet(t)  PROVE g.next[i] = 0 /\ g.prev[i] = 0
    <3>1. i # j /\ i \notin ToSet(s) /\ s[1] \in ToSet(s)
      BY <1>2, <1>5, <2>6
    <3>. QED BY <1>1, <2>5, <3>1
  <2>9. At(t, 1) = j /\ At(t, Len(t)) = s[n]
    BY <1>5, <2>6 DEF At
  <2>. QED BY <1>5, <2>4, <2>7, <2>8, <2>9 DEF Linked, g
<1>. QED BY <1>5, <1>6, <1>7

\* A list after dlist_add_node_tail.
LEMMA AddTailEmpty ==
  ASSUME NEW l, IsList(l), NEW j \in Ids, l.len = 0
  PROVE  /\ L!AddTail(l, j) = [head |-> j, tail |-> j, len |-> 1, next |-> l.next, prev |-> l.prev]
         /\ IsList(L!AddTail(l, j))
<1>1. L!AddTail(l, j) = [head |-> j, tail |-> j, len |-> 1, next |-> l.next, prev |-> l.prev]
  BY DEF L!AddTail, IsList
<1>2. IsList([head |-> j, tail |-> j, len |-> 1, next |-> l.next, prev |-> l.prev])
  BY DEF IsList, Links
<1>. QED BY <1>1, <1>2

LEMMA AddTailMore ==
  ASSUME NEW l, IsList(l), NEW j \in Ids, l.len # 0, l.tail \in Ids
  PROVE  /\ L!AddTail(l, j) = [head |-> l.head, tail |-> j, len |-> l.len + 1,
                               next |-> [l.next EXCEPT ![l.tail] = j],
                               prev |-> [l.prev EXCEPT ![j] = l.tail]]
         /\ IsList(L!AddTail(l, j))
<1>. DEFINE g == [head |-> l.head, tail |-> j, len |-> l.len + 1,
                 next |-> [l.next EXCEPT ![l.tail] = j], prev |-> [l.prev EXCEPT ![j] = l.tail]]
<1>1. L!AddTail(l, j) = g
  BY DEF L!AddTail, IsList
<1>2. IsList(g)
  BY DEF IsList, Links
<1>. QED BY <1>1, <1>2

\* dlist_add_node_tail.
LEMMA AddTailLinked ==
  ASSUME NEW l, NEW s, Linked(l, s), NEW j \in Ids \ ToSet(s)
  PROVE  Linked(L!AddTail(l, j), Append(s, j))
<1>. DEFINE g == L!AddTail(l, j)
<1>1. /\ IsList(l) /\ Distinct(s) /\ Len(s) \in Nat
      /\ l.len = Len(s) /\ l.head = At(s, 1) /\ l.tail = At(s, Len(s))
      /\ \A k \in 1 .. Len(s) : l.next[s[k]] = At(s, k + 1) /\ l.prev[s[k]] = At(s, k - 1)
      /\ \A i \in Ids \ ToSet(s) : l.next[i] = 0 /\ l.prev[i] = 0
  BY LinkedParts, Zenon
<1>2. /\ \A i \in 1 .. Len(s) : s[i] \in Ids
      /\ \A i, k \in 1 .. Len(s) : s[i] = s[k] => i = k
      /\ \A e : e \in ToSet(s) <=> \E i \in 1 .. Len(s) : s[i] = e
  BY <1>1, Parts, Zenon
<1>3. PICK n \in Nat : n = Len(s)
  BY <1>1
<1>4. PICK t : /\ n = Len(s) /\ t = Append(s, j)
               /\ Distinct(t) /\ Len(t) = n + 1 /\ t[n + 1] = j
               /\ \A k \in 1 .. n : t[k] = s[k]
               /\ ToSet(t) = ToSet(s) \union {j}
  <2>1. PICK t : t = Append(s, j)
    OBVIOUS
  <2>2. /\ Distinct(t) /\ Len(t) = Len(s) + 1 /\ t[Len(s) + 1] = j
        /\ \A k \in 1 .. Len(s) : t[k] = s[k]
        /\ ToSet(t) = ToSet(s) \union {j}
    BY <1>1, <2>1, AppendIs
  <2>. QED BY <1>3, <2>1, <2>2
<1>5. CASE n = 0
  <2>1. l.len = 0
    BY <1>1, <1>4, <1>5
  <2>2. IsList(g) /\ g.head = j /\ g.tail = j /\ g.len = 1 /\ g.next = l.next /\ g.prev = l.prev
    BY <1>1, <2>1, AddTailEmpty
  <2>3. \A i \in Ids : g.next[i] = 0 /\ g.prev[i] = 0
    BY <1>1, <1>2, <1>4, <1>5, <2>2
  <2>. QED BY <1>4, <1>5, <2>2, <2>3 DEF Linked, At
<1>6. CASE n # 0
  <2>1. l.head = s[1] /\ l.tail = s[n] /\ s[1] \in Ids /\ s[n] \in Ids /\ s[n] # j
    BY <1>1, <1>2, <1>4, <1>6 DEF At
  <2>2. l.len # 0 /\ l.len = n
    BY <1>1, <1>4, <1>6
  <2>3. /\ IsList(g)
        /\ g = [head |-> l.head, tail |-> j, len |-> l.len + 1,
                next |-> [l.next EXCEPT ![l.tail] = j], prev |-> [l.prev EXCEPT ![j] = l.tail]]
    BY <1>1, <2>1, <2>2, AddTailMore
  <2>. HIDE DEF g
  <2>4. /\ g.head = s[1] /\ g.tail = j /\ g.len = n + 1
        /\ g.next = [l.next EXCEPT ![s[n]] = j] /\ g.prev = [l.prev EXCEPT ![j] = s[n]]
    BY <2>1, <2>2, <2>3
  <2>5. /\ \A i \in Ids : g.next[i] = IF i = s[n] THEN j ELSE l.next[i]
        /\ \A i \in Ids : g.prev[i] = IF i = j THEN s[n] ELSE l.prev[i]
    BY <1>1, <2>1, <2>4 DEF IsList
  <2>6. 1 \in 1 .. n /\ n \in 1 .. n /\ t[1] = s[1] /\ t[n] = s[n]
    BY <1>4, <1>6
  <2>7. ASSUME NEW k \in 1 .. n + 1  PROVE g.next[t[k]] = At(t, k + 1) /\ g.prev[t[k]] = At(t, k - 1)
    <3>1. CASE k = n + 1
      <4>1. l.next[j] = 0
        BY <1>1
      <4>. QED BY <1>4, <1>6, <2>1, <2>5, <2>6, <3>1, <4>1 DEF At
    <3>2. CASE k # n + 1
      <4>1. k \in 1 .. n /\ k - 1 \in 0 .. n
        BY <3>2
      <4>2. t[k] = s[k] /\ s[k] \in Ids /\ s[k] # j /\ (s[k] = s[n] <=> k = n)
        BY <1>2, <1>4, <2>6, <4>1
      <4>3. l.next[s[k]] = At(s, k + 1) /\ l.prev[s[k]] = At(s, k - 1)
        BY <1>1, <1>4, <4>1
      <4>4. g.next[t[k]] = IF k = n THEN j ELSE At(s, k + 1)
        BY <2>5, <4>2, <4>3, Zenon
      <4>5. g.prev[t[k]] = At(s, k - 1)
        BY <2>5, <4>2, <4>3, Zenon
      <4>6. At(s, k - 1) = At(t, k - 1)
        BY <1>4, <4>1 DEF At
      <4>7. (IF k = n THEN j ELSE At(s, k + 1)) = At(t, k + 1)
        BY <1>4, <4>1 DEF At
      <4>. QED BY <4>4, <4>5, <4>6, <4>7
    <3>. QED BY <3>1, <3>2
  <2>8. ASSUME NEW i \in Ids \ ToSet(t)  PROVE g.next[i] = 0 /\ g.prev[i] = 0
    <3>1. i # j /\ i \notin ToSet(s) /\ s[n] \in ToSet(s)
      BY <1>2, <1>4, <2>6
    <3>. QED BY <1>1, <2>5, <3>1
  <2>9. At(t, 1) = s[1] /\ At(t, Len(t)) = j
    BY <1>4, <2>6 DEF At
  <2>. QED BY <1>4, <2>3, <2>4, <2>7, <2>8, <2>9 DEF Linked, g
<1>. QED BY <1>4, <1>5, <1>6

\* A list after dlist_delete_node.
DeletedFrom(l, j, a, b) ==
  [head |-> IF a = 0 THEN b ELSE l.head, tail |-> IF b = 0 THEN a ELSE l.tail,
   len  |-> l.len - 1,
   next |-> [m \in Ids |-> IF m = j THEN 0 ELSE IF m = a THEN b ELSE l.next[m]],
   prev |-> [m \in Ids |-> IF m = j THEN 0 ELSE IF m = b THEN a ELSE l.prev[m]]]

LEMMA DeleteFields ==
  ASSUME NEW l, IsList(l), NEW j \in Ids
  PROVE  /\ L!DeleteNode(l, j) = DeletedFrom(l, j, l.prev[j], l.next[j])
         /\ IsList(DeletedFrom(l, j, l.prev[j], l.next[j]))
<1>1. L!DeleteNode(l, j) = DeletedFrom(l, j, l.prev[j], l.next[j])
  BY DEF L!DeleteNode, DeletedFrom
<1>2. IsList(DeletedFrom(l, j, l.prev[j], l.next[j]))
  BY DEF DeletedFrom, IsList, Links
<1>. QED BY <1>1, <1>2

\* dlist_delete_node.
LEMMA DeleteLinked ==
  ASSUME NEW l, NEW s, Linked(l, s), NEW i \in 1 .. Len(s)
  PROVE  Linked(L!DeleteNode(l, s[i]), Cut(s, i))
<1>. DEFINE g == L!DeleteNode(l, s[i])
            q == Cut(s, i)
<1>1. /\ IsList(l) /\ Distinct(s) /\ Len(s) \in Nat
      /\ l.len = Len(s) /\ l.head = At(s, 1) /\ l.tail = At(s, Len(s))
      /\ \A k \in 1 .. Len(s) : l.next[s[k]] = At(s, k + 1) /\ l.prev[s[k]] = At(s, k - 1)
      /\ \A m \in Ids \ ToSet(s) : l.next[m] = 0 /\ l.prev[m] = 0
  BY LinkedParts, Zenon
<1>2. /\ \A k \in 1 .. Len(s) : s[k] \in Ids
      /\ \A k, m \in 1 .. Len(s) : s[k] = s[m] => k = m
      /\ \A e : e \in ToSet(s) <=> \E k \in 1 .. Len(s) : s[k] = e
  BY <1>1, Parts, Zenon
<1>3. \A m \in Ids : m # 0
  BY StoreAssumption DEF Ids
<1>4. PICK n \in Nat : Len(s) = n + 1
  <2>1. Len(s) - 1 \in Nat /\ Len(s) = (Len(s) - 1) + 1
    BY <1>1
  <2>. QED BY <2>1
<1>5. /\ Distinct(q) /\ Len(q) = n
      /\ \A k \in 1 .. n : q[k] = IF k < i THEN s[k] ELSE s[k + 1]
      /\ ToSet(q) = ToSet(s) \ {s[i]}
  <2>1. Len(s) - 1 = n
    BY <1>4
  <2>. QED BY <1>1, <2>1, CutIs
<1>. HIDE DEF q
<1>6. ASSUME NEW k \in 0 .. n + 1  PROVE At(q, k) = IF k < i THEN At(s, k) ELSE At(s, k + 1)
  BY <1>4, <1>5 DEF At
<1>7. PICK a \in Links, b \in Links : /\ a = l.prev[s[i]] /\ b = l.next[s[i]]
                                      /\ a = At(s, i - 1) /\ b = At(s, i + 1)
  <2>1. l.prev[s[i]] = At(s, i - 1) /\ l.next[s[i]] = At(s, i + 1)
    BY <1>1
  <2>2. At(s, i - 1) \in Links /\ At(s, i + 1) \in Links
    BY <1>2 DEF At, Links
  <2>. QED BY <2>1, <2>2
<1>8. IsList(g) /\ g = DeletedFrom(l, s[i], a, b)
  BY <1>1, <1>2, <1>7, DeleteFields
<1>. HIDE DEF g
<1>9. /\ g.head = IF a = 0 THEN b ELSE l.head
      /\ g.tail = IF b = 0 THEN a ELSE l.tail
      /\ g.len = n
      /\ \A m \in Ids : g.next[m] = IF m = s[i] THEN 0 ELSE IF m = a THEN b ELSE l.next[m]
      /\ \A m \in Ids : g.prev[m] = IF m = s[i] THEN 0 ELSE IF m = b THEN a ELSE l.prev[m]
  BY <1>1, <1>4, <1>8 DEF DeletedFrom
<1>10. \A k \in 1 .. n + 1 : (s[k] = a <=> k = i - 1) /\ (s[k] = b <=> k = i + 1)
                             /\ (s[k] = s[i] <=> k = i)
  BY <1>2, <1>3, <1>4, <1>7 DEF At
<1>11. (a = 0 <=> i = 1) /\ (b = 0 <=> i = n + 1)
  BY <1>2, <1>3, <1>4, <1>7 DEF At
<1>12. g.head = At(q, 1)
  <2>1. At(q, 1) = IF 1 < i THEN At(s, 1) ELSE At(s, 2)
    BY <1>6
  <2>2. ~ (1 < i) <=> i = 1
    BY <1>4
  <2>. QED BY <1>1, <1>7, <1>9, <1>11, <2>1, <2>2
<1>13. g.tail = At(q, n)
  <2>1. At(q, n) = IF n < i THEN At(s, n) ELSE At(s, n + 1)
    BY <1>6
  <2>2. n < i <=> i = n + 1
    BY <1>4
  <2>. QED BY <1>1, <1>4, <1>7, <1>9, <1>11, <2>1, <2>2
<1>14. ASSUME NEW k \in 1 .. n  PROVE g.next[q[k]] = At(q, k + 1) /\ g.prev[q[k]] = At(q, k - 1)
  <2>1. /\ At(q, k + 1) = IF k + 1 < i THEN At(s, k + 1) ELSE At(s, k + 2)
        /\ At(q, k - 1) = IF k - 1 < i THEN At(s, k - 1) ELSE At(s, k)
    <3>1. k + 1 \in 0 .. n + 1 /\ k - 1 \in 0 .. n + 1 /\ (k + 1) + 1 = k + 2 /\ (k - 1) + 1 = k
      OBVIOUS
    <3>. QED BY <1>6, <3>1
  <2>2. PICK m \in 1 .. n + 1 : q[k] = s[m] /\ (k < i => m = k) /\ (~ (k < i) => m = k + 1)
    BY <1>5
  <2>3. m # i /\ s[m] # s[i] /\ s[m] \in Ids
    BY <1>2, <1>4, <1>10, <2>2
  <2>4. l.next[s[m]] = At(s, m + 1) /\ l.prev[s[m]] = At(s, m - 1)
    BY <1>1, <1>4
  <2>5. (s[m] = a <=> m = i - 1) /\ (s[m] = b <=> m = i + 1)
    BY <1>10
  <2>6. /\ g.next[s[m]] = IF s[m] = a THEN b ELSE l.next[s[m]]
        /\ g.prev[s[m]] = IF s[m] = b THEN a ELSE l.prev[s[m]]
    BY <1>9, <2>3
  <2>7. g.next[q[k]] = IF m = i - 1 THEN b ELSE At(s, m + 1)
    BY <2>2, <2>4, <2>5, <2>6
  <2>8. g.prev[q[k]] = IF m = i + 1 THEN a ELSE At(s, m - 1)
    BY <2>2, <2>4, <2>5, <2>6
  <2>9. (IF m = i - 1 THEN b ELSE At(s, m + 1)) = At(q, k + 1)
    <3>1. CASE k < i
      BY <1>7, <2>1, <2>2, <3>1
    <3>2. CASE ~ (k < i)
      <4>1. m = k + 1 /\ m # i - 1 /\ m + 1 = k + 2 /\ ~ (k + 1 < i)
        BY <2>2, <3>2
      <4>. QED BY <2>1, <4>1
    <3>. QED BY <3>1, <3>2
  <2>10. (IF m = i + 1 THEN a ELSE At(s, m - 1)) = At(q, k - 1)
    <3>1. CASE k < i
      <4>1. m = k /\ m # i + 1 /\ k - 1 < i
        BY <2>2, <3>1
      <4>. QED BY <2>1, <4>1
    <3>2. CASE ~ (k < i)
      <4>1. m = k + 1 /\ m - 1 = k /\ (m = i + 1 <=> k - 1 < i) /\ (m = i + 1 => i - 1 = k - 1)
        BY <2>2, <3>2
      <4>. QED BY <1>7, <2>1, <4>1
    <3>. QED BY <3>1, <3>2
  <2>. QED BY <2>7, <2>8, <2>9, <2>10
<1>15. ASSUME NEW m \in Ids \ ToSet(q)  PROVE g.next[m] = 0 /\ g.prev[m] = 0
  <2>1. CASE m = s[i]
    BY <1>9, <2>1
  <2>2. CASE m # s[i]
    <3>1. m \notin ToSet(s)
      BY <1>5, <2>2
    <3>2. m # a /\ m # b
      BY <1>2, <1>3, <1>7, <3>1 DEF At
    <3>. QED BY <1>1, <1>9, <2>2, <3>1, <3>2
  <2>. QED BY <2>1, <2>2
<1>. QED BY <1>5, <1>8, <1>9, <1>12, <1>13, <1>14, <1>15 DEF Linked, g, q

(* A list walked along.                                                         *)

\* What Hash and DList take from the libraries is what is taken here.
LEMMA SameOperators ==
  ASSUME NEW s, NEW e
  PROVE  /\ L!Cardinality(s) = Cardinality(s)
         /\ (L!Contains(s, e) <=> Contains(s, e)) /\ (T!Contains(s, e) <=> Contains(s, e))
         /\ T!RemoveFirst(s, e) = RemoveFirst(s, e)
         /\ T!FlattenSeq(s) = FlattenSeq(s)
<1>1. L!Cardinality(s) = Cardinality(s)
  BY DEF L!Cardinality, Cardinality
<1>2. (L!Contains(s, e) <=> Contains(s, e)) /\ (T!Contains(s, e) <=> Contains(s, e))
  BY Zenon DEF L!Contains, T!Contains, Contains
<1>3. T!RemoveFirst(s, e) = RemoveFirst(s, e)
  BY DEF T!RemoveFirst, RemoveFirst, T!SelectInSeq, SelectInSeq, T!RemoveAt, RemoveAt, T!Min, Min
<1>4. T!FlattenSeq(s) = FlattenSeq(s)
  BY Zenon DEF T!FlattenSeq, FlattenSeq
<1>. QED BY <1>1, <1>2, <1>3, <1>4, Zenon

LEMMA IdsCount == IsFiniteSet(Ids) /\ Cardinality(Ids) = MaxId
<1>1. 1 \in Int /\ MaxId \in Int /\ (IF 1 > MaxId THEN 0 ELSE MaxId - 1 + 1) = MaxId
  BY StoreAssumption
<1>2. IsFiniteSet(1 .. MaxId) /\ Cardinality(1 .. MaxId) = IF 1 > MaxId THEN 0 ELSE MaxId - 1 + 1
  BY <1>1, FS_Interval
<1>3. IsFiniteSet(1 .. MaxId) /\ Cardinality(1 .. MaxId) = MaxId
  BY <1>1, <1>2
<1>. QED BY <1>3 DEF Ids

\* No more elements than ids.
LEMMA DistinctLen ==
  ASSUME NEW s, Distinct(s)
  PROVE  Len(s) <= MaxId
<1>1. /\ Len(s) \in Nat /\ DOMAIN s = 1 .. Len(s) /\ s \in Seq(Ids)
      /\ \A i \in 1 .. Len(s) : s[i] \in Ids
      /\ \A i, k \in 1 .. Len(s) : s[i] = s[k] => i = k
  BY Parts
<1>2. s \in [1 .. Len(s) -> Ids]
  BY <1>1
<1>3. IsInjective(s)
  BY <1>1, Zenon DEF IsInjective
<1>4. s \in Injection(1 .. Len(s), Ids)
  BY <1>2, <1>3, Zenon DEF Injection
<1>5. Cardinality(1 .. Len(s)) <= MaxId
  BY <1>4, IdsCount, FS_Injection
<1>6. Cardinality(1 .. Len(s)) = IF 1 > Len(s) THEN 0 ELSE Len(s) - 1 + 1
  BY <1>1, FS_Interval
<1>. QED BY <1>1, <1>5, <1>6

\* Where a walk along s has come to after k turns.
WalkState(s, k) ==
  [seen |-> SubSeq(s, 1, IF k < Len(s) THEN k ELSE Len(s)), at |-> At(s, k + 1)]

LEMMA FollowTurn ==
  ASSUME NEW s, Distinct(s), NEW link, \A k \in 1 .. Len(s) : link[s[k]] = At(s, k + 1),
         NEW k \in Nat
  PROVE  L!Follow(WalkState(s, k), link) = WalkState(s, k + 1)
<1>1. s \in Seq(Ids) /\ Len(s) \in Nat /\ \A i \in 1 .. Len(s) : s[i] \in Ids
  BY Parts
<1>2. \A i \in Ids : i # 0
  BY StoreAssumption DEF Ids
<1>3. CASE k < Len(s)
  <2>1. k + 1 \in 1 .. Len(s)
    BY <1>1, <1>3
  <2>2. At(s, k + 1) = s[k + 1] /\ s[k + 1] # 0
    BY <1>1, <1>2, <2>1 DEF At
  <2>3. WalkState(s, k) = [seen |-> SubSeq(s, 1, k), at |-> s[k + 1]]
    BY <1>3, <2>2 DEF WalkState
  <2>4. L!Follow(WalkState(s, k), link) = [seen |-> Append(SubSeq(s, 1, k), s[k + 1]), at |-> link[s[k + 1]]]
    BY <2>2, <2>3 DEF L!Follow
  <2>5. link[s[k + 1]] = At(s, (k + 1) + 1)
    BY <2>1
  <2>6. Append(SubSeq(s, 1, k), s[k + 1]) = SubSeq(s, 1, k + 1)
    BY <1>1, <2>1
  <2>7. (IF k + 1 < Len(s) THEN k + 1 ELSE Len(s)) = k + 1
    BY <1>1, <2>1
  <2>. QED BY <2>4, <2>5, <2>6, <2>7 DEF WalkState
<1>4. CASE ~ (k < Len(s))
  <2>1. k + 1 \notin 1 .. Len(s) /\ (k + 1) + 1 \notin 1 .. Len(s) /\ ~ (k + 1 < Len(s))
    BY <1>1, <1>4
  <2>2. At(s, k + 1) = 0 /\ At(s, (k + 1) + 1) = 0
    BY <2>1 DEF At
  <2>3. WalkState(s, k + 1) = WalkState(s, k)
    BY <1>4, <2>1, <2>2 DEF WalkState
  <2>. QED BY <2>2, <2>3 DEF L!Follow, WalkState
<1>. QED BY <1>3, <1>4

LEMMA WalkIs ==
  ASSUME NEW s, Distinct(s), NEW first, first = At(s, 1),
         NEW link, \A k \in 1 .. Len(s) : link[s[k]] = At(s, k + 1)
  PROVE  L!Walk(first, link) = s
<1>. DEFINE N == Cardinality(Ids) + 1
            g == [k \in 0 .. N |-> WalkState(s, k)]
            Is(f) == f = [k \in 0 .. N |->
                            IF k = 0 THEN [seen |-> <<>>, at |-> first]
                            ELSE L!Follow(f[k - 1], link)]
            turns == CHOOSE f : Is(f)
<1>1. /\ s \in Seq(Ids) /\ Len(s) \in Nat /\ N \in Nat /\ Len(s) <= N /\ Cardinality(Ids) + 1 = N
      /\ ~ (N < Len(s))
  BY Parts, DistinctLen, IdsCount, StoreAssumption
<1>2. L!Walk(first, link) = turns[N].seen
  <2>1. L!Cardinality(Ids) = Cardinality(Ids)
    BY SameOperators, Zenon
  <2>. QED BY <2>1 DEF L!Walk
<1>. HIDE DEF N
<1>3. WalkState(s, 0) = [seen |-> <<>>, at |-> first]
  <2>1. SubSeq(s, 1, IF 0 < Len(s) THEN 0 ELSE Len(s)) = <<>>
    BY <1>1
  <2>. QED BY <2>1 DEF WalkState
<1>4. ASSUME NEW k \in 0 .. N, k # 0  PROVE g[k] = L!Follow(g[k - 1], link)
  <2>1. k - 1 \in Nat /\ k - 1 \in 0 .. N /\ (k - 1) + 1 = k
    BY <1>1, <1>4
  <2>2. L!Follow(WalkState(s, k - 1), link) = WalkState(s, k)
    BY <2>1, FollowTurn
  <2>. QED BY <2>1, <2>2
<1>5. Is(g)
  BY <1>1, <1>3, <1>4
<1>6. Is(turns)
  BY <1>5, Zenon
<1>. HIDE DEF turns
<1>. DEFINE R == {k \in Nat : k <= N => turns[k] = WalkState(s, k)}
<1>7. 0 \in R
  BY <1>1, <1>3, <1>6
<1>8. ASSUME NEW k \in Nat, k \in R  PROVE k + 1 \in R
  <2>1. CASE k + 1 <= N
    <3>1. k + 1 \in 0 .. N /\ k + 1 # 0 /\ (k + 1) - 1 = k /\ k <= N
      BY <1>1, <2>1
    <3>2. turns[k + 1] = L!Follow(turns[k], link)
      BY <1>6, <3>1
    <3>3. turns[k] = WalkState(s, k)
      BY <1>8, <3>1
    <3>4. turns[k + 1] = WalkState(s, k + 1)
      BY <3>2, <3>3, FollowTurn
    <3>. QED BY <3>4
  <2>. QED BY <2>1
<1>9. N \in R
  <2>. HIDE DEF R
  <2>. QED BY <1>1, <1>7, <1>8, AllNaturals
<1>10. turns[N] = WalkState(s, N)
  BY <1>1, <1>9
<1>11. SubSeq(s, 1, Len(s)) = s
  BY <1>1
<1>. QED BY <1>1, <1>2, <1>10, <1>11 DEF WalkState

LEMMA ForwardIs ==
  ASSUME NEW l, NEW s, Linked(l, s)
  PROVE  L!Forward(l) = s
BY LinkedParts, WalkIs DEF L!Forward

LEMMA BackwardIs ==
  ASSUME NEW l, NEW s, Linked(l, s)
  PROVE  L!Backward(l) = Reverse(s)
<1>. DEFINE r == Reverse(s)
<1>1. /\ Distinct(s) /\ Len(s) \in Nat
      /\ \A k \in 1 .. Len(s) : l.prev[s[k]] = At(s, k - 1)
      /\ l.tail = At(s, Len(s))
      /\ \A i \in 1 .. Len(s) : s[i] \in Ids
      /\ \A i, k \in 1 .. Len(s) : s[i] = s[k] => i = k
  <2>1. Distinct(s)
    BY LinkedParts, Zenon
  <2>2. /\ Len(s) \in Nat /\ \A i \in 1 .. Len(s) : s[i] \in Ids
        /\ \A i, k \in 1 .. Len(s) : s[i] = s[k] => i = k
    BY <2>1, Parts, Zenon
  <2>3. l.tail = At(s, Len(s)) /\ \A k \in 1 .. Len(s) : l.prev[s[k]] = At(s, k - 1)
    BY LinkedParts, Zenon
  <2>. QED BY <2>1, <2>2, <2>3
<1>2. r = [k \in 1 .. Len(s) |-> r[k]] /\ \A k \in 1 .. Len(s) : r[k] = s[(Len(s) - k) + 1]
  BY DEF Reverse
<1>. HIDE DEF r
<1>3. \A k \in 1 .. Len(s) : (Len(s) - k) + 1 \in 1 .. Len(s) /\ ((Len(s) - k) + 1) - 1 = Len(s) - k
  BY <1>1
<1>4. r \in Seq(Ids) /\ Len(r) = Len(s)
  BY <1>1, <1>2, <1>3, FunctionSeq
<1>5. Distinct(r)
  <2>1. ASSUME NEW i \in 1 .. Len(s), NEW k \in 1 .. Len(s), r[i] = r[k]  PROVE i = k
    <3>1. PICK a \in 1 .. Len(s), b \in 1 .. Len(s) : a = (Len(s) - i) + 1 /\ b = (Len(s) - k) + 1
      BY <1>3
    <3>2. s[a] = s[b]
      BY <1>2, <2>1, <3>1
    <3>3. a = b
      BY <1>1, <3>2
    <3>. QED BY <1>1, <3>1, <3>3
  <2>. QED BY <1>4, <2>1 DEF Distinct
<1>6. \A k \in 1 .. Len(s) + 1 : At(r, k) = At(s, (Len(s) - k) + 1)
  <2>1. ASSUME NEW k \in 1 .. Len(s) + 1  PROVE At(r, k) = At(s, (Len(s) - k) + 1)
    <3>1. CASE k \in 1 .. Len(s)
      BY <1>2, <1>3, <1>4, <3>1 DEF At
    <3>2. CASE k = Len(s) + 1
      BY <1>1, <1>4, <3>2 DEF At
    <3>. QED BY <1>1, <3>1, <3>2
  <2>. QED BY <2>1
<1>7. l.tail = At(r, 1)
  <2>1. 1 \in 1 .. Len(s) + 1 /\ (Len(s) - 1) + 1 = Len(s)
    BY <1>1
  <2>. QED BY <1>1, <1>6, <2>1
<1>8. \A k \in 1 .. Len(r) : l.prev[r[k]] = At(r, k + 1)
  <2>1. ASSUME NEW k \in 1 .. Len(s)  PROVE l.prev[r[k]] = At(r, k + 1)
    <3>1. PICK m \in 1 .. Len(s) : m = (Len(s) - k) + 1
      BY <1>3
    <3>2. l.prev[r[k]] = At(s, m - 1)
      BY <1>1, <1>2, <3>1
    <3>3. k + 1 \in 1 .. Len(s) + 1 /\ (Len(s) - (k + 1)) + 1 = m - 1
      BY <1>1, <3>1
    <3>4. At(r, k + 1) = At(s, m - 1)
      BY <1>6, <3>3
    <3>. QED BY <3>2, <3>4
  <2>. QED BY <1>4, <2>1
<1>9. L!Walk(l.tail, l.prev) = r
  BY <1>5, <1>7, <1>8, WalkIs
<1>. QED BY <1>9 DEF L!Backward, r

\* dlist_search_key.
LEMMA SearchIs ==
  ASSUME NEW l, NEW s, Linked(l, s), NEW j \in Ids
  PROVE  L!SearchKey(l, j) = j <=> \E i \in 1 .. Len(s) : s[i] = j
<1>1. j # 0
  BY StoreAssumption DEF Ids
<1>2. L!Forward(l) = s /\ Distinct(s)
  BY ForwardIs, LinkedParts, Zenon
<1>3. Contains(s, j) <=> \E i \in 1 .. Len(s) : s[i] = j
  BY <1>2, Parts, Zenon
<1>4. L!Contains(s, j) <=> Contains(s, j)
  BY SameOperators, Zenon
<1>. QED BY <1>1, <1>2, <1>3, <1>4 DEF L!SearchKey

(* The table.                                                                   *)

TablesOf(n) == [slots : {n}, count : Int, data : [0 .. n - 1 -> Seq(Ids)]]

\* The keys K are in the chains of their slots, each once.
Chained(d, n, K) ==
  \A i \in 0 .. n - 1 : Distinct(d[i]) /\ \A j : j \in ToSet(d[i]) <=> j \in K /\ j % n = i

\* A table with the keys K.
Holds(h, K) ==
  /\ h.slots \in Nat \ {0} /\ h \in TablesOf(h.slots)
  /\ K \subseteq Ids /\ h.count = Cardinality(K) /\ Chained(h.data, h.slots, K)

LEMMA SlotIn ==
  ASSUME NEW j \in Ids, NEW n \in Nat \ {0}
  PROVE  j % n \in 0 .. n - 1
BY StoreAssumption DEF Ids

LEMMA KeysFinite ==
  ASSUME NEW K \in SUBSET Ids
  PROVE  IsFiniteSet(K) /\ Cardinality(K) \in Nat
<1>1. IsFiniteSet(K)
  BY IdsCount, FS_Subset, Zenon
<1>. QED BY <1>1, FS_CardinalityType, Zenon

LEMMA HoldsParts ==
  ASSUME NEW h, NEW K, Holds(h, K), NEW n, n = h.slots
  PROVE  /\ n \in Nat \ {0} /\ h \in TablesOf(n)
         /\ h.count \in Int /\ h.data \in [0 .. n - 1 -> Seq(Ids)]
         /\ h = [slots |-> n, count |-> h.count, data |-> h.data]
         /\ K \subseteq Ids /\ h.count = Cardinality(K) /\ Chained(h.data, n, K)
<1>1. /\ n \in Nat \ {0} /\ h \in TablesOf(n) /\ K \subseteq Ids /\ h.count = Cardinality(K)
      /\ Chained(h.data, n, K)
  BY DEF Holds
<1>2. /\ h.count \in Int /\ h.data \in [0 .. n - 1 -> Seq(Ids)]
      /\ h = [slots |-> n, count |-> h.count, data |-> h.data]
  BY <1>1 DEF TablesOf
<1>. QED BY <1>1, <1>2, Zenon

LEMMA MakeHolds ==
  ASSUME NEW n \in Nat \ {0}, NEW c, NEW d \in [0 .. n - 1 -> Seq(Ids)],
         NEW K \in SUBSET Ids, c = Cardinality(K), Chained(d, n, K)
  PROVE  Holds([slots |-> n, count |-> c, data |-> d], K)
<1>. DEFINE h == [slots |-> n, count |-> c, data |-> d]
<1>1. c \in Int
  BY KeysFinite
<1>2. h.slots = n /\ h.count = c /\ h.data = d /\ h \in TablesOf(n)
  BY <1>1 DEF TablesOf
<1>. HIDE DEF h
<1>3. Holds(h, K)
  BY <1>2, Zenon DEF Holds
<1>. QED BY <1>3 DEF h

\* next_power.
LEMMA NextPowerIs ==
  ASSUME NEW size \in Nat
  PROVE  T!NextPower(size) \in Nat \ {0}
<1>. DEFINE S == Nat \ {0}
            Is(f) == f = [k \in 0 .. size |->
                            IF k = 0 THEN InitSlots
                            ELSE IF f[k - 1] >= size THEN f[k - 1] ELSE 2 * f[k - 1]]
            Turn(x) == IF x >= size THEN x ELSE 2 * x
            turn == [n \in 1 .. size |-> [x \in S |-> Turn(x)]]
            power == CHOOSE f : Is(f)
<1>1. InitSlots \in S /\ \A x \in S : Turn(x) \in S
  BY StoreAssumption
<1>2. LoopIn(turn, S, size)
  BY <1>1 DEF LoopIn
<1>3. PICK g : Iterates(g, turn, InitSlots, S, size)
  BY <1>1, <1>2, Iterated
<1>4. ASSUME NEW k \in 0 .. size, k # 0  PROVE g[k] = Turn(g[k - 1])
  <2>1. k \in 1 .. size /\ k - 1 \in 0 .. size
    BY <1>4
  <2>2. g[k] = turn[k][g[k - 1]] /\ g[k - 1] \in S
    BY <1>3, <2>1 DEF Iterates
  <2>. QED BY <2>1, <2>2
<1>5. Is(g)
  BY <1>3, <1>4 DEF Iterates
<1>6. Is(power)
  BY <1>5, Zenon
<1>7. T!NextPower(size) = power[size]
  BY DEF T!NextPower
<1>. HIDE DEF power
<1>. DEFINE R == {k \in Nat : k <= size => power[k] \in S}
<1>8. 0 \in R
  BY <1>1, <1>6
<1>9. ASSUME NEW k \in Nat, k \in R  PROVE k + 1 \in R
  <2>1. CASE k + 1 <= size
    <3>1. k + 1 \in 0 .. size /\ k + 1 # 0 /\ (k + 1) - 1 = k /\ k <= size
      BY <2>1
    <3>2. power[k + 1] = Turn(power[k])
      BY <1>6, <3>1
    <3>3. power[k + 1] \in S
      BY <1>1, <1>9, <3>1, <3>2
    <3>. QED BY <3>3
  <2>. QED BY <2>1
<1>10. size \in R
  <2>. HIDE DEF R
  <2>. QED BY <1>8, <1>9, AllNaturals
<1>. QED BY <1>7, <1>10

\* hash_init.
LEMMA InitHolds ==
  ASSUME NEW size \in Nat
  PROVE  Holds(T!HashInit(size), {})
<1>. DEFINE n == T!NextPower(size)
            d == [i \in 0 .. n - 1 |-> <<>>]
<1>1. n \in Nat \ {0}
  BY NextPowerIs
<1>2. <<>> \in Seq(Ids) /\ Len(<<>>) = 0
  OBVIOUS
<1>3. Distinct(<<>>) /\ ToSet(<<>>) = {}
  BY <1>2 DEF Distinct, ToSet
<1>4. T!HashInit(size) = [slots |-> n, count |-> 0, data |-> d]
  BY DEF T!HashInit
<1>. HIDE DEF n
<1>5. d \in [0 .. n - 1 -> Seq(Ids)] /\ \A i \in 0 .. n - 1 : d[i] = <<>>
  BY <1>2
<1>. HIDE DEF d
<1>6. Cardinality({}) = 0
  BY FS_EmptySet
<1>7. Chained(d, n, {})
  BY <1>3, <1>5 DEF Chained
<1>8. {} \in SUBSET Ids
  OBVIOUS
<1>. QED BY <1>1, <1>4, <1>5, <1>6, <1>7, <1>8, MakeHolds

\* hash_get_val.
LEMMA HasIs ==
  ASSUME NEW h, NEW K, Holds(h, K), NEW j \in Ids
  PROVE  T!HashHas(h, j) <=> j \in K
<1>1. PICK n : n = h.slots
  OBVIOUS
<1>2. n \in Nat \ {0} /\ Chained(h.data, n, K)
  BY <1>1, HoldsParts, Zenon
<1>3. j % n \in 0 .. n - 1
  BY <1>2, SlotIn
<1>4. Distinct(h.data[j % n]) /\ (j \in ToSet(h.data[j % n]) <=> j \in K)
  BY <1>2, <1>3, Zenon DEF Chained
<1>5. Contains(h.data[j % n], j) <=> j \in K
  BY <1>4, Parts, Zenon
<1>6. T!HashHas(h, j) <=> Contains(h.data[j % n], j)
  <2>1. T!HashHas(h, j) <=> T!Contains(h.data[j % n], j)
    BY <1>1 DEF T!HashHas, T!HashSlot
  <2>2. T!Contains(h.data[j % n], j) <=> Contains(h.data[j % n], j)
    BY SameOperators, Zenon
  <2>. QED BY <2>1, <2>2, Zenon
<1>. QED BY <1>5, <1>6, Zenon

\* A new entry.
LEMMA PutHolds ==
  ASSUME NEW h, NEW K, Holds(h, K), NEW j \in Ids \ K
  PROVE  Holds(T!HashPut(h, j), K \union {j})
<1>1. PICK n : n = h.slots
  OBVIOUS
<1>2. /\ n \in Nat \ {0} /\ h \in TablesOf(n)
      /\ h.count \in Int /\ h.data \in [0 .. n - 1 -> Seq(Ids)]
      /\ K \subseteq Ids /\ h.count = Cardinality(K) /\ Chained(h.data, n, K)
  BY <1>1, HoldsParts, Zenon
<1>3. PICK slot \in 0 .. n - 1 : slot = j % n
  BY <1>2, SlotIn
<1>4. PICK chain : chain = h.data[slot]
  OBVIOUS
<1>5. Distinct(chain) /\ j \notin ToSet(chain)
  BY <1>2, <1>3, <1>4 DEF Chained
<1>6. Distinct(<<j>> \o chain) /\ ToSet(<<j>> \o chain) = ToSet(chain) \union {j}
  BY <1>5, PushIs
<1>7. <<j>> \o chain \in Seq(Ids)
  BY <1>6 DEF Distinct
<1>8. PICK longer \in Seq(Ids) : longer = <<j>> \o chain
  BY <1>7
<1>. DEFINE d == [h.data EXCEPT ![slot] = longer]
            c == h.count + 1
<1>9. T!HashPut(h, j) = [slots |-> n, count |-> c, data |-> d]
  <2>1. T!HashPut(h, j) = [h EXCEPT !.data[slot] = longer, !.count = @ + 1]
    BY <1>1, <1>3, <1>4, <1>8 DEF T!HashPut, T!HashSlot
  <2>. QED BY <1>1, <1>2, <2>1 DEF TablesOf
<1>10. d \in [0 .. n - 1 -> Seq(Ids)] /\ \A i \in 0 .. n - 1 : d[i] = IF i = slot THEN longer ELSE h.data[i]
  BY <1>2, <1>8
<1>11. c = Cardinality(K \union {j})
  <2>1. IsFiniteSet(K)
    BY <1>2, KeysFinite
  <2>2. Cardinality(K \union {j}) = Cardinality(K) + 1
    BY <2>1, FS_AddElement
  <2>. QED BY <1>2, <2>2
<1>. HIDE DEF d, c
<1>12. ASSUME NEW i \in 0 .. n - 1
       PROVE  Distinct(d[i]) /\ \A k : k \in ToSet(d[i]) <=> k \in K \union {j} /\ k % n = i
  <2>1. CASE i = slot
    <3>1. \A k : k \in ToSet(d[i]) <=> k \in ToSet(chain) \/ k = j
      BY <1>6, <1>8, <1>10, <2>1
    <3>2. \A k : k \in ToSet(chain) <=> k \in K /\ k % n = i
      BY <1>2, <1>4, <2>1 DEF Chained
    <3>3. Distinct(d[i])
      BY <1>6, <1>8, <1>10, <2>1
    <3>4. j % n = i
      BY <1>3, <2>1
    <3>. QED BY <3>1, <3>2, <3>3, <3>4
  <2>2. CASE i # slot
    <3>1. d[i] = h.data[i] /\ j % n # i
      BY <1>3, <1>10, <2>2
    <3>2. Distinct(h.data[i]) /\ \A k : k \in ToSet(h.data[i]) <=> k \in K /\ k % n = i
      BY <1>2, Zenon DEF Chained
    <3>. QED BY <3>1, <3>2
  <2>. QED BY <2>1, <2>2, Zenon
<1>13. K \union {j} \in SUBSET Ids
  BY <1>2
<1>14. Chained(d, n, K \union {j})
  BY <1>12, Zenon DEF Chained
<1>15. Holds([slots |-> n, count |-> c, data |-> d], K \union {j})
  BY <1>2, <1>10, <1>11, <1>13, <1>14, MakeHolds, Zenon
<1>. QED BY <1>9, <1>15

\* hash_delete.
LEMMA DeleteHolds ==
  ASSUME NEW h, NEW K, Holds(h, K), NEW j \in K
  PROVE  Holds(T!HashDelete(h, j), K \ {j})
<1>1. PICK n : n = h.slots
  OBVIOUS
<1>2. /\ n \in Nat \ {0} /\ h \in TablesOf(n)
      /\ h.count \in Int /\ h.data \in [0 .. n - 1 -> Seq(Ids)]
      /\ K \subseteq Ids /\ h.count = Cardinality(K) /\ Chained(h.data, n, K)
  BY <1>1, HoldsParts, Zenon
<1>. j \in Ids
  BY <1>2
<1>3. PICK slot \in 0 .. n - 1 : slot = j % n
  BY <1>2, SlotIn
<1>4. PICK chain : chain = h.data[slot]
  OBVIOUS
<1>5. Distinct(chain) /\ j \in ToSet(chain)
  BY <1>2, <1>3, <1>4 DEF Chained
<1>6. PICK i \in 1 .. Len(chain) : chain[i] = j
  BY <1>5, Parts, Zenon
<1>7. PICK shorter : /\ shorter = RemoveFirst(chain, j) /\ Distinct(shorter)
                     /\ ToSet(shorter) = ToSet(chain) \ {j}
  <2>1. RemoveFirst(chain, chain[i]) = Cut(chain, i)
    BY <1>5, RemoveIs
  <2>2. Distinct(Cut(chain, i)) /\ ToSet(Cut(chain, i)) = ToSet(chain) \ {chain[i]}
    BY <1>5, CutIs
  <2>. QED BY <1>6, <2>1, <2>2
<1>8. shorter \in Seq(Ids)
  BY <1>7 DEF Distinct
<1>. DEFINE d == [h.data EXCEPT ![slot] = shorter]
            c == h.count - 1
<1>9. T!HashDelete(h, j) = [slots |-> n, count |-> c, data |-> d]
  <2>1. T!RemoveFirst(chain, j) = shorter
    BY <1>7, SameOperators, Zenon
  <2>2. T!HashHas(h, j)
    BY HasIs
  <2>3. T!HashDelete(h, j) = [h EXCEPT !.data[slot] = T!RemoveFirst(@, j), !.count = @ - 1]
    BY <1>1, <1>3, <2>2 DEF T!HashDelete, T!HashSlot
  <2>4. T!HashDelete(h, j) = [h EXCEPT !.data[slot] = shorter, !.count = @ - 1]
    BY <1>4, <2>1, <2>3
  <2>. QED BY <1>1, <1>2, <2>4 DEF TablesOf
<1>10. d \in [0 .. n - 1 -> Seq(Ids)] /\ \A k \in 0 .. n - 1 : d[k] = IF k = slot THEN shorter ELSE h.data[k]
  BY <1>2, <1>8
<1>11. c = Cardinality(K \ {j})
  <2>1. IsFiniteSet(K)
    BY <1>2, KeysFinite
  <2>2. Cardinality(K \ {j}) = Cardinality(K) - 1
    BY <2>1, FS_RemoveElement
  <2>. QED BY <1>2, <2>2
<1>. HIDE DEF d, c
<1>12. ASSUME NEW m \in 0 .. n - 1
       PROVE  Distinct(d[m]) /\ \A k : k \in ToSet(d[m]) <=> k \in K \ {j} /\ k % n = m
  <2>1. CASE m = slot
    <3>1. \A k : k \in ToSet(d[m]) <=> k \in ToSet(chain) /\ k # j
      BY <1>7, <1>10, <2>1
    <3>2. \A k : k \in ToSet(chain) <=> k \in K /\ k % n = m
      BY <1>2, <1>4, <2>1 DEF Chained
    <3>3. Distinct(d[m])
      BY <1>7, <1>10, <2>1
    <3>. QED BY <3>1, <3>2, <3>3
  <2>2. CASE m # slot
    <3>1. d[m] = h.data[m] /\ j % n # m
      BY <1>3, <1>10, <2>2
    <3>2. Distinct(h.data[m]) /\ \A k : k \in ToSet(h.data[m]) <=> k \in K /\ k % n = m
      BY <1>2, Zenon DEF Chained
    <3>. QED BY <3>1, <3>2
  <2>. QED BY <2>1, <2>2, Zenon
<1>13. K \ {j} \in SUBSET Ids
  BY <1>2
<1>14. Chained(d, n, K \ {j})
  BY <1>12, Zenon DEF Chained
<1>15. Holds([slots |-> n, count |-> c, data |-> d], K \ {j})
  BY <1>2, <1>10, <1>11, <1>13, <1>14, MakeHolds, Zenon
<1>. QED BY <1>9, <1>15

\* Two sequences without a common element.
LEMMA ConcatIs ==
  ASSUME NEW s, Distinct(s), NEW t, Distinct(t), ToSet(s) \intersect ToSet(t) = {}
  PROVE  Distinct(s \o t) /\ ToSet(s \o t) = ToSet(s) \union ToSet(t)
<1>1. /\ s \in Seq(Ids) /\ Len(s) \in Nat
      /\ \A i, k \in 1 .. Len(s) : s[i] = s[k] => i = k
      /\ \A e : e \in ToSet(s) <=> \E i \in 1 .. Len(s) : s[i] = e
  BY Parts
<1>2. /\ t \in Seq(Ids) /\ Len(t) \in Nat
      /\ \A i, k \in 1 .. Len(t) : t[i] = t[k] => i = k
      /\ \A e : e \in ToSet(t) <=> \E i \in 1 .. Len(t) : t[i] = e
  BY Parts
<1>3. PICK a \in Nat, b \in Nat : a = Len(s) /\ b = Len(t)
  BY <1>1, <1>2
<1>4. PICK q : a = Len(s) /\ b = Len(t) /\ q = s \o t
  BY <1>3
<1>5. /\ q \in Seq(Ids) /\ Len(q) = a + b
      /\ \A i \in 1 .. a + b : q[i] = IF i <= a THEN s[i] ELSE t[i - a]
  BY <1>1, <1>2, <1>4, ConcatProperties
<1>6. \A i \in 1 .. a : i \in 1 .. a + b /\ q[i] = s[i] /\ q[i] \in ToSet(s)
  BY <1>1, <1>4, <1>5
<1>7. \A i \in 1 .. b : i + a \in 1 .. a + b /\ q[i + a] = t[i] /\ q[i + a] \in ToSet(t)
  <2>1. \A i \in 1 .. b : i + a \in 1 .. a + b /\ ~ (i + a <= a) /\ (i + a) - a = i
    OBVIOUS
  <2>. QED BY <1>2, <1>4, <1>5, <2>1
<1>8. \A i \in 1 .. a + b : i \in 1 .. a \/ \E k \in 1 .. b : i = k + a
  <2>1. \A i \in 1 .. a + b : ~ (i \in 1 .. a) => i - a \in 1 .. b /\ i = (i - a) + a
    OBVIOUS
  <2>. QED BY <2>1
<1>9. ASSUME NEW i \in 1 .. a + b, NEW k \in 1 .. a + b, q[i] = q[k]  PROVE i = k
  <2>1. CASE i \in 1 .. a /\ k \in 1 .. a
    BY <1>1, <1>4, <1>6, <1>9, <2>1
  <2>2. CASE i \in 1 .. a /\ ~ (k \in 1 .. a)
    BY <1>6, <1>7, <1>8, <1>9, <2>2
  <2>3. CASE ~ (i \in 1 .. a) /\ k \in 1 .. a
    BY <1>6, <1>7, <1>8, <1>9, <2>3
  <2>4. CASE ~ (i \in 1 .. a) /\ ~ (k \in 1 .. a)
    <3>1. PICK x \in 1 .. b : i = x + a
      BY <1>8, <2>4
    <3>2. PICK y \in 1 .. b : k = y + a
      BY <1>8, <2>4
    <3>3. t[x] = t[y]
      BY <1>7, <1>9, <3>1, <3>2
    <3>. QED BY <1>2, <1>4, <3>1, <3>2, <3>3
  <2>. QED BY <2>1, <2>2, <2>3, <2>4
<1>10. Distinct(q)
  BY <1>5, <1>9 DEF Distinct
<1>11. ToSet(q) = ToSet(s) \union ToSet(t)
  <2>1. \A e : e \in ToSet(q) <=> \E i \in 1 .. a + b : q[i] = e
    <3>1. \A e : e \in ToSet(q) <=> \E i \in 1 .. Len(q) : q[i] = e
      BY <1>10, Parts, Zenon
    <3>. QED BY <1>5, <3>1
  <2>2. ASSUME NEW e \in ToSet(q)  PROVE e \in ToSet(s) \union ToSet(t)
    BY <1>6, <1>7, <1>8, <2>1, <2>2
  <2>3. ASSUME NEW e \in ToSet(s)  PROVE e \in ToSet(q)
    BY <1>1, <1>4, <1>6, <2>1, <2>3
  <2>4. ASSUME NEW e \in ToSet(t)  PROVE e \in ToSet(q)
    BY <1>2, <1>4, <1>7, <2>1, <2>4
  <2>. QED BY <2>2, <2>3, <2>4
<1>. QED BY <1>4, <1>10, <1>11

\* The entries in the order in which hash_resize goes through them.
LEMMA EntriesIs ==
  ASSUME NEW h, NEW K, Holds(h, K)
  PROVE  Distinct(T!Entries(h)) /\ ToSet(T!Entries(h)) = K
<1>1. PICK n : n = h.slots
  OBVIOUS
<1>2. /\ n \in Nat \ {0} /\ h.data \in [0 .. n - 1 -> Seq(Ids)]
      /\ K \subseteq Ids /\ Chained(h.data, n, K)
  BY <1>1, HoldsParts, Zenon
<1>3. PICK seqs : seqs = [i \in 1 .. n |-> h.data[i - 1]]
  OBVIOUS
<1>4. Len(seqs) = n /\ \A i \in 1 .. n : seqs[i] = h.data[i - 1]
  <2>1. seqs \in [1 .. n -> Seq(Ids)] /\ \A i \in 1 .. n : seqs[i] = h.data[i - 1]
    BY <1>2, <1>3
  <2>. QED BY <1>2, <2>1
<1>5. T!Entries(h) = FlattenSeq(seqs)
  <2>1. T!Entries(h) = T!FlattenSeq(seqs)
    BY <1>1, <1>3 DEF T!Entries
  <2>. QED BY <2>1, SameOperators, Zenon
<1>6. PICK f : /\ f = [i \in 1 .. Len(seqs) |-> IF i = 1 THEN seqs[i] ELSE f[i - 1] \o seqs[i]]
               /\ FlattenSeq(seqs) = f[Len(seqs)]
  BY <1>2, <1>4, FlattenDef
<1>7. \A i \in 1 .. n : f[i] = IF i = 1 THEN seqs[i] ELSE f[i - 1] \o seqs[i]
  BY <1>4, <1>6
<1>8. \A i \in 1 .. n : Distinct(seqs[i]) /\ \A j : j \in ToSet(seqs[i]) <=> j \in K /\ j % n = i - 1
  <2>1. ASSUME NEW i \in 1 .. n
        PROVE  Distinct(seqs[i]) /\ \A j : j \in ToSet(seqs[i]) <=> j \in K /\ j % n = i - 1
    <3>1. i - 1 \in 0 .. n - 1 /\ seqs[i] = h.data[i - 1]
      BY <1>2, <1>4
    <3>2. /\ Distinct(h.data[i - 1])
          /\ \A j : j \in ToSet(h.data[i - 1]) <=> j \in K /\ j % n = i - 1
      BY <1>2, <3>1, Zenon DEF Chained
    <3>. QED BY <3>1, <3>2, Zenon
  <2>. QED BY <2>1, Zenon
<1>9. \A j \in K : j % n \in 0 .. n - 1
  BY <1>2, SlotIn
<1>. DEFINE Below(q, i) == Distinct(q) /\ \A j : j \in ToSet(q) <=> j \in K /\ j % n < i
            R == {i \in Nat : i + 1 <= n => Below(f[i + 1], i + 1)}
<1>10. 0 \in R
  <2>1. f[1] = seqs[1] /\ 1 \in 1 .. n
    BY <1>2, <1>7
  <2>2. Distinct(f[1]) /\ \A j : j \in ToSet(f[1]) <=> j \in K /\ j % n = 0
    BY <1>8, <2>1
  <2>3. \A j \in K : j % n = 0 <=> j % n < 1
    BY <1>9
  <2>4. Below(f[1], 1)
    BY <2>2, <2>3
  <2>. QED BY <2>4
<1>11. ASSUME NEW m \in Nat, m \in R  PROVE m + 1 \in R
  <2>1. CASE (m + 1) + 1 <= n
    <3>. DEFINE p == m + 1
    <3>1. /\ p \in 1 .. n /\ p + 1 \in 1 .. n /\ p + 1 # 1 /\ (p + 1) - 1 = p
          /\ Below(f[p], p)
      BY <1>11, <1>2, <2>1
    <3>. HIDE DEF p
    <3>2. f[p + 1] = f[p] \o seqs[p + 1]
      BY <1>7, <3>1
    <3>3. Distinct(seqs[p + 1]) /\ \A j : j \in ToSet(seqs[p + 1]) <=> j \in K /\ j % n = p
      BY <1>8, <3>1
    <3>4. ToSet(f[p]) \intersect ToSet(seqs[p + 1]) = {}
      BY <1>9, <3>1, <3>3
    <3>5. Distinct(f[p + 1]) /\ ToSet(f[p + 1]) = ToSet(f[p]) \union ToSet(seqs[p + 1])
      BY <3>1, <3>2, <3>3, <3>4, ConcatIs
    <3>6. \A j \in K : j % n < p + 1 <=> j % n < p \/ j % n = p
      BY <1>9, <3>1
    <3>7. Below(f[p + 1], p + 1)
      BY <3>1, <3>3, <3>5, <3>6
    <3>. QED BY <3>7 DEF p
  <2>. QED BY <2>1
<1>12. n - 1 \in R
  <2>. HIDE DEF R
  <2>1. n - 1 \in Nat
    BY <1>2
  <2>. QED BY <1>10, <1>11, <2>1, AllNaturals
<1>13. Below(f[n], n)
  <2>1. (n - 1) + 1 = n /\ n <= n
    BY <1>2
  <2>. QED BY <1>12, <2>1
<1>14. \A j : j \in ToSet(f[n]) <=> j \in K
  BY <1>2, <1>9, <1>13
<1>. QED BY <1>4, <1>5, <1>6, <1>13, <1>14

\* A table has as many slots after an entry was put in.
LEMMA PutIn ==
  ASSUME NEW n \in Nat \ {0}, NEW h \in TablesOf(n), NEW j \in Ids
  PROVE  T!HashPut(h, j) \in TablesOf(n)
<1>1. PICK slot \in 0 .. n - 1 : slot = j % n
  BY SlotIn
<1>2. h.slots = n /\ h.count \in Int /\ h.data \in [0 .. n - 1 -> Seq(Ids)]
  BY DEF TablesOf
<1>3. PICK longer \in Seq(Ids) : longer = <<j>> \o h.data[slot]
  <2>1. h.data[slot] \in Seq(Ids)
    BY <1>2
  <2>2. <<j>> \o h.data[slot] \in Seq(Ids)
    BY <2>1
  <2>. QED BY <2>2
<1>4. T!HashPut(h, j) = [h EXCEPT !.data[slot] = longer, !.count = @ + 1]
  BY <1>1, <1>2, <1>3 DEF T!HashPut, T!HashSlot
<1>. DEFINE g == [slots |-> n, count |-> h.count + 1, data |-> [h.data EXCEPT ![slot] = longer]]
<1>5. T!HashPut(h, j) = g
  BY <1>2, <1>4 DEF TablesOf
<1>6. h.count + 1 \in Int /\ [h.data EXCEPT ![slot] = longer] \in [0 .. n - 1 -> Seq(Ids)]
  BY <1>2, <1>3
<1>7. g \in TablesOf(n)
  BY <1>6 DEF TablesOf
<1>. QED BY <1>5, <1>7

\* The loop of hash_resize.
LEMMA MovedHolds ==
  ASSUME NEW h, NEW K, Holds(h, K), NEW new, Holds(new, {})
  PROVE  Holds(T!Moved(h, new), K)
<1>1. PICK old : old = T!Entries(h)
  OBVIOUS
<1>2. /\ Len(old) \in Nat /\ \A i \in 1 .. Len(old) : old[i] \in Ids
      /\ \A i, k \in 1 .. Len(old) : old[i] = old[k] => i = k
      /\ \A e : e \in K <=> \E i \in 1 .. Len(old) : old[i] = e
  <2>1. Distinct(old) /\ ToSet(old) = K
    BY <1>1, EntriesIs, Zenon
  <2>2. /\ Len(old) \in Nat /\ \A i \in 1 .. Len(old) : old[i] \in Ids
        /\ \A i, k \in 1 .. Len(old) : old[i] = old[k] => i = k
    BY <2>1, Parts, Zenon
  <2>3. \A e : e \in ToSet(old) <=> \E i \in 1 .. Len(old) : old[i] = e
    BY <2>1, Parts, Zenon
  <2>. QED BY <2>1, <2>2, <2>3, Zenon
<1>3. PICK n \in Nat \ {0} : new \in TablesOf(n)
  BY HoldsParts
<1>. DEFINE Is(f) == f = [k \in 0 .. Len(old) |->
                            IF k = 0 THEN new ELSE T!HashPut(f[k - 1], old[k])]
            turn == [k \in 1 .. Len(old) |-> [x \in TablesOf(n) |-> T!HashPut(x, old[k])]]
            moved == CHOOSE f : Is(f)
            Seen(k) == {j \in K : \E i \in 1 .. k : old[i] = j}
            R == {k \in Nat : k <= Len(old) => Holds(moved[k], Seen(k))}
<1>4. LoopIn(turn, TablesOf(n), Len(old))
  <2>1. ASSUME NEW k \in 1 .. Len(old), NEW x \in TablesOf(n)  PROVE turn[k][x] \in TablesOf(n)
    BY <1>2, PutIn
  <2>. HIDE DEF turn
  <2>. QED BY <2>1 DEF LoopIn
<1>5. PICK g : Iterates(g, turn, new, TablesOf(n), Len(old))
  BY <1>2, <1>3, <1>4, Iterated
<1>6. Is(g)
  <2>1. ASSUME NEW k \in 0 .. Len(old), k # 0  PROVE g[k] = T!HashPut(g[k - 1], old[k])
    <3>1. k \in 1 .. Len(old) /\ k - 1 \in 0 .. Len(old)
      BY <1>2, <2>1
    <3>2. g[k] = turn[k][g[k - 1]] /\ g[k - 1] \in TablesOf(n)
      BY <1>5, <3>1 DEF Iterates
    <3>. QED BY <3>1, <3>2
  <2>2. g = [k \in 0 .. Len(old) |-> g[k]] /\ g[0] = new
    BY <1>5 DEF Iterates
  <2>. QED BY <1>2, <2>1, <2>2
<1>7. Is(moved)
  BY <1>6, Zenon
<1>8. T!Moved(h, new) = moved[Len(old)]
  BY <1>1 DEF T!Moved
<1>. HIDE DEF moved
<1>9. moved[0] = new /\ \A k \in 0 .. Len(old) : k # 0 => moved[k] = T!HashPut(moved[k - 1], old[k])
  BY <1>2, <1>7
<1>10. 0 \in R
  <2>1. Seen(0) = {}
    OBVIOUS
  <2>2. Holds(moved[0], Seen(0))
    BY <1>9, <2>1
  <2>. QED BY <2>2
<1>11. ASSUME NEW k \in Nat, k \in R  PROVE k + 1 \in R
  <2>1. CASE k + 1 <= Len(old)
    <3>1. /\ k + 1 \in 1 .. Len(old) /\ k + 1 # 0 /\ (k + 1) - 1 = k /\ k <= Len(old)
          /\ k + 1 \in 0 .. Len(old)
      BY <1>2, <2>1
    <3>2. moved[k + 1] = T!HashPut(moved[k], old[k + 1]) /\ Holds(moved[k], Seen(k))
      BY <1>9, <1>11, <3>1
    <3>3. old[k + 1] \in Ids \ Seen(k)
      <4>1. \A i \in 1 .. k : i \in 1 .. Len(old) /\ i # k + 1
        BY <1>2, <3>1
      <4>. QED BY <1>2, <3>1, <4>1
    <3>4. Seen(k + 1) = Seen(k) \union {old[k + 1]}
      <4>1. \A i : i \in 1 .. k + 1 <=> i \in 1 .. k \/ i = k + 1
        OBVIOUS
      <4>2. old[k + 1] \in K
        BY <1>2, <3>1
      <4>. QED BY <4>1, <4>2
    <3>. HIDE DEF Seen
    <3>5. Holds(moved[k + 1], Seen(k + 1))
      BY <3>2, <3>3, <3>4, PutHolds
    <3>. QED BY <3>5
  <2>. QED BY <2>1
<1>12. Len(old) \in R
  <2>. HIDE DEF R
  <2>. QED BY <1>2, <1>10, <1>11, AllNaturals
<1>13. Seen(Len(old)) = K
  BY <1>2
<1>14. Holds(moved[Len(old)], Seen(Len(old)))
  BY <1>2, <1>12
<1>. QED BY <1>8, <1>13, <1>14

\* hash_resize, as the first step of hash_insert.
LEMMA GrownHolds ==
  ASSUME NEW h, NEW K, Holds(h, K)
  PROVE  Holds(T!HashGrown(h), K)
<1>1. h.slots \in Nat \ {0}
  BY DEF Holds
<1>2. 2 * h.slots \in Nat
  BY <1>1
<1>3. Holds(T!HashInit(2 * h.slots), {})
  BY <1>2, InitHolds
<1>4. Holds(T!HashResize(h), K)
  BY <1>3, MovedHolds DEF T!HashResize
<1>. QED BY <1>4 DEF T!HashGrown

\* hash_insert.
LEMMA InsertHolds ==
  ASSUME NEW h, NEW K, Holds(h, K), NEW j \in Ids \ K
  PROVE  Holds(T!HashInsert(h, j), K \union {j})
<1>1. Holds(T!HashGrown(h), K)
  BY GrownHolds
<1>2. ~ T!HashHas(T!HashGrown(h), j)
  BY <1>1, HasIs
<1>3. T!HashInsert(h, j) = T!HashPut(T!HashGrown(h), j)
  BY <1>2 DEF T!HashInsert
<1>. QED BY <1>1, <1>3, PutHolds

(* The lists of all connections and of the tube, and the states of the jobs.    *)

States == {"none", "queued", "reserved", "buried", "lost"}

\* The sequences that the lists rl of the connections are.
ReservedOf(rl) == [c \in StoreConns |-> L!Forward(rl[c])]

\* The lists hold the sequences rq and bq together.
Kept(rl, bl, rq, bq) ==
  /\ rl = [c \in StoreConns |-> rl[c]] /\ rq = [c \in StoreConns |-> rq[c]]
  /\ \A c \in StoreConns : Linked(rl[c], rq[c])
  /\ Linked(bl, bq)

\* A job is in the sequence that its state is for, and in no other.
Placed(rq, bq, st) ==
  /\ st \in [Ids -> States]
  /\ \A c \in StoreConns : \A j \in ToSet(rq[c]) : j \in Ids /\ st[j] = "reserved"
  /\ \A j \in ToSet(bq) : j \in Ids /\ st[j] = "buried"
  /\ \A c, d \in StoreConns : c # d => ToSet(rq[c]) \intersect ToSet(rq[d]) = {}

LEMMA KeptForward ==
  ASSUME NEW rl, NEW bl, NEW rq, NEW bq, Kept(rl, bl, rq, bq)
  PROVE  ReservedOf(rl) = rq /\ L!Forward(bl) = bq
<1>1. \A c \in StoreConns : L!Forward(rl[c]) = rq[c]
  BY ForwardIs DEF Kept
<1>2. L!Forward(bl) = bq
  BY ForwardIs DEF Kept
<1>. QED BY <1>1, <1>2 DEF Kept, ReservedOf

\* One list of a connection becomes another.
LEMMA KeptExcept ==
  ASSUME NEW rl, NEW bl, NEW rq, NEW bq, Kept(rl, bl, rq, bq),
         NEW c \in StoreConns, NEW l, NEW q, Linked(l, q)
  PROVE  Kept([rl EXCEPT ![c] = l], bl, [rq EXCEPT ![c] = q], bq)
<1>. DEFINE rl2 == [rl EXCEPT ![c] = l]
            rq2 == [rq EXCEPT ![c] = q]
<1>1. rl = [d \in StoreConns |-> rl[d]] /\ rq = [d \in StoreConns |-> rq[d]]
  BY DEF Kept
<1>2. rl2 = [d \in StoreConns |-> rl2[d]] /\ rq2 = [d \in StoreConns |-> rq2[d]]
  BY <1>1
<1>3. \A d \in StoreConns : /\ rl2[d] = IF d = c THEN l ELSE rl[d]
                            /\ rq2[d] = IF d = c THEN q ELSE rq[d]
  BY <1>1
<1>. HIDE DEF rl2, rq2
<1>4. ASSUME NEW d \in StoreConns  PROVE Linked(rl2[d], rq2[d])
  <2>1. Linked(rl[d], rq[d])
    BY Zenon DEF Kept
  <2>. QED BY <1>3, <2>1
<1>5. Linked(bl, bq)
  BY DEF Kept
<1>6. Kept(rl2, bl, rq2, bq)
  BY <1>2, <1>4, <1>5, Zenon DEF Kept
<1>. QED BY <1>6 DEF rl2, rq2

LEMMA KeptBuried ==
  ASSUME NEW rl, NEW bl, NEW rq, NEW bq, Kept(rl, bl, rq, bq), NEW l, NEW q, Linked(l, q)
  PROVE  Kept(rl, l, rq, q)
BY Zenon DEF Kept

\* A job is taken off the list of a connection: it is left out of its sequence.
LEMMA TakeOff ==
  ASSUME NEW l, NEW s, Linked(l, s), NEW j \in ToSet(s)
  PROVE  /\ Linked(L!DeleteNode(l, j), RemoveFirst(s, j))
         /\ ToSet(RemoveFirst(s, j)) = ToSet(s) \ {j}
         /\ Contains(s, j)
<1>1. Distinct(s)
  BY LinkedParts, Zenon
<1>2. PICK i \in 1 .. Len(s) : s[i] = j
  BY <1>1, Parts, Zenon
<1>3. RemoveFirst(s, s[i]) = Cut(s, i)
  BY <1>1, RemoveIs
<1>4. ToSet(Cut(s, i)) = ToSet(s) \ {s[i]}
  BY <1>1, CutIs
<1>5. Linked(L!DeleteNode(l, s[i]), Cut(s, i))
  BY DeleteLinked
<1>6. Contains(s, j)
  BY <1>1, Parts, Zenon
<1>. QED BY <1>2, <1>3, <1>4, <1>5, <1>6

\* The first node of a list that is not empty.
LEMMA FirstOff ==
  ASSUME NEW l, NEW s, Linked(l, s), l.len # 0
  PROVE  /\ s # <<>> /\ l.head = Head(s) /\ Head(s) \in ToSet(s) /\ Head(s) \in Ids
         /\ Linked(L!DeleteNode(l, Head(s)), Tail(s)) /\ ToSet(Tail(s)) = ToSet(s) \ {Head(s)}
<1>1. Distinct(s) /\ Len(s) \in Nat /\ l.len = Len(s) /\ l.head = At(s, 1)
  BY LinkedParts, Zenon
<1>2. s # <<>>
  BY <1>1
<1>3. 1 \in 1 .. Len(s) /\ Head(s) = s[1] /\ Tail(s) = Cut(s, 1)
  BY <1>1, <1>2, CutFirst
<1>4. l.head = s[1] /\ s[1] \in Ids /\ s[1] \in ToSet(s)
  BY <1>1, <1>3, Parts DEF At
<1>5. Linked(L!DeleteNode(l, s[1]), Cut(s, 1))
  BY <1>3, DeleteLinked
<1>6. ToSet(Cut(s, 1)) = ToSet(s) \ {s[1]}
  BY <1>1, <1>3, CutIs
<1>. QED BY <1>2, <1>3, <1>4, <1>5, <1>6

\* A head that is a job is the first of the sequence.
LEMMA HeadMeans ==
  ASSUME NEW l, NEW s, Linked(l, s), NEW j \in Ids, l.head = j
  PROVE  l.len # 0
<1>1. Len(s) \in Nat /\ l.len = Len(s) /\ l.head = At(s, 1)
  BY LinkedParts, Zenon
<1>2. j # 0
  BY StoreAssumption DEF Ids
<1>. QED BY <1>1, <1>2 DEF At

\* A job that is in no sequence changes its state for a state without sequence.
LEMMA PlacedOutside ==
  ASSUME NEW rq, NEW bq, NEW st, Placed(rq, bq, st), NEW j \in Ids,
         st[j] \in {"none", "queued"}, NEW x \in {"none", "queued"}
  PROVE  Placed(rq, bq, [st EXCEPT ![j] = x])
<1>. DEFINE st2 == [st EXCEPT ![j] = x]
<1>1. st \in [Ids -> States]
  BY DEF Placed
<1>2. st2 \in [Ids -> States] /\ \A i \in Ids : i # j => st2[i] = st[i]
  BY <1>1 DEF States
<1>. HIDE DEF st2
<1>3. \A c \in StoreConns : \A i \in ToSet(rq[c]) : i \in Ids /\ st2[i] = "reserved"
  BY <1>2 DEF Placed
<1>4. \A i \in ToSet(bq) : i \in Ids /\ st2[i] = "buried"
  BY <1>2 DEF Placed
<1>5. \A c, d \in StoreConns : c # d => ToSet(rq[c]) \intersect ToSet(rq[d]) = {}
  BY DEF Placed
<1>6. Placed(rq, bq, st2)
  BY <1>2, <1>3, <1>4, <1>5 DEF Placed
<1>. QED BY <1>6 DEF st2

\* A queued job gets into the sequence of a connection.
LEMMA PlacedReserve ==
  ASSUME NEW rq, NEW bq, NEW st, Placed(rq, bq, st), NEW j \in Ids, st[j] = "queued",
         rq = [d \in StoreConns |-> rq[d]], NEW c \in StoreConns,
         NEW q, ToSet(q) = ToSet(rq[c]) \union {j}
  PROVE  Placed([rq EXCEPT ![c] = q], bq, [st EXCEPT ![j] = "reserved"])
<1>. DEFINE st2 == [st EXCEPT ![j] = "reserved"]
            rq2 == [rq EXCEPT ![c] = q]
<1>1. st \in [Ids -> States]
  BY DEF Placed
<1>2. st2 \in [Ids -> States] /\ \A i \in Ids : st2[i] = IF i = j THEN "reserved" ELSE st[i]
  BY <1>1 DEF States
<1>3. \A d \in StoreConns : rq2[d] = IF d = c THEN q ELSE rq[d]
  OBVIOUS
<1>. HIDE DEF st2, rq2
<1>4. /\ \A d \in StoreConns : \A i \in ToSet(rq[d]) : i \in Ids /\ st[i] = "reserved"
      /\ \A i \in ToSet(bq) : i \in Ids /\ st[i] = "buried"
      /\ \A d, e \in StoreConns : d # e => ToSet(rq[d]) \intersect ToSet(rq[e]) = {}
  BY DEF Placed
<1>5. \A d \in StoreConns : \A i \in ToSet(rq2[d]) : i \in Ids /\ st2[i] = "reserved"
  BY <1>2, <1>3, <1>4
<1>6. \A i \in ToSet(bq) : i \in Ids /\ st2[i] = "buried"
  BY <1>2, <1>4
<1>7. \A d, e \in StoreConns : d # e => ToSet(rq2[d]) \intersect ToSet(rq2[e]) = {}
  BY <1>3, <1>4
<1>8. Placed(rq2, bq, st2)
  BY <1>2, <1>5, <1>6, <1>7 DEF Placed
<1>. QED BY <1>8 DEF st2, rq2

\* A job leaves the sequence of a connection, for a state without sequence or to
\* be buried.
LEMMA PlacedRemove ==
  ASSUME NEW rq, NEW bq, NEW st, Placed(rq, bq, st), rq = [d \in StoreConns |-> rq[d]],
         NEW c \in StoreConns, NEW j \in ToSet(rq[c]),
         NEW q, ToSet(q) = ToSet(rq[c]) \ {j},
         NEW p, NEW x \in {"none", "queued", "buried", "lost"},
         ToSet(p) = IF x = "buried" THEN ToSet(bq) \union {j} ELSE ToSet(bq)
  PROVE  Placed([rq EXCEPT ![c] = q], p, [st EXCEPT ![j] = x])
<1>. DEFINE st2 == [st EXCEPT ![j] = x]
            rq2 == [rq EXCEPT ![c] = q]
<1>1. st \in [Ids -> States] /\ j \in Ids
  BY DEF Placed
<1>2. st2 \in [Ids -> States] /\ \A i \in Ids : st2[i] = IF i = j THEN x ELSE st[i]
  BY <1>1 DEF States
<1>3. \A d \in StoreConns : rq2[d] = IF d = c THEN q ELSE rq[d]
  OBVIOUS
<1>. HIDE DEF st2, rq2
<1>4. /\ \A d \in StoreConns : \A i \in ToSet(rq[d]) : i \in Ids /\ st[i] = "reserved"
      /\ \A i \in ToSet(bq) : i \in Ids /\ st[i] = "buried"
      /\ \A d, e \in StoreConns : d # e => ToSet(rq[d]) \intersect ToSet(rq[e]) = {}
  BY DEF Placed
<1>5. \A d \in StoreConns : \A i \in ToSet(rq2[d]) : i \in Ids /\ st2[i] = "reserved"
  BY <1>2, <1>3, <1>4
<1>6. \A i \in ToSet(p) : i \in Ids /\ st2[i] = "buried"
  BY <1>1, <1>2, <1>4
<1>7. \A d, e \in StoreConns : d # e => ToSet(rq2[d]) \intersect ToSet(rq2[e]) = {}
  BY <1>3, <1>4
<1>8. Placed(rq2, p, st2)
  BY <1>2, <1>5, <1>6, <1>7 DEF Placed
<1>. QED BY <1>8 DEF st2, rq2

\* A buried job gets another state, or is buried again.
LEMMA PlacedKick ==
  ASSUME NEW rq, NEW bq, NEW st, Placed(rq, bq, st), NEW j \in ToSet(bq),
         NEW p, NEW x \in {"none", "queued", "buried", "lost"},
         ToSet(p) = IF x = "buried" THEN ToSet(bq) ELSE ToSet(bq) \ {j}
  PROVE  Placed(rq, p, [st EXCEPT ![j] = x])
<1>. DEFINE st2 == [st EXCEPT ![j] = x]
<1>1. st \in [Ids -> States] /\ j \in Ids
  BY DEF Placed
<1>2. st2 \in [Ids -> States] /\ \A i \in Ids : st2[i] = IF i = j THEN x ELSE st[i]
  BY <1>1 DEF States
<1>. HIDE DEF st2
<1>3. /\ \A d \in StoreConns : \A i \in ToSet(rq[d]) : i \in Ids /\ st[i] = "reserved"
      /\ \A i \in ToSet(bq) : i \in Ids /\ st[i] = "buried"
      /\ \A d, e \in StoreConns : d # e => ToSet(rq[d]) \intersect ToSet(rq[e]) = {}
  BY DEF Placed
<1>4. \A d \in StoreConns : \A i \in ToSet(rq[d]) : i \in Ids /\ st2[i] = "reserved"
  BY <1>2, <1>3
<1>5. \A i \in ToSet(p) : i \in Ids /\ st2[i] = "buried"
  BY <1>1, <1>2, <1>3
<1>6. Placed(rq, p, st2)
  BY <1>2, <1>3, <1>4, <1>5 DEF Placed
<1>. QED BY <1>6 DEF st2

(* The invariant.                                                               *)

\* The jobs that there are.
Known(st) == {j \in Ids : st[j] # "none"}

ListsInv(rl, bl, st) ==
  /\ Kept(rl, bl, ReservedOf(rl), L!Forward(bl))
  /\ Placed(ReservedOf(rl), L!Forward(bl), st)

TableInv(h, n, st) ==
  /\ n \in Nat \ {0} /\ \A j \in Known(st) : j < n
  /\ h.data # T!NoData => Holds(h, Known(st))

\* What the model keeps true, from one call to the next: the pointers of every
\* list hold a sequence of jobs together, a job is in the sequence that its state
\* is for, and the table, while there is one, has the jobs that there are.
StoreInv ==
  /\ ListsInv(reserved_jobs, buried_jobs, job_state)
  /\ TableInv(all_jobs, next_job_id, job_state)

LEMMA MakeLists ==
  ASSUME NEW rl, NEW bl, NEW rq, NEW bq, NEW st, Kept(rl, bl, rq, bq), Placed(rq, bq, st)
  PROVE  ListsInv(rl, bl, st) /\ ReservedOf(rl) = rq /\ L!Forward(bl) = bq
<1>1. ReservedOf(rl) = rq /\ L!Forward(bl) = bq
  BY KeptForward
<1>. QED BY <1>1, Zenon DEF ListsInv

\* A table with slots is no null pointer.
LEMMA HoldsData ==
  ASSUME NEW h, NEW K, Holds(h, K)
  PROVE  h.data # T!NoData
<1>1. PICK n : n = h.slots
  OBVIOUS
<1>2. n \in Nat \ {0} /\ h.data \in [0 .. n - 1 -> Seq(Ids)]
  BY <1>1, HoldsParts, Zenon
<1>3. 0 \in DOMAIN h.data
  BY <1>2
<1>4. 0 \notin DOMAIN T!NoData
  BY DEF T!NoData
<1>. QED BY <1>3, <1>4

(* What the store is to JobSequences.                                           *)

FoundNow    == {j \in Ids : Found(j)}
ReservedNow == ReservedOf(reserved_jobs)
BuriedNow   == L!Forward(buried_jobs)

LEMMA SamePlain ==
  ASSUME NEW s, NEW e
  PROVE  /\ Plain!ToSet(s) = ToSet(s) /\ (Plain!Contains(s, e) <=> Contains(s, e))
         /\ Plain!RemoveFirst(s, e) = RemoveFirst(s, e)
<1>1. Plain!ToSet(s) = ToSet(s) /\ (Plain!Contains(s, e) <=> Contains(s, e))
  BY Zenon DEF Plain!ToSet, ToSet, Plain!Contains, Contains
<1>2. Plain!RemoveFirst(s, e) = RemoveFirst(s, e)
  BY DEF Plain!RemoveFirst, RemoveFirst, Plain!SelectInSeq, SelectInSeq, Plain!RemoveAt, RemoveAt,
         Plain!Min, Min
<1>. QED BY <1>1, <1>2, Zenon

\* The jobs that are found are those that there are.
LEMMA FoundIs ==
  ASSUME StoreInv
  PROVE  /\ Whole => FoundNow = Known(job_state)
         /\ ~ Whole => FoundNow = {}
<1>1. ASSUME Whole  PROVE FoundNow = Known(job_state)
  <2>1. Holds(all_jobs, Known(job_state))
    BY <1>1 DEF StoreInv, TableInv, Whole
  <2>2. \A j \in Ids : T!HashHas(all_jobs, j) <=> j \in Known(job_state)
    BY <2>1, HasIs
  <2>. QED BY <1>1, <2>2 DEF FoundNow, Found, Known
<1>2. ASSUME ~ Whole  PROVE FoundNow = {}
  BY <1>2 DEF FoundNow, Found
<1>. QED BY <1>1, <1>2

\* A job that is in no sequence.
LEMMA NotListed ==
  ASSUME Placed(ReservedNow, BuriedNow, job_state), NEW j \in Ids,
         job_state[j] \in {"none", "queued"}
  PROVE  j \notin Plain!Listed
<1>1. j \notin ToSet(BuriedNow) /\ \A c \in StoreConns : j \notin ToSet(ReservedNow[c])
  BY DEF Placed
<1>2. Plain!Listed = ToSet(BuriedNow) \union UNION {ToSet(ReservedNow[c]) : c \in StoreConns}
  BY SamePlain DEF Plain!Listed, BuriedNow, ReservedNow, ReservedOf
<1>. QED BY <1>1, <1>2

LEMMA PlainAdd ==
  ASSUME NEW j \in Ids, Whole, Whole', j \notin FoundNow, FoundNow' = FoundNow \union {j},
         ReservedNow' = ReservedNow, BuriedNow' = BuriedNow
  PROVE  Plain!Next
<1>1. Plain!Add(j)
  BY DEF Plain!Add, FoundNow, ReservedNow, ReservedOf, BuriedNow
<1>. QED BY <1>1 DEF Plain!Next

LEMMA PlainLose ==
  ASSUME Whole, ~ Whole', FoundNow' = {}, ReservedNow' = ReservedNow, BuriedNow' = BuriedNow
  PROVE  Plain!Next
<1>1. Plain!Lose
  BY DEF Plain!Lose, FoundNow, ReservedNow, ReservedOf, BuriedNow
<1>. QED BY <1>1 DEF Plain!Next

LEMMA PlainReserve ==
  ASSUME NEW c \in StoreConns, NEW j \in Ids, j \notin Plain!Listed, Whole => j \in FoundNow,
         ReservedNow' = [ReservedNow EXCEPT ![c] = <<j>> \o @],
         FoundNow' = FoundNow, Whole' = Whole, BuriedNow' = BuriedNow
  PROVE  Plain!Next
<1>1. Plain!Reserve(c, j)
  BY DEF Plain!Reserve, FoundNow, ReservedNow, ReservedOf, BuriedNow
<1>. QED BY <1>1 DEF Plain!Next

LEMMA PlainGiveBack ==
  ASSUME NEW c \in StoreConns, NEW j \in Ids, Contains(ReservedNow[c], j),
         ReservedNow' = [ReservedNow EXCEPT ![c] = RemoveFirst(@, j)],
         BuriedNow' \in {BuriedNow, Append(BuriedNow, j)},
         FoundNow' = FoundNow, Whole' = Whole
  PROVE  Plain!Next
<1>1. Plain!GiveBack(c, j)
  BY SamePlain DEF Plain!GiveBack, FoundNow, ReservedNow, ReservedOf, BuriedNow
<1>. QED BY <1>1 DEF Plain!Next

LEMMA PlainKick ==
  ASSUME BuriedNow # <<>>,
         BuriedNow' \in {Tail(BuriedNow), Append(Tail(BuriedNow), Head(BuriedNow))},
         ReservedNow' = ReservedNow, FoundNow' = FoundNow, Whole' = Whole
  PROVE  Plain!Next
<1>1. Plain!Kick
  BY DEF Plain!Kick, FoundNow, ReservedNow, ReservedOf, BuriedNow
<1>. QED BY <1>1 DEF Plain!Next

LEMMA PlainDelete ==
  ASSUME NEW j \in Ids, Whole, Whole', j \in FoundNow, FoundNow' = FoundNow \ {j},
         \/ j \notin Plain!Listed /\ ReservedNow' = ReservedNow /\ BuriedNow' = BuriedNow
         \/ \E c \in StoreConns : /\ Contains(ReservedNow[c], j)
                                  /\ ReservedNow' = [ReservedNow EXCEPT ![c] = RemoveFirst(@, j)]
                                  /\ BuriedNow' = BuriedNow
         \/ /\ BuriedNow # <<>> /\ Head(BuriedNow) = j
            /\ BuriedNow' = Tail(BuriedNow) /\ ReservedNow' = ReservedNow
  PROVE  Plain!Next
<1>1. Plain!Delete(j)
  BY SamePlain DEF Plain!Delete, FoundNow, ReservedNow, ReservedOf, BuriedNow
<1>. QED BY <1>1 DEF Plain!Next

(* The steps.                                                                   *)

LEMMA InvParts ==
  ASSUME StoreInv
  PROVE  /\ Kept(reserved_jobs, buried_jobs, ReservedNow, BuriedNow)
         /\ Placed(ReservedNow, BuriedNow, job_state)
         /\ job_state \in [Ids -> States]
         /\ TableInv(all_jobs, next_job_id, job_state)
         /\ ReservedNow = [c \in StoreConns |-> ReservedNow[c]]
         /\ reserved_jobs = [c \in StoreConns |-> reserved_jobs[c]]
<1>1. /\ Kept(reserved_jobs, buried_jobs, ReservedNow, BuriedNow)
      /\ Placed(ReservedNow, BuriedNow, job_state)
      /\ TableInv(all_jobs, next_job_id, job_state)
  BY Zenon DEF StoreInv, ListsInv, ReservedNow, BuriedNow
<1>. QED BY <1>1, Zenon DEF Kept, Placed

\* A job in a sequence is one of the jobs.
LEMMA ListedIds ==
  ASSUME StoreInv
  PROVE  /\ \A c \in StoreConns : \A j \in ToSet(ReservedNow[c]) : j \in Ids /\ job_state[j] = "reserved"
         /\ \A j \in ToSet(BuriedNow) : j \in Ids /\ job_state[j] = "buried"
BY InvParts, Zenon DEF Placed

\* What follows for the sequences from what follows for the lists.
LEMMA NextLists ==
  ASSUME NEW rq, NEW bq, Kept(reserved_jobs', buried_jobs', rq, bq), Placed(rq, bq, job_state')
  PROVE  ListsInv(reserved_jobs, buried_jobs, job_state)' /\ ReservedNow' = rq /\ BuriedNow' = bq
<1>1. /\ ListsInv(reserved_jobs', buried_jobs', job_state')
      /\ ReservedOf(reserved_jobs') = rq /\ L!Forward(buried_jobs') = bq
  BY MakeLists, Zenon
<1>. QED BY <1>1 DEF ReservedNow, BuriedNow

LEMMA SameTable ==
  ASSUME StoreInv, NEW st, st = job_state', Known(st) = Known(job_state),
         UNCHANGED <<all_jobs, next_job_id>>
  PROVE  TableInv(all_jobs, next_job_id, job_state)' /\ FoundNow' = FoundNow /\ Whole' = Whole
<1>1. TableInv(all_jobs, next_job_id, st)
  BY InvParts DEF TableInv
<1>2. FoundNow' = FoundNow /\ Whole' = Whole
  BY DEF FoundNow, Found, Whole
<1>. QED BY <1>1, <1>2

\* A job that there is stays one whatever sequence it gets into.
LEMMA KnownSame ==
  ASSUME NEW st \in [Ids -> States], NEW j \in Ids, st[j] # "none", NEW x \in States, x # "none"
  PROVE  Known([st EXCEPT ![j] = x]) = Known(st)
BY DEF Known

LEMMA KnownMore ==
  ASSUME NEW st \in [Ids -> States], NEW j \in Ids
  PROVE  /\ Known([st EXCEPT ![j] = "queued"]) = Known(st) \union {j}
         /\ Known([st EXCEPT ![j] = "none"]) = Known(st) \ {j}
BY DEF Known

Stepped == StoreInv' /\ (Plain!Next \/ UNCHANGED Plain!seqVars)

LEMMA PutStep ==
  ASSUME StoreInv, Put
  PROVE  Stepped
<1>1. PICK j : j = next_job_id
  OBVIOUS
<1>2. /\ Whole /\ j <= MaxId
      /\ all_jobs' = T!HashInsert(all_jobs, j) /\ next_job_id' = j + 1
      /\ job_state' = [job_state EXCEPT ![j] = "queued"]
      /\ reserved_jobs' = reserved_jobs /\ buried_jobs' = buried_jobs
  BY <1>1 DEF Put, SetState
<1>3. /\ Kept(reserved_jobs, buried_jobs, ReservedNow, BuriedNow)
      /\ Placed(ReservedNow, BuriedNow, job_state) /\ job_state \in [Ids -> States]
  BY InvParts, Zenon
<1>4. j \in Nat \ {0} /\ (\A i \in Known(job_state) : i < j) /\ Holds(all_jobs, Known(job_state))
  BY <1>1, <1>2, InvParts DEF TableInv, Whole
<1>5. j \in Ids \ Known(job_state) /\ job_state[j] = "none"
  <2>1. j \in Ids
    BY <1>2, <1>4, StoreAssumption DEF Ids
  <2>. QED BY <1>4, <2>1 DEF Known
<1>6. Placed(ReservedNow, BuriedNow, job_state')
  BY <1>2, <1>3, <1>5, PlacedOutside
<1>7. ListsInv(reserved_jobs, buried_jobs, job_state)' /\ ReservedNow' = ReservedNow /\ BuriedNow' = BuriedNow
  <2>1. Kept(reserved_jobs', buried_jobs', ReservedNow, BuriedNow)
    BY <1>2, <1>3
  <2>. QED BY <1>6, <2>1, NextLists
<1>8. Known(job_state') = Known(job_state) \union {j}
  BY <1>2, <1>3, <1>5, KnownMore
<1>9. Holds(all_jobs', Known(job_state'))
  <2>1. Holds(T!HashInsert(all_jobs, j), Known(job_state) \union {j})
    BY <1>4, <1>5, InsertHolds
  <2>. QED BY <1>2, <1>8, <2>1
<1>10. TableInv(all_jobs', next_job_id', job_state')
  <2>1. j + 1 \in Nat \ {0} /\ \A i \in Known(job_state') : i < j + 1
    <3>1. \A i \in Known(job_state) : i < j /\ i \in Nat
      BY <1>4, StoreAssumption DEF Known, Ids
    <3>. QED BY <1>4, <1>8, <3>1
  <2>. QED BY <1>2, <1>9, <2>1 DEF TableInv
<1>11. StoreInv'
  BY <1>7, <1>10 DEF StoreInv
<1>12. Whole'
  BY <1>9, HoldsData DEF Whole
<1>13. FoundNow = Known(job_state) /\ FoundNow' = Known(job_state')
  <2>1. FoundNow = Known(job_state)
    BY <1>2, FoundIs
  <2>2. \A i \in Ids : T!HashHas(all_jobs', i) <=> i \in Known(job_state')
    BY <1>9, HasIs
  <2>3. FoundNow' = Known(job_state')
    BY <1>12, <2>2 DEF FoundNow, Found, Known
  <2>. QED BY <2>1, <2>3
<1>14. Plain!Next
  BY <1>2, <1>5, <1>7, <1>8, <1>12, <1>13, PlainAdd
<1>. QED BY <1>11, <1>14 DEF Stepped

LEMMA PutFailsStep ==
  ASSUME StoreInv, PutFails
  PROVE  Stepped
<1>1. PICK j : j = next_job_id
  OBVIOUS
<1>2. /\ Whole /\ next_job_id' = j + 1
      /\ reserved_jobs' = reserved_jobs /\ buried_jobs' = buried_jobs /\ job_state' = job_state
  BY <1>1 DEF PutFails
<1>3. /\ j \in Nat \ {0} /\ (\A i \in Known(job_state) : i < j)
      /\ Holds(all_jobs, Known(job_state))
  BY <1>1, <1>2, InvParts DEF TableInv, Whole
<1>4. ListsInv(reserved_jobs, buried_jobs, job_state)' /\ ReservedNow' = ReservedNow /\ BuriedNow' = BuriedNow
  BY <1>2, InvParts, NextLists
<1>5. j + 1 \in Nat \ {0} /\ \A i \in Known(job_state) : i < j + 1
  <2>1. \A i \in Known(job_state) : i < j /\ i \in Nat
    BY <1>3, StoreAssumption DEF Known, Ids
  <2>. QED BY <1>3, <2>1
<1>6. CASE all_jobs' = T!HashGrown(all_jobs)
  <2>1. Holds(all_jobs', Known(job_state))
    BY <1>3, <1>6, GrownHolds
  <2>2. StoreInv'
    BY <1>2, <1>4, <1>5, <2>1 DEF StoreInv, TableInv
  <2>3. Whole'
    BY <2>1, HoldsData DEF Whole
  <2>4. FoundNow' = FoundNow
    <3>1. \A i \in Ids : T!HashHas(all_jobs', i) <=> i \in Known(job_state)
      BY <2>1, HasIs
    <3>2. FoundNow' = Known(job_state)
      BY <2>3, <3>1 DEF FoundNow, Found, Known
    <3>. QED BY <1>2, <3>2, FoundIs
  <2>5. UNCHANGED Plain!seqVars
    BY <1>2, <1>4, <2>3, <2>4 DEF Plain!seqVars, FoundNow, ReservedNow, ReservedOf, BuriedNow
  <2>. QED BY <2>2, <2>5 DEF Stepped
<1>7. CASE all_jobs' = T!HashLost(all_jobs)
  <2>1. ~ Whole'
    BY <1>7 DEF Whole, T!HashLost
  <2>2. StoreInv'
    BY <1>2, <1>4, <1>5, <2>1 DEF StoreInv, TableInv, Whole
  <2>3. FoundNow' = {}
    BY <2>1 DEF FoundNow, Found
  <2>4. Plain!Next
    BY <1>2, <1>4, <2>1, <2>3, PlainLose
  <2>. QED BY <2>2, <2>4 DEF Stepped
<1>. QED BY <1>6, <1>7 DEF PutFails

LEMMA ReserveStep ==
  ASSUME StoreInv, NEW c \in StoreConns, NEW j \in Ids, Reserve(c, j)
  PROVE  Stepped
<1>1. /\ job_state[j] = "queued"
      /\ reserved_jobs' = [reserved_jobs EXCEPT ![c] = L!AddHead(@, j)]
      /\ job_state' = [job_state EXCEPT ![j] = "reserved"]
      /\ all_jobs' = all_jobs /\ next_job_id' = next_job_id /\ buried_jobs' = buried_jobs
  BY DEF Reserve, SetState
<1>2. /\ Kept(reserved_jobs, buried_jobs, ReservedNow, BuriedNow)
      /\ Placed(ReservedNow, BuriedNow, job_state) /\ job_state \in [Ids -> States]
      /\ ReservedNow = [d \in StoreConns |-> ReservedNow[d]]
      /\ reserved_jobs = [d \in StoreConns |-> reserved_jobs[d]]
  BY InvParts, Zenon
<1>3. PICK s : s = ReservedNow[c]
  OBVIOUS
<1>4. Linked(reserved_jobs[c], s) /\ j \in Ids \ ToSet(s)
  <2>1. Linked(reserved_jobs[c], ReservedNow[c])
    BY <1>2, Zenon DEF Kept
  <2>2. j \notin ToSet(s)
    BY <1>1, <1>3, ListedIds
  <2>. QED BY <1>3, <2>1, <2>2
<1>5. Linked(L!AddHead(reserved_jobs[c], j), <<j>> \o s)
  BY <1>4, AddHeadLinked
<1>6. ToSet(<<j>> \o s) = ToSet(s) \union {j}
  BY <1>4, LinkedParts, PushIs
<1>. DEFINE rq == [ReservedNow EXCEPT ![c] = <<j>> \o s]
<1>7. Kept(reserved_jobs', buried_jobs', rq, BuriedNow)
  <2>1. Kept([reserved_jobs EXCEPT ![c] = L!AddHead(reserved_jobs[c], j)], buried_jobs, rq, BuriedNow)
    BY <1>2, <1>5, KeptExcept
  <2>. QED BY <1>1, <2>1
<1>8. Placed(rq, BuriedNow, job_state')
  BY <1>1, <1>2, <1>3, <1>6, PlacedReserve
<1>. HIDE DEF rq
<1>9. ListsInv(reserved_jobs, buried_jobs, job_state)' /\ ReservedNow' = rq /\ BuriedNow' = BuriedNow
  BY <1>7, <1>8, NextLists
<1>10. Known(job_state') = Known(job_state)
  <2>1. "reserved" \in States /\ "reserved" # "none" /\ job_state[j] # "none"
    BY <1>1 DEF States
  <2>. QED BY <1>1, <1>2, <2>1, KnownSame
<1>11. TableInv(all_jobs, next_job_id, job_state)' /\ FoundNow' = FoundNow /\ Whole' = Whole
  BY <1>1, <1>10, SameTable
<1>12. StoreInv'
  BY <1>9, <1>11 DEF StoreInv
<1>13. j \notin Plain!Listed
  BY <1>1, <1>2, NotListed
<1>14. Whole => j \in FoundNow
  BY <1>1, FoundIs DEF Known
<1>15. ReservedNow' = [ReservedNow EXCEPT ![c] = <<j>> \o @]
  BY <1>3, <1>9 DEF rq
<1>16. Plain!Next
  BY <1>9, <1>11, <1>13, <1>14, <1>15, PlainReserve
<1>. QED BY <1>12, <1>16 DEF Stepped

\* A job off the list of a connection: its sequence.
LEMMA TakenOff ==
  ASSUME StoreInv, NEW c \in StoreConns, NEW j \in ToSet(ReservedNow[c]),
         reserved_jobs' = [reserved_jobs EXCEPT ![c] = L!DeleteNode(@, j)]
  PROVE  \E q : /\ q = RemoveFirst(ReservedNow[c], j)
                /\ ToSet(q) = ToSet(ReservedNow[c]) \ {j} /\ Contains(ReservedNow[c], j)
                /\ Kept(reserved_jobs', buried_jobs, [ReservedNow EXCEPT ![c] = q], BuriedNow)
<1>1. /\ Kept(reserved_jobs, buried_jobs, ReservedNow, BuriedNow)
      /\ reserved_jobs = [d \in StoreConns |-> reserved_jobs[d]]
  BY InvParts, Zenon
<1>2. PICK s : s = ReservedNow[c]
  OBVIOUS
<1>3. Linked(reserved_jobs[c], s)
  BY <1>1, <1>2, Zenon DEF Kept
<1>4. PICK q : /\ q = RemoveFirst(s, j) /\ Linked(L!DeleteNode(reserved_jobs[c], j), q)
               /\ ToSet(q) = ToSet(s) \ {j} /\ Contains(s, j)
  BY <1>2, <1>3, TakeOff
<1>5. Kept([reserved_jobs EXCEPT ![c] = L!DeleteNode(reserved_jobs[c], j)], buried_jobs,
           [ReservedNow EXCEPT ![c] = q], BuriedNow)
  BY <1>1, <1>4, KeptExcept
<1>. QED BY <1>2, <1>4, <1>5

LEMMA BackStep ==
  ASSUME StoreInv, NEW c \in StoreConns, NEW j \in ToSet(ReservedNow[c]),
         reserved_jobs' = [reserved_jobs EXCEPT ![c] = L!DeleteNode(@, j)],
         \/ SetState(j, "queued") /\ UNCHANGED buried_jobs
         \/ BuryJob(j, buried_jobs),
         UNCHANGED <<all_jobs, next_job_id>>
  PROVE  Stepped
<1>1. /\ Kept(reserved_jobs, buried_jobs, ReservedNow, BuriedNow)
      /\ Placed(ReservedNow, BuriedNow, job_state) /\ job_state \in [Ids -> States]
      /\ ReservedNow = [d \in StoreConns |-> ReservedNow[d]]
  BY InvParts, Zenon
<1>2. j \in Ids /\ job_state[j] = "reserved"
  BY ListedIds
<1>3. PICK q : /\ q = RemoveFirst(ReservedNow[c], j)
               /\ ToSet(q) = ToSet(ReservedNow[c]) \ {j} /\ Contains(ReservedNow[c], j)
               /\ Kept(reserved_jobs', buried_jobs, [ReservedNow EXCEPT ![c] = q], BuriedNow)
  BY TakenOff
<1>. DEFINE rq == [ReservedNow EXCEPT ![c] = q]
<1>4. PICK x \in {"queued", "buried", "lost"} :
      \E p :
        /\ job_state' = [job_state EXCEPT ![j] = x] /\ Kept(reserved_jobs', buried_jobs', rq, p)
        /\ ToSet(p) = IF x = "buried" THEN ToSet(BuriedNow) \union {j} ELSE ToSet(BuriedNow)
        /\ p \in {BuriedNow, Append(BuriedNow, j)}
  <2>1. CASE SetState(j, "queued") /\ UNCHANGED buried_jobs
    <3>1. /\ job_state' = [job_state EXCEPT ![j] = "queued"]
          /\ Kept(reserved_jobs', buried_jobs', rq, BuriedNow)
      BY <1>3, <2>1 DEF SetState
    <3>2. "queued" # "buried"
      OBVIOUS
    <3>. HIDE DEF rq
    <3>. QED BY <3>1, <3>2
  <2>2. CASE buried_jobs' = L!AddTail(buried_jobs, j) /\ SetState(j, "buried")
    <3>1. /\ job_state' = [job_state EXCEPT ![j] = "buried"]
          /\ buried_jobs' = L!AddTail(buried_jobs, j)
      BY <2>2 DEF SetState
    <3>2. Linked(buried_jobs, BuriedNow) /\ Distinct(BuriedNow)
      BY <1>1, LinkedParts, Zenon DEF Kept
    <3>3. j \in Ids \ ToSet(BuriedNow)
      BY <1>2, ListedIds
    <3>4. Linked(L!AddTail(buried_jobs, j), Append(BuriedNow, j))
      BY <3>2, <3>3, AddTailLinked
    <3>5. ToSet(Append(BuriedNow, j)) = ToSet(BuriedNow) \union {j}
      BY <3>2, <3>3, AppendIs
    <3>6. Kept(reserved_jobs', buried_jobs', rq, Append(BuriedNow, j))
      BY <1>3, <3>1, <3>4, KeptBuried
    <3>. HIDE DEF rq
    <3>. QED BY <3>1, <3>5, <3>6
  <2>3. CASE buried_jobs' = buried_jobs /\ SetState(j, "lost")
    <3>1. /\ job_state' = [job_state EXCEPT ![j] = "lost"]
          /\ Kept(reserved_jobs', buried_jobs', rq, BuriedNow)
      BY <1>3, <2>3 DEF SetState
    <3>2. "lost" # "buried"
      OBVIOUS
    <3>. HIDE DEF rq
    <3>. QED BY <3>1, <3>2
  <2>. QED BY <2>1, <2>2, <2>3 DEF BuryJob
<1>5. PICK p :
        /\ job_state' = [job_state EXCEPT ![j] = x] /\ Kept(reserved_jobs', buried_jobs', rq, p)
        /\ ToSet(p) = IF x = "buried" THEN ToSet(BuriedNow) \union {j} ELSE ToSet(BuriedNow)
        /\ p \in {BuriedNow, Append(BuriedNow, j)}
  BY <1>4
<1>6. x \in {"none", "queued", "buried", "lost"} /\ x # "none" /\ x \in States
  BY <1>5 DEF States
<1>7. Placed(rq, p, job_state')
  BY <1>1, <1>3, <1>5, <1>6, PlacedRemove
<1>. HIDE DEF rq
<1>8. ListsInv(reserved_jobs, buried_jobs, job_state)' /\ ReservedNow' = rq /\ BuriedNow' = p
  BY <1>5, <1>7, NextLists
<1>9. Known(job_state') = Known(job_state)
  BY <1>1, <1>2, <1>5, <1>6, KnownSame
<1>10. TableInv(all_jobs, next_job_id, job_state)' /\ FoundNow' = FoundNow /\ Whole' = Whole
  BY <1>9, SameTable
<1>11. StoreInv'
  BY <1>8, <1>10 DEF StoreInv
<1>12. ReservedNow' = [ReservedNow EXCEPT ![c] = RemoveFirst(@, j)]
  BY <1>3, <1>8 DEF rq
<1>13. BuriedNow' \in {BuriedNow, Append(BuriedNow, j)}
  BY <1>5, <1>8
<1>14. Plain!Next
  BY <1>2, <1>3, <1>10, <1>12, <1>13, PlainGiveBack
<1>. QED BY <1>11, <1>14 DEF Stepped

\* A job that remove_reserved_job finds is one of the sequence.
LEMMA FoundReserved ==
  ASSUME StoreInv, NEW c \in StoreConns, NEW j \in Ids, L!SearchKey(reserved_jobs[c], j) = j
  PROVE  j \in ToSet(ReservedNow[c])
<1>1. Linked(reserved_jobs[c], ReservedNow[c])
  BY InvParts, Zenon DEF Kept
<1>2. \E i \in 1 .. Len(ReservedNow[c]) : ReservedNow[c][i] = j
  <2>1. PICK l, s : l = reserved_jobs[c] /\ s = ReservedNow[c]
    OBVIOUS
  <2>2. Linked(l, s) /\ L!SearchKey(l, j) = j
    BY <1>1, <2>1
  <2>3. \E i \in 1 .. Len(s) : s[i] = j
    BY <2>2, SearchIs
  <2>. QED BY <2>1, <2>3
<1>3. Distinct(ReservedNow[c])
  BY <1>1, LinkedParts, Zenon
<1>. QED BY <1>2, <1>3, Parts, Zenon

LEMMA GiveBackStep ==
  ASSUME StoreInv, NEW c \in StoreConns, NEW j \in Ids, GiveBack(c, j)
  PROVE  Stepped
<1>1. j \in ToSet(ReservedNow[c])
  BY FoundReserved DEF GiveBack, RemoveReserved
<1>. QED BY <1>1, BackStep DEF GiveBack, RemoveReserved

LEMMA CloseStep ==
  ASSUME StoreInv, NEW c \in StoreConns, CloseReserved(c)
  PROVE  Stepped
<1>1. PICK j : j = reserved_jobs[c].head
  OBVIOUS
<1>2. Linked(reserved_jobs[c], ReservedNow[c])
  BY InvParts, Zenon DEF Kept
<1>3. j \in ToSet(ReservedNow[c])
  BY <1>1, <1>2, FirstOff DEF CloseReserved
<1>. QED BY <1>1, <1>3, BackStep DEF CloseReserved

LEMMA KickStep ==
  ASSUME StoreInv, KickBuried
  PROVE  Stepped
<1>1. PICK j, left : /\ j = buried_jobs.head /\ left = L!DeleteNode(buried_jobs, j)
                     /\ \/ SetState(j, "queued") /\ buried_jobs' = left
                        \/ BuryJob(j, left)
                     /\ buried_jobs.len # 0
                     /\ UNCHANGED <<all_jobs, next_job_id, reserved_jobs>>
  BY DEF KickBuried
<1>2. /\ Kept(reserved_jobs, buried_jobs, ReservedNow, BuriedNow)
      /\ Placed(ReservedNow, BuriedNow, job_state) /\ job_state \in [Ids -> States]
  BY InvParts, Zenon
<1>3. Linked(buried_jobs, BuriedNow)
  BY <1>2, Zenon DEF Kept
<1>4. PICK q : /\ q = Tail(BuriedNow) /\ BuriedNow # <<>> /\ j = Head(BuriedNow)
               /\ j \in ToSet(BuriedNow) /\ j \in Ids /\ Linked(left, q)
               /\ ToSet(q) = ToSet(BuriedNow) \ {j}
  <2>1. BuriedNow # <<>> /\ j = Head(BuriedNow)
    BY <1>1, <1>3, FirstOff
  <2>2. /\ Head(BuriedNow) \in ToSet(BuriedNow) /\ Head(BuriedNow) \in Ids
        /\ Linked(L!DeleteNode(buried_jobs, Head(BuriedNow)), Tail(BuriedNow))
        /\ ToSet(Tail(BuriedNow)) = ToSet(BuriedNow) \ {Head(BuriedNow)}
    BY <1>1, <1>3, FirstOff
  <2>. QED BY <1>1, <2>1, <2>2
<1>5. job_state[j] = "buried"
  BY <1>4, ListedIds
<1>6. PICK x \in {"queued", "buried", "lost"} :
      \E p :
        /\ job_state' = [job_state EXCEPT ![j] = x] /\ Linked(buried_jobs', p)
        /\ ToSet(p) = IF x = "buried" THEN ToSet(BuriedNow) ELSE ToSet(BuriedNow) \ {j}
        /\ p \in {q, Append(q, j)}
  <2>1. CASE SetState(j, "queued") /\ buried_jobs' = left
    <3>1. "queued" # "buried"
      OBVIOUS
    <3>. QED BY <1>4, <2>1, <3>1 DEF SetState
  <2>2. CASE buried_jobs' = L!AddTail(left, j) /\ SetState(j, "buried")
    <3>1. /\ job_state' = [job_state EXCEPT ![j] = "buried"] /\ buried_jobs' = L!AddTail(left, j)
      BY <2>2 DEF SetState
    <3>2. j \in Ids \ ToSet(q) /\ Distinct(q)
      BY <1>4, LinkedParts
    <3>3. Linked(L!AddTail(left, j), Append(q, j))
      BY <1>4, <3>2, AddTailLinked
    <3>4. ToSet(Append(q, j)) = ToSet(q) \union {j}
      BY <3>2, AppendIs
    <3>. QED BY <1>4, <3>1, <3>3, <3>4
  <2>3. CASE buried_jobs' = left /\ SetState(j, "lost")
    <3>1. "lost" # "buried"
      OBVIOUS
    <3>. QED BY <1>4, <2>3, <3>1 DEF SetState
  <2>. QED BY <1>1, <2>1, <2>2, <2>3 DEF BuryJob
<1>7. PICK p :
        /\ job_state' = [job_state EXCEPT ![j] = x] /\ Linked(buried_jobs', p)
        /\ ToSet(p) = IF x = "buried" THEN ToSet(BuriedNow) ELSE ToSet(BuriedNow) \ {j}
        /\ p \in {q, Append(q, j)}
  BY <1>6
<1>8. x \in {"none", "queued", "buried", "lost"} /\ x # "none" /\ x \in States /\ job_state[j] # "none"
  BY <1>5, <1>7 DEF States
<1>9. Placed(ReservedNow, p, job_state')
  BY <1>2, <1>4, <1>7, <1>8, PlacedKick
<1>10. Kept(reserved_jobs', buried_jobs', ReservedNow, p)
  BY <1>1, <1>2, <1>7, KeptBuried
<1>11. ListsInv(reserved_jobs, buried_jobs, job_state)' /\ ReservedNow' = ReservedNow /\ BuriedNow' = p
  BY <1>9, <1>10, NextLists
<1>12. Known(job_state') = Known(job_state)
  BY <1>2, <1>4, <1>7, <1>8, KnownSame
<1>13. TableInv(all_jobs, next_job_id, job_state)' /\ FoundNow' = FoundNow /\ Whole' = Whole
  BY <1>1, <1>12, SameTable
<1>14. StoreInv'
  BY <1>11, <1>13 DEF StoreInv
<1>15. BuriedNow' \in {Tail(BuriedNow), Append(Tail(BuriedNow), Head(BuriedNow))}
  BY <1>4, <1>7, <1>11
<1>16. Plain!Next
  BY <1>4, <1>11, <1>13, <1>15, PlainKick
<1>. QED BY <1>14, <1>16 DEF Stepped

\* A job is freed: what becomes of the table.
LEMMA Freed ==
  ASSUME StoreInv, NEW j \in Ids, Found(j), FreeJob(j), next_job_id' = next_job_id
  PROVE  /\ TableInv(all_jobs, next_job_id, job_state)'
         /\ Whole /\ Whole' /\ j \in FoundNow /\ FoundNow' = FoundNow \ {j}
<1>1. /\ Whole /\ j \in FoundNow /\ all_jobs' = T!HashDelete(all_jobs, j)
      /\ job_state' = [job_state EXCEPT ![j] = "none"]
  BY DEF Found, FoundNow, FreeJob, SetState
<1>2. FoundNow = Known(job_state)
  BY <1>1, FoundIs
<1>3. /\ next_job_id \in Nat \ {0} /\ (\A i \in Known(job_state) : i < next_job_id)
      /\ Holds(all_jobs, Known(job_state))
  BY <1>1, InvParts DEF TableInv, Whole
<1>4. Known(job_state') = Known(job_state) \ {j}
  BY <1>1, InvParts, KnownMore
<1>5. Holds(all_jobs', Known(job_state'))
  <2>1. Holds(T!HashDelete(all_jobs, j), Known(job_state) \ {j})
    BY <1>1, <1>2, <1>3, DeleteHolds
  <2>. QED BY <1>1, <1>4, <2>1
<1>6. Whole'
  BY <1>5, HoldsData DEF Whole
<1>7. FoundNow' = Known(job_state')
  <2>1. \A i \in Ids : T!HashHas(all_jobs', i) <=> i \in Known(job_state')
    BY <1>5, HasIs
  <2>. QED BY <1>6, <2>1 DEF FoundNow, Found, Known
<1>8. TableInv(all_jobs', next_job_id', job_state')
  BY <1>3, <1>4, <1>5 DEF TableInv
<1>. QED BY <1>1, <1>2, <1>4, <1>6, <1>7, <1>8

LEMMA DeleteStep ==
  ASSUME StoreInv, NEW c \in StoreConns, NEW j \in Ids, Delete(c, j)
  PROVE  Stepped
<1>1. /\ Found(j) /\ FreeJob(j) /\ next_job_id' = next_job_id
      /\ job_state' = [job_state EXCEPT ![j] = "none"]
  BY DEF Delete, FreeJob, SetState
<1>2. /\ Kept(reserved_jobs, buried_jobs, ReservedNow, BuriedNow)
      /\ Placed(ReservedNow, BuriedNow, job_state) /\ job_state \in [Ids -> States]
      /\ ReservedNow = [d \in StoreConns |-> ReservedNow[d]]
  BY InvParts, Zenon
<1>3. /\ TableInv(all_jobs, next_job_id, job_state)'
      /\ Whole /\ Whole' /\ j \in FoundNow /\ FoundNow' = FoundNow \ {j}
  BY <1>1, Freed
<1>4. CASE RemoveReserved(c, j) /\ UNCHANGED buried_jobs
  <2>1. /\ reserved_jobs' = [reserved_jobs EXCEPT ![c] = L!DeleteNode(@, j)]
        /\ j \in ToSet(ReservedNow[c])
    BY <1>4, FoundReserved DEF RemoveReserved
  <2>2. PICK q : /\ q = RemoveFirst(ReservedNow[c], j)
                 /\ ToSet(q) = ToSet(ReservedNow[c]) \ {j} /\ Contains(ReservedNow[c], j)
                 /\ Kept(reserved_jobs', buried_jobs, [ReservedNow EXCEPT ![c] = q], BuriedNow)
    BY <2>1, TakenOff
  <2>. DEFINE rq == [ReservedNow EXCEPT ![c] = q]
  <2>3. Kept(reserved_jobs', buried_jobs', rq, BuriedNow)
    BY <1>4, <2>2
  <2>4. Placed(rq, BuriedNow, job_state')
    <3>1. "none" \in {"none", "queued", "buried", "lost"} /\ "none" # "buried"
      OBVIOUS
    <3>. QED BY <1>1, <1>2, <2>1, <2>2, <3>1, PlacedRemove
  <2>. HIDE DEF rq
  <2>5. ListsInv(reserved_jobs, buried_jobs, job_state)' /\ ReservedNow' = rq /\ BuriedNow' = BuriedNow
    BY <2>3, <2>4, NextLists
  <2>6. ReservedNow' = [ReservedNow EXCEPT ![c] = RemoveFirst(@, j)]
    BY <2>2, <2>5 DEF rq
  <2>7. Plain!Next
    BY <1>3, <2>2, <2>5, <2>6, PlainDelete
  <2>. QED BY <1>3, <2>5, <2>7 DEF Stepped, StoreInv
<1>5. CASE job_state[j] = "queued" /\ UNCHANGED <<reserved_jobs, buried_jobs>>
  <2>1. Placed(ReservedNow, BuriedNow, job_state')
    BY <1>1, <1>2, <1>5, PlacedOutside
  <2>2. Kept(reserved_jobs', buried_jobs', ReservedNow, BuriedNow)
    BY <1>2, <1>5
  <2>3. /\ ListsInv(reserved_jobs, buried_jobs, job_state)'
        /\ ReservedNow' = ReservedNow /\ BuriedNow' = BuriedNow
    BY <2>1, <2>2, NextLists
  <2>4. j \notin Plain!Listed
    BY <1>2, <1>5, NotListed
  <2>5. Plain!Next
    BY <1>3, <2>3, <2>4, PlainDelete
  <2>. QED BY <1>3, <2>3, <2>5 DEF Stepped, StoreInv
<1>6. CASE /\ job_state[j] = "buried" /\ buried_jobs.head = j
           /\ buried_jobs' = L!DeleteNode(buried_jobs, j) /\ UNCHANGED reserved_jobs
  <2>1. Linked(buried_jobs, BuriedNow)
    BY <1>2, Zenon DEF Kept
  <2>2. buried_jobs.len # 0
    BY <1>6, <2>1, HeadMeans
  <2>3. PICK q : /\ q = Tail(BuriedNow) /\ BuriedNow # <<>> /\ j = Head(BuriedNow)
                 /\ j \in ToSet(BuriedNow) /\ Linked(L!DeleteNode(buried_jobs, j), q)
                 /\ ToSet(q) = ToSet(BuriedNow) \ {j}
    <3>1. BuriedNow # <<>> /\ j = Head(BuriedNow)
      BY <1>6, <2>1, <2>2, FirstOff
    <3>2. /\ Head(BuriedNow) \in ToSet(BuriedNow)
          /\ Linked(L!DeleteNode(buried_jobs, Head(BuriedNow)), Tail(BuriedNow))
          /\ ToSet(Tail(BuriedNow)) = ToSet(BuriedNow) \ {Head(BuriedNow)}
      BY <2>1, <2>2, FirstOff
    <3>. QED BY <3>1, <3>2
  <2>4. Kept(reserved_jobs', buried_jobs', ReservedNow, q)
    BY <1>2, <1>6, <2>3, KeptBuried
  <2>5. Placed(ReservedNow, q, job_state')
    <3>1. "none" \in {"none", "queued", "buried", "lost"} /\ "none" # "buried"
      OBVIOUS
    <3>. QED BY <1>1, <1>2, <2>3, <3>1, PlacedKick
  <2>6. /\ ListsInv(reserved_jobs, buried_jobs, job_state)'
        /\ ReservedNow' = ReservedNow /\ BuriedNow' = q
    BY <2>4, <2>5, NextLists
  <2>7. Plain!Next
    BY <1>3, <2>3, <2>6, PlainDelete
  <2>. QED BY <1>3, <2>6, <2>7 DEF Stepped, StoreInv
<1>. QED BY <1>4, <1>5, <1>6 DEF Delete

LEMMA StartInv ==
  ASSUME StoreInit
  PROVE  StoreInv /\ Plain!Init
<1>1. /\ all_jobs = T!HashInit(InitSlots) /\ next_job_id = 1
      /\ reserved_jobs = [c \in StoreConns |-> L!EmptyList]
      /\ buried_jobs = L!EmptyList /\ job_state = [j \in Ids |-> "none"]
  BY DEF StoreInit
<1>. DEFINE rq == [c \in StoreConns |-> <<>>]
<1>2. Kept(reserved_jobs, buried_jobs, rq, <<>>)
  BY <1>1, EmptyLinked DEF Kept
<1>3. ToSet(<<>>) = {}
  BY DEF ToSet
<1>4. job_state \in [Ids -> States]
  BY <1>1 DEF States
<1>5. Placed(rq, <<>>, job_state)
  BY <1>3, <1>4 DEF Placed
<1>6. ListsInv(reserved_jobs, buried_jobs, job_state) /\ ReservedNow = rq /\ BuriedNow = <<>>
  BY <1>2, <1>5, MakeLists DEF ReservedNow, BuriedNow
<1>7. Known(job_state) = {}
  BY <1>1 DEF Known
<1>8. Holds(all_jobs, {})
  BY <1>1, InitHolds, StoreAssumption
<1>9. StoreInv
  BY <1>1, <1>6, <1>7, <1>8 DEF StoreInv, TableInv
<1>10. Whole
  BY <1>8, HoldsData DEF Whole
<1>11. FoundNow = {}
  BY <1>7, <1>9, <1>10, FoundIs
<1>12. Plain!Init
  BY <1>6, <1>10, <1>11 DEF Plain!Init, FoundNow, ReservedNow, ReservedOf, BuriedNow
<1>. QED BY <1>9, <1>12

LEMMA NextStep ==
  ASSUME StoreInv, StoreNext
  PROVE  Stepped
<1>1. CASE Put
  BY <1>1, PutStep
<1>2. CASE PutFails
  BY <1>2, PutFailsStep
<1>3. CASE KickBuried
  BY <1>3, KickStep
<1>4. ASSUME NEW c \in StoreConns, CloseReserved(c)  PROVE Stepped
  BY <1>4, CloseStep
<1>5. ASSUME NEW c \in StoreConns, NEW j \in Ids, Reserve(c, j)  PROVE Stepped
  BY <1>5, ReserveStep
<1>6. ASSUME NEW c \in StoreConns, NEW j \in Ids, GiveBack(c, j)  PROVE Stepped
  BY <1>6, GiveBackStep
<1>7. ASSUME NEW c \in StoreConns, NEW j \in Ids, Delete(c, j)  PROVE Stepped
  BY <1>7, DeleteStep
<1>. QED BY <1>1, <1>2, <1>3, <1>4, <1>5, <1>6, <1>7 DEF StoreNext

\* The invariant holds.
THEOREM StoreInvariant == StoreSpec => []StoreInv
<1>1. StoreInit => StoreInv
  BY StartInv
<1>2. StoreInv /\ [StoreNext]_storeVars => StoreInv'
  <2>1. ASSUME StoreInv, StoreNext  PROVE StoreInv'
    BY <2>1, NextStep DEF Stepped
  <2>2. ASSUME StoreInv, UNCHANGED storeVars  PROVE StoreInv'
    BY <2>2 DEF storeVars, StoreInv
  <2>. QED BY <2>1, <2>2
<1>. QED BY <1>1, <1>2, PTL DEF StoreSpec

\* The count of the table, by which hash_insert decides when to grow, is that of
\* the jobs, over inserts that fail, growth and deletes.
THEOREM CountIsExact == StoreSpec => []CountExact
<1>1. StoreInv => CountExact
  BY HoldsParts DEF StoreInv, TableInv, CountExact, Whole, Known
<1>. QED BY <1>1, StoreInvariant, PTL

\* Walked from the tail a list is the reverse of what it is walked from the head,
\* and as long as its len.
THEOREM ListsAreMirrored == StoreSpec => []ListsMirrored
<1>1. ASSUME NEW l, NEW s, Linked(l, s)
      PROVE  L!Backward(l) = Reverse(L!Forward(l)) /\ Len(L!Forward(l)) = l.len
  BY <1>1, ForwardIs, BackwardIs, LinkedParts
<1>2. StoreInv => ListsMirrored
  <2>1. ASSUME StoreInv  PROVE Linked(buried_jobs, BuriedNow) /\ \A c \in StoreConns : Linked(reserved_jobs[c], ReservedNow[c])
    BY <2>1, InvParts, Zenon DEF Kept
  <2>. QED BY <1>1, <2>1 DEF ListsMirrored
<1>. QED BY <1>2, StoreInvariant, PTL

\* Table and lists implement the set of ids and the sequences.
THEOREM SequencesImplemented == StoreSpec => ImplementsSequences
<1>1. StoreInit => Plain!Init
  BY StartInv
<1>2. StoreInv /\ [StoreNext]_storeVars => [UNCHANGED storeVars \/ Plain!Next]_(Plain!seqVars)
  <2>1. ASSUME StoreInv, StoreNext  PROVE Plain!Next \/ UNCHANGED Plain!seqVars
    BY <2>1, NextStep DEF Stepped
  <2>. QED BY <2>1
<1>. QED BY <1>1, <1>2, StoreInvariant, PTL DEF StoreSpec, ImplementsSequences

\* The same as the specification of JobSequences: a step that leaves the store alone
\* leaves what it stands for alone.
THEOREM ImplementsPlain == StoreSpec => Plain!Spec
<1>1. UNCHANGED storeVars => UNCHANGED Plain!seqVars
  <2>1. ASSUME UNCHANGED storeVars  PROVE UNCHANGED Plain!seqVars
    BY <2>1 DEF storeVars, Plain!seqVars, Found, Whole
  <2>. QED BY <2>1
<1>2. [UNCHANGED storeVars \/ Plain!Next]_(Plain!seqVars) => [Plain!Next]_(Plain!seqVars)
  BY <1>1
<1>. QED BY <1>2, SequencesImplemented, PTL DEF ImplementsSequences, Plain!Spec

===============================================================================
