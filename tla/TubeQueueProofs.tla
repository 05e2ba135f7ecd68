---------------------------- MODULE TubeQueueProofs ----------------------------
(* The ready heap stays a heap with exact positions, and heap and waiting set   *)
(* are the priority queue and the set of TubeMatching, for every number of jobs *)
(* and connections.                                                             *)
EXTENDS TubeQueue, RecursionFacts, FiniteSetTheorems

(* The turns of the two sifts.                                                  *)

DownTurn(s) == H!Turn(s, H!Higher(s.heap, Rank, s.at))
UpTurn(s)   == H!Turn(s, H!Lower(s.heap, Rank, s.at))

\* f is what T does to s in k turns; T stays in S, and left says how many turns are
\* left at most.
Turns(f, T, s, k) == f[0] = s /\ \A n \in 1 .. k : f[n - 1] \in DOMAIN T => f[n] = T[f[n - 1]]

StaysIn(T, S) == T \in [S -> S]

Nearer(T, left, S) == left \in [S -> Nat] /\ \A s \in S : T[s] = s \/ left[T[s]] < left[s]

\* Turns can be defined by recursion.
LEMMA Repeated ==
  ASSUME NEW S, NEW T, StaysIn(T, S), NEW s \in S, NEW k \in Nat
  PROVE  \E f : Turns(f, T, s, k) /\ \A n \in 0 .. k : f[n] \in S
<1>. DEFINE Upto(m, f) == /\ f \in [0 .. m -> S]
                          /\ f = [n \in 0 .. m |-> IF n = 0 THEN s ELSE T[f[n - 1]]]
            R == {m \in Nat : \E f : Upto(m, f)}
<1>1. 0 \in R
  <2>. DEFINE g == [n \in 0 .. 0 |-> s]
  <2>1. Upto(0, g)
    OBVIOUS
  <2>. QED BY <2>1
<1>2. ASSUME NEW m \in Nat, m \in R  PROVE m + 1 \in R
  <2>1. PICK f : Upto(m, f)
    BY <1>2
  <2>. DEFINE g == [n \in 0 .. m + 1 |-> IF n = 0 THEN s ELSE T[f[n - 1]]]
  <2>2. \A n \in 0 .. m : g[n] = f[n]
    BY <2>1
  <2>3. g \in [0 .. m + 1 -> S]
    BY <2>1 DEF StaysIn
  <2>. HIDE DEF g
  <2>4. ASSUME NEW n \in 0 .. m + 1, n # 0  PROVE g[n - 1] = f[n - 1]
    <3>1. n - 1 \in 0 .. m
      BY <2>4
    <3>. QED BY <2>2, <3>1
  <2>5. g = [n \in 0 .. m + 1 |-> IF n = 0 THEN s ELSE T[g[n - 1]]]
    BY <2>4 DEF g
  <2>. QED BY <2>3, <2>5
<1>. HIDE DEF R
<1>3. k \in R
  BY <1>1, <1>2, AllNaturals
<1>4. PICK f : Upto(k, f)
  BY <1>3 DEF R
<1>5. Turns(f, T, s, k)
  BY <1>4 DEF Turns
<1>. QED BY <1>4, <1>5

\* Turns that come nearer to an end have come to it after that many of them.
LEMMA Settled ==
  ASSUME NEW S, NEW T, StaysIn(T, S), NEW left, Nearer(T, left, S),
         NEW s \in S, NEW k \in Nat, left[s] <= k, NEW f, Turns(f, T, s, k)
  PROVE  f[k] \in S /\ T[f[k]] = f[k]
<1>. DEFINE R == {n \in Nat : n <= k => f[n] \in S /\ (T[f[n]] = f[n] \/ left[f[n]] + n <= k)}
<1>. /\ T \in [S -> S] /\ left \in [S -> Nat]
     /\ \A t \in S : T[t] = t \/ left[T[t]] < left[t]
     /\ f[0] = s /\ \A n \in 1 .. k : f[n - 1] \in S => f[n] = T[f[n - 1]]
  BY DEF StaysIn, Nearer, Turns
<1>1. 0 \in R
  OBVIOUS
<1>2. ASSUME NEW n \in Nat, n \in R  PROVE n + 1 \in R
  <2>. SUFFICES ASSUME n + 1 <= k
                PROVE  f[n + 1] \in S /\ (T[f[n + 1]] = f[n + 1] \/ left[f[n + 1]] + (n + 1) <= k)
    OBVIOUS
  <2>1. f[n] \in S /\ (T[f[n]] = f[n] \/ left[f[n]] + n <= k)
    BY <1>2
  <2>2. f[n + 1] = T[f[n]] /\ T[f[n]] \in S
    <3>1. n + 1 \in 1 .. k /\ (n + 1) - 1 = n
      OBVIOUS
    <3>2. f[(n + 1) - 1] \in S
      BY <2>1, <3>1, Zenon
    <3>3. f[n + 1] = T[f[(n + 1) - 1]]
      BY <3>1, <3>2, Zenon
    <3>. QED BY <2>1, <3>1, <3>3
  <2>3. CASE T[f[n]] = f[n]
    BY <2>1, <2>2, <2>3
  <2>4. CASE T[f[n]] # f[n]
    <3>1. left[T[f[n]]] < left[f[n]] /\ left[f[n]] + n <= k
      BY <2>1, <2>4
    <3>2. left[T[f[n]]] \in Nat /\ left[f[n]] \in Nat
      BY <2>1, <2>2
    <3>3. left[T[f[n]]] + (n + 1) <= k
      BY <3>1, <3>2
    <3>. QED BY <2>2, <3>3
  <2>. QED BY <2>3, <2>4
<1>. HIDE DEF R
<1>3. k \in R
  BY <1>1, <1>2, AllNaturals
<1>4. f[k] \in S /\ (T[f[k]] = f[k] \/ left[f[k]] + k <= k)
  BY <1>3 DEF R
<1>5. f[k] \in S /\ left[f[k]] \in Nat /\ T[f[k]] \in S /\ left[T[f[k]]] \in Nat
  BY <1>4
<1>6. CASE left[f[k]] + k <= k
  <2>1. ~ (left[T[f[k]]] < left[f[k]])
    BY <1>5, <1>6
  <2>. QED BY <1>5, <2>1
<1>. QED BY <1>4, <1>6

\* heap_siftdown ends in a state in which a turn changes nothing; S is what is known
\* of the states it goes through.
LEMMA DownTurns ==
  ASSUME NEW h, NEW k \in Nat, NEW S, [heap |-> h, at |-> k] \in S,
         \A s \in S : s.at \in Nat /\ DownTurn(s) \in S /\ (DownTurn(s) = s \/ DownTurn(s).at < s.at)
  PROVE  \E s \in S : H!SiftDown(h, Rank, k) = s.heap /\ DownTurn(s) = s
<1>. DEFINE T == [s \in S |-> DownTurn(s)]
            left == [s \in S |-> s.at]
            start == [heap |-> h, at |-> k]
            Upto(f) == f = [n \in 0 .. k |-> IF n = 0 THEN start ELSE DownTurn(f[n - 1])]
            turns == CHOOSE f : Upto(f)
<1>1. H!SiftDown(h, Rank, k) = turns[k].heap
  BY DEF H!SiftDown, DownTurn
<1>2. /\ StaysIn(T, S) /\ start \in S /\ left[start] <= k
      /\ DOMAIN T = S /\ \A s \in S : T[s] = DownTurn(s)
  BY DEF StaysIn
<1>3. Nearer(T, left, S)
  BY DEF Nearer
<1>. HIDE DEF T, left, start
<1>4. PICK f : Turns(f, T, start, k) /\ \A n \in 0 .. k : f[n] \in S
  BY <1>2, Repeated
<1>. DEFINE g == [n \in 0 .. k |-> f[n]]
<1>5. Upto(g)
  <2>1. ASSUME NEW n \in 1 .. k  PROVE n - 1 \in 0 .. k /\ f[n] = T[f[n - 1]]
    <3>1. n - 1 \in 0 .. k
      OBVIOUS
    <3>2. f[n - 1] \in DOMAIN T
      BY <1>2, <1>4, <3>1
    <3>. QED BY <1>4, <3>1, <3>2 DEF Turns
  <2>2. \A n \in 1 .. k : f[n] = DownTurn(f[n - 1])
    BY <1>2, <1>4, <2>1
  <2>3. \A n \in 0 .. k : g[n] = IF n = 0 THEN start ELSE DownTurn(g[n - 1])
    BY <1>4, <2>1, <2>2 DEF Turns
  <2>. QED BY <2>3
<1>6. Upto(turns)
  BY <1>5
<1>. HIDE DEF turns
<1>7. Turns(turns, T, start, k)
  <2>1. turns[0] = start /\ \A n \in 1 .. k : turns[n] = DownTurn(turns[n - 1])
    BY <1>6
  <2>2. \A n \in 1 .. k : turns[n - 1] \in DOMAIN T => turns[n] = T[turns[n - 1]]
    BY <1>2, <2>1
  <2>. QED BY <2>1, <2>2 DEF Turns
<1>8. turns[k] \in S /\ T[turns[k]] = turns[k]
  BY <1>2, <1>3, <1>7, Settled
<1>. QED BY <1>1, <1>2, <1>8

\* The same of heap_siftup.
LEMMA UpTurns ==
  ASSUME NEW h, h.len \in Nat, NEW k \in 0 .. h.len, NEW S, [heap |-> h, at |-> k] \in S,
         \A s \in S : s.at \in 0 .. h.len /\ UpTurn(s) \in S /\ (UpTurn(s) = s \/ UpTurn(s).at > s.at)
  PROVE  \E s \in S : H!SiftUp(h, Rank, k) = s.heap /\ UpTurn(s) = s
<1>. DEFINE T == [s \in S |-> UpTurn(s)]
            left == [s \in S |-> h.len - s.at]
            start == [heap |-> h, at |-> k]
            Upto(f) == f = [n \in 0 .. h.len |-> IF n = 0 THEN start ELSE UpTurn(f[n - 1])]
            turns == CHOOSE f : Upto(f)
<1>1. H!SiftUp(h, Rank, k) = turns[h.len].heap
  BY DEF H!SiftUp, UpTurn
<1>2. /\ StaysIn(T, S) /\ start \in S /\ left[start] <= h.len
      /\ DOMAIN T = S /\ \A s \in S : T[s] = UpTurn(s)
  BY DEF StaysIn
<1>3. Nearer(T, left, S)
  BY DEF Nearer
<1>. HIDE DEF T, left, start
<1>4. PICK f : Turns(f, T, start, h.len) /\ \A n \in 0 .. h.len : f[n] \in S
  BY <1>2, Repeated
<1>. DEFINE g == [n \in 0 .. h.len |-> f[n]]
<1>5. Upto(g)
  <2>1. ASSUME NEW n \in 1 .. h.len  PROVE n - 1 \in 0 .. h.len /\ f[n] = T[f[n - 1]]
    <3>1. n - 1 \in 0 .. h.len
      OBVIOUS
    <3>2. f[n - 1] \in DOMAIN T
      BY <1>2, <1>4, <3>1
    <3>. QED BY <1>4, <3>1, <3>2 DEF Turns
  <2>2. \A n \in 1 .. h.len : f[n] = UpTurn(f[n - 1])
    BY <1>2, <1>4, <2>1
  <2>3. \A n \in 0 .. h.len : g[n] = IF n = 0 THEN start ELSE UpTurn(g[n - 1])
    BY <1>4, <2>1, <2>2 DEF Turns
  <2>. QED BY <2>3
<1>6. Upto(turns)
  BY <1>5
<1>. HIDE DEF turns
<1>7. Turns(turns, T, start, h.len)
  <2>1. turns[0] = start /\ \A n \in 1 .. h.len : turns[n] = UpTurn(turns[n - 1])
    BY <1>6
  <2>2. \A n \in 1 .. h.len : turns[n - 1] \in DOMAIN T => turns[n] = T[turns[n - 1]]
    BY <1>2, <2>1
  <2>. QED BY <2>1, <2>2 DEF Turns
<1>8. turns[h.len] \in S /\ T[turns[h.len]] = turns[h.len]
  BY <1>2, <1>3, <1>7, Settled
<1>. QED BY <1>1, <1>2, <1>8

(* Positions.                                                                   *)

Heaps == [len  : 0 .. MaxJobs,
          data : [0 .. MaxJobs -> Jobs \union {NoJob}],
          pos  : [Jobs -> -1 .. MaxJobs]]

\* The jobs of J are the elements, each where pos says.
Placed(h, J) ==
  /\ \A i \in 0 .. h.len - 1 : h.data[i] \in J /\ h.pos[h.data[i]] = i
  /\ \A j \in J : h.pos[j] \in 0 .. h.len - 1 /\ h.data[h.pos[j]] = j

\* The same elements in other places.
Shuffled(h, g, J) ==
  g \in Heaps /\ g.len = h.len /\ Placed(g, J) /\ \A j \in Jobs \ J : g.pos[j] = h.pos[j]

LEMMA SlotsAre == H!Slots = 0 .. MaxJobs
<1>1. Cardinality(1 .. MaxJobs) = MaxJobs
  BY QueueAssumption, FS_Interval
<1>2. H!Cardinality(1 .. MaxJobs) = Cardinality(1 .. MaxJobs)
  BY DEF H!Cardinality, Cardinality
<1>. QED BY <1>1, <1>2 DEF H!Slots, Jobs

\* heap_set changes one slot and one position.
OneSet(h, g, k, x) ==
  /\ g \in Heaps /\ g.len = h.len
  /\ \A i \in 0 .. MaxJobs : g.data[i] = IF i = k THEN x ELSE h.data[i]
  /\ \A j \in Jobs : g.pos[j] = IF j = x THEN k ELSE h.pos[j]

LEMMA SetParts ==
  ASSUME NEW h \in Heaps, NEW k \in 0 .. MaxJobs, NEW x \in Jobs
  PROVE  OneSet(h, H!HeapSet(h, k, x), k, x)
<1>. DEFINE e == [h.data EXCEPT ![k] = x]
            q == [h.pos EXCEPT ![x] = k]
<1>1. /\ e \in [0 .. MaxJobs -> Jobs \union {NoJob}]
      /\ \A i \in 0 .. MaxJobs : e[i] = IF i = k THEN x ELSE h.data[i]
  <2>1. PICK d \in [0 .. MaxJobs -> Jobs \union {NoJob}] : d = h.data
    BY DEF Heaps
  <2>. QED BY <2>1
<1>2. /\ q \in [Jobs -> -1 .. MaxJobs]
      /\ \A j \in Jobs : q[j] = IF j = x THEN k ELSE h.pos[j]
  <2>1. PICK p \in [Jobs -> -1 .. MaxJobs] : p = h.pos
    BY DEF Heaps
  <2>2. k \in -1 .. MaxJobs
    BY QueueAssumption
  <2>. QED BY <2>1, <2>2
<1>3. H!HeapSet(h, k, x) = [[h EXCEPT !.data = e] EXCEPT !.pos = [[h EXCEPT !.data = e].pos EXCEPT ![x] = k]]
  BY DEF H!HeapSet
<1>4. [h EXCEPT !.data = e].pos = h.pos
  BY DEF Heaps
<1>5. H!HeapSet(h, k, x) = [[h EXCEPT !.data = e] EXCEPT !.pos = q]
  BY <1>3, <1>4
<1>. HIDE DEF e, q
<1>6. /\ H!HeapSet(h, k, x) \in Heaps
      /\ H!HeapSet(h, k, x).len = h.len
      /\ H!HeapSet(h, k, x).data = e
      /\ H!HeapSet(h, k, x).pos = q
  BY <1>1, <1>2, <1>5 DEF Heaps
<1>. QED BY <1>1, <1>2, <1>6 DEF OneSet

\* The parts of a heap.
LEMMA Parts ==
  ASSUME NEW h \in Heaps
  PROVE  /\ MaxJobs \in Nat /\ h.len \in Nat /\ h.len <= MaxJobs
         /\ \A i \in 0 .. MaxJobs : h.data[i] \in Jobs \union {NoJob}
         /\ \A j \in Jobs : h.pos[j] \in Int
         /\ 0 .. h.len - 1 \subseteq 0 .. MaxJobs
BY QueueAssumption DEF Heaps

\* Two elements change places and both know it.
LEMMA Swapped ==
  ASSUME NEW h \in Heaps, NEW J \in SUBSET Jobs, Placed(h, J),
         NEW a \in 0 .. h.len - 1, NEW b \in 0 .. h.len - 1, a # b
  PROVE  /\ Shuffled(h, H!HeapSwap(h, a, b), J)
         /\ \A i \in 0 .. h.len - 1 :
              H!HeapSwap(h, a, b).data[i] = IF i = a THEN h.data[b]
                                            ELSE IF i = b THEN h.data[a] ELSE h.data[i]
<1>1. PICK x, y \in J : x = h.data[a] /\ y = h.data[b] /\ x # y
  BY DEF Placed
<1>2. a \in 0 .. MaxJobs /\ b \in 0 .. MaxJobs /\ x \in Jobs /\ y \in Jobs
  BY <1>1, Parts
<1>3. PICK g \in Heaps : g = H!HeapSet(h, a, y)
  BY <1>2, SetParts DEF OneSet
<1>4. /\ g \in Heaps /\ g.len = h.len
      /\ \A i \in 0 .. MaxJobs : g.data[i] = IF i = a THEN y ELSE h.data[i]
      /\ \A j \in Jobs : g.pos[j] = IF j = y THEN a ELSE h.pos[j]
  <2>1. OneSet(h, g, a, y)
    BY <1>2, <1>3, SetParts
  <2>. QED BY <2>1 DEF OneSet
<1>5. PICK f \in Heaps : f = H!HeapSet(g, b, x)
  BY <1>2, SetParts DEF OneSet
<1>6. /\ f \in Heaps /\ f.len = h.len
      /\ \A i \in 0 .. MaxJobs : f.data[i] = IF i = b THEN x ELSE g.data[i]
      /\ \A j \in Jobs : f.pos[j] = IF j = x THEN b ELSE g.pos[j]
  <2>1. OneSet(g, f, b, x)
    BY <1>2, <1>5, SetParts
  <2>. QED BY <1>4, <2>1 DEF OneSet
<1>7. H!HeapSwap(h, a, b) = f
  BY <1>1, <1>3, <1>5 DEF H!HeapSwap
<1>8. \A i \in 0 .. h.len - 1 : f.data[i] = IF i = a THEN y ELSE IF i = b THEN x ELSE h.data[i]
  BY <1>4, <1>6, Parts
<1>9. \A j \in Jobs : f.pos[j] = IF j = y THEN a ELSE IF j = x THEN b ELSE h.pos[j]
  BY <1>1, <1>4, <1>6
<1>10. /\ \A i \in 0 .. h.len - 1 : h.data[i] \in J /\ h.pos[h.data[i]] = i
       /\ \A j \in J : h.pos[j] \in 0 .. h.len - 1 /\ h.data[h.pos[j]] = j
  BY DEF Placed
<1>11. ASSUME NEW i \in 0 .. h.len - 1  PROVE f.data[i] \in J /\ f.pos[f.data[i]] = i
  BY <1>1, <1>8, <1>9, <1>10
<1>12. ASSUME NEW j \in J  PROVE f.pos[j] \in 0 .. h.len - 1 /\ f.data[f.pos[j]] = j
  BY <1>1, <1>8, <1>9, <1>10
<1>13. Placed(f, J)
  BY <1>6, <1>11, <1>12 DEF Placed
<1>14. \A j \in Jobs \ J : f.pos[j] = h.pos[j]
  BY <1>1, <1>9
<1>15. Shuffled(h, f, J)
  BY <1>6, <1>13, <1>14 DEF Shuffled
<1>. QED BY <1>1, <1>7, <1>8, <1>15

(* Order.                                                                       *)

\* The element at i is behind its parent.
Above(h, i) == h.data[H!Parent(i)] < h.data[i]

Sorted(h) == \A i \in 1 .. h.len - 1 : Above(h, i)

\* What is below k is behind what is above it.
Bypass(h, k) ==
  \A i \in 1 .. h.len - 1 : k # 0 /\ H!Parent(i) = k => h.data[H!Parent(k)] < h.data[i]

\* The heap is in order but for the element at k, which may have to go up or down;
\* but for one that may have to go up, and for one that may have to go down.
Gap(h, k) == (\A i \in 1 .. h.len - 1 : i # k /\ H!Parent(i) # k => Above(h, i)) /\ Bypass(h, k)
Rising(h, k) == (\A i \in 1 .. h.len - 1 : i # k => Above(h, i)) /\ Bypass(h, k)
Sinking(h, k) == (\A i \in 1 .. h.len - 1 : H!Parent(i) # k => Above(h, i)) /\ Bypass(h, k)

\* A parent and its two children.
LEMMA Parents ==
  ASSUME NEW i \in Nat, i # 0
  PROVE  /\ H!Parent(i) \in Nat /\ H!Parent(i) < i
         /\ \A k \in Nat : H!Parent(i) = k <=> i = 2 * k + 1 \/ i = 2 * k + 2
BY DEF H!Parent

\* Elements are compared by their number, and are all different.
LEMMA Elements ==
  ASSUME NEW h \in Heaps, NEW J \in SUBSET Jobs, Placed(h, J)
  PROVE  /\ \A a \in 0 .. h.len - 1 : h.data[a] \in J /\ h.data[a] \in Int
         /\ \A a, b \in 0 .. h.len - 1 : /\ H!HeapLess(h, Rank, a, b) <=> h.data[a] < h.data[b]
                                         /\ h.data[a] = h.data[b] => a = b
<1>1. \A a \in 0 .. h.len - 1 : h.data[a] \in J /\ h.data[a] \in Jobs /\ h.pos[h.data[a]] = a
  BY DEF Placed
<1>2. \A j \in Jobs : Rank[j] = j /\ j \in Int
  BY DEF Rank, Jobs
<1>3. ASSUME NEW a \in 0 .. h.len - 1, NEW b \in 0 .. h.len - 1
      PROVE  /\ H!HeapLess(h, Rank, a, b) <=> h.data[a] < h.data[b]
             /\ h.data[a] = h.data[b] => a = b
  <2>1. h.data[a] = h.data[b] => a = b
    BY <1>1
  <2>2. H!HeapLess(h, Rank, a, b) <=> h.data[a] < h.data[b]
    BY <1>1, <1>2 DEF H!HeapLess
  <2>. QED BY <2>1, <2>2
<1>. QED BY <1>1, <1>2, <1>3

\* In a heap the element anywhere is behind what is above it and before what is below.
LEMMA SortedSinks ==
  ASSUME NEW h \in Heaps, NEW J \in SUBSET Jobs, Placed(h, J), Sorted(h), NEW k \in 0 .. h.len - 1
  PROVE  Sinking(h, k)
<1>1. ASSUME NEW i \in 1 .. h.len - 1, k # 0, H!Parent(i) = k
      PROVE  h.data[H!Parent(k)] < h.data[i]
  <2>1. k \in 1 .. h.len - 1 /\ h.len \in Nat
    BY <1>1, Parts
  <2>2. PICK p \in Nat : p = H!Parent(k) /\ p < k
    BY <2>1, Parents
  <2>3. h.data[p] < h.data[k] /\ h.data[k] < h.data[i]
    BY <1>1, <2>1, <2>2 DEF Sorted, Above
  <2>4. h.data[p] \in Int /\ h.data[k] \in Int /\ h.data[i] \in Int
    BY <2>1, <2>2, Elements
  <2>. QED BY <2>2, <2>3, <2>4
<1>. QED BY <1>1 DEF Sinking, Bypass, Sorted

\* A turn of heap_siftdown.
LEMMA DownStep ==
  ASSUME NEW h \in Heaps, NEW J \in SUBSET Jobs, Placed(h, J), NEW k \in 0 .. h.len - 1, Gap(h, k),
         NEW s, s.heap = h, s.at = k
  PROVE  \/ DownTurn(s) = s /\ Sinking(h, k) /\ (Rising(h, k) => Sorted(h))
         \/ \E g \in Heaps, p \in 0 .. k - 1 :
              DownTurn(s) = [heap |-> g, at |-> p] /\ Shuffled(h, g, J) /\ Rising(g, p)
<1>. h.len \in Nat
  BY Parts
<1>1. CASE k = 0
  <2>1. DownTurn(s) = s
    BY <1>1 DEF DownTurn, H!Turn, H!Higher
  <2>2. \A i \in 1 .. h.len - 1 : i # k
    BY <1>1
  <2>. QED BY <1>1, <2>1, <2>2 DEF Gap, Rising, Sinking, Sorted
<1>2. CASE k # 0
  <2>1. PICK p \in 0 .. k - 1 : p = H!Parent(k) /\ p \in 0 .. h.len - 1 /\ p # k
    BY <1>2, Parents
  <2>2. h.data[p] \in Int /\ h.data[k] \in Int /\ h.data[p] # h.data[k]
    BY <2>1, Elements
  <2>3. H!HeapLess(h, Rank, p, k) <=> h.data[p] < h.data[k]
    BY <2>1, Elements
  <2>4. CASE h.data[p] < h.data[k]
    <3>1. DownTurn(s) = s
      BY <2>1, <2>3, <2>4 DEF DownTurn, H!Turn, H!Higher
    <3>2. Above(h, k)
      BY <2>1, <2>4 DEF Above
    <3>3. Sinking(h, k) /\ (Rising(h, k) => Sorted(h))
      BY <3>2 DEF Gap, Rising, Sinking, Sorted
    <3>. QED BY <3>1, <3>3
  <2>5. CASE ~ (h.data[p] < h.data[k])
    <3>1. h.data[k] < h.data[p]
      BY <2>2, <2>5
    <3>2. DownTurn(s) = [heap |-> H!HeapSwap(h, k, p), at |-> p]
      BY <1>2, <2>1, <2>3, <2>5 DEF DownTurn, H!Turn, H!Higher
    <3>3. PICK g \in Heaps :
            /\ g = H!HeapSwap(h, k, p) /\ Shuffled(h, g, J) /\ g.len = h.len
            /\ \A i \in 0 .. h.len - 1 :
                 g.data[i] = IF i = k THEN h.data[p] ELSE IF i = p THEN h.data[k] ELSE h.data[i]
      BY <2>1, Swapped DEF Shuffled
    <3>4. ASSUME NEW i \in 1 .. h.len - 1, i # p  PROVE Above(g, i)
      <4>1. PICK q \in 0 .. h.len - 1 : q = H!Parent(i) /\ q < i
        BY Parents
      <4>2. i \in 0 .. h.len - 1 /\ h.data[i] \in Int /\ h.data[q] \in Int
        BY <4>1, Elements
      <4>3. CASE i = k
        BY <2>1, <3>1, <3>3, <4>1, <4>3 DEF Above
      <4>4. CASE i # k /\ q = k
        <5>1. h.data[p] < h.data[i]
          BY <1>2, <2>1, <4>1, <4>4 DEF Gap, Bypass
        <5>2. g.data[q] = h.data[p] /\ g.data[i] = h.data[i]
          BY <3>3, <3>4, <4>2, <4>4
        <5>. QED BY <4>1, <5>1, <5>2 DEF Above
      <4>5. CASE i # k /\ q # k
        <5>1. h.data[q] < h.data[i]
          BY <4>1, <4>5 DEF Gap, Above
        <5>2. g.data[i] = h.data[i] /\ (q # p => g.data[q] = h.data[q]) /\ (q = p => g.data[q] = h.data[k])
          BY <2>1, <3>3, <3>4, <4>2, <4>5
        <5>3. g.data[q] < g.data[i]
          BY <2>2, <3>1, <4>2, <5>1, <5>2
        <5>. QED BY <4>1, <5>3 DEF Above
      <4>. QED BY <4>3, <4>4, <4>5
    <3>5. ASSUME NEW i \in 1 .. h.len - 1, p # 0, H!Parent(i) = p
          PROVE  g.data[H!Parent(p)] < g.data[i]
      <4>1. PICK r \in 0 .. h.len - 1 : r = H!Parent(p) /\ r < p
        BY <2>1, <3>5, Parents
      <4>2. r # k /\ p \in 1 .. h.len - 1 /\ p < i /\ i \in 0 .. h.len - 1
        BY <2>1, <3>5, <4>1, Parents
      <4>3. h.data[r] < h.data[p]
        BY <2>1, <4>1, <4>2 DEF Gap, Above
      <4>4. h.data[r] \in Int /\ h.data[i] \in Int
        BY <4>1, <4>2, Elements
      <4>5. g.data[r] = h.data[r]
        BY <3>3, <4>1, <4>2
      <4>6. CASE i = k
        BY <3>3, <4>1, <4>2, <4>3, <4>5, <4>6
      <4>7. CASE i # k
        <5>1. h.data[p] < h.data[i] /\ g.data[i] = h.data[i]
          BY <2>1, <3>3, <3>5, <4>2, <4>7 DEF Gap, Above
        <5>2. h.data[r] < h.data[i]
          BY <2>2, <4>3, <4>4, <5>1
        <5>. QED BY <4>1, <4>5, <5>1, <5>2
      <4>. QED BY <4>6, <4>7
    <3>6. Rising(g, p)
      BY <3>3, <3>4, <3>5 DEF Rising, Bypass
    <3>. QED BY <2>1, <3>2, <3>3, <3>6
  <2>. QED BY <2>4, <2>5
<1>. QED BY <1>1, <1>2

\* The smallest of an element and its children.
LEMMA SmallestIs ==
  ASSUME NEW h \in Heaps, NEW J \in SUBSET Jobs, Placed(h, J), NEW k \in 0 .. h.len - 1,
         NEW c, c = H!Lower(h, Rank, k)
  PROVE  /\ \A i \in 1 .. h.len - 1 : H!Parent(i) = k /\ i # c => h.data[c] < h.data[i]
         /\ \/ c = k
            \/ c \in 1 .. h.len - 1 /\ H!Parent(c) = k /\ h.data[c] < h.data[k]
<1>. h.len \in Nat /\ k \in Nat
  BY Parts
<1>. DEFINE l == 2 * k + 1
            r == 2 * k + 2
            s == IF l < h.len /\ H!HeapLess(h, Rank, l, k) THEN l ELSE k
<1>1. c = IF r < h.len /\ H!HeapLess(h, Rank, r, s) THEN r ELSE s
  BY DEF H!Lower
<1>2. l \in Nat /\ r \in Nat /\ l # r /\ l # k /\ r # k /\ l # 0 /\ r # 0
  OBVIOUS
<1>3. /\ H!Parent(l) = k /\ H!Parent(r) = k
      /\ \A i \in 1 .. h.len - 1 : H!Parent(i) = k => i = l \/ i = r
  BY <1>2, Parents
<1>. HIDE DEF l, r
<1>4. /\ l < h.len => (H!HeapLess(h, Rank, l, k) <=> h.data[l] < h.data[k])
      /\ l < h.len => h.data[l] \in Int /\ h.data[l] # h.data[k]
      /\ h.data[k] \in Int
  BY <1>2, Elements
<1>5. s = IF l < h.len /\ h.data[l] < h.data[k] THEN l ELSE k
  BY <1>4
<1>. HIDE DEF s
<1>6. s \in 0 .. h.len - 1
  BY <1>2, <1>5
<1>7. r < h.len => (H!HeapLess(h, Rank, r, s) <=> h.data[r] < h.data[s])
  BY <1>2, <1>6, Elements
<1>8. r < h.len => h.data[r] \in Int /\ h.data[r] # h.data[k] /\ (l < h.len => h.data[r] # h.data[l])
  BY <1>2, Elements
<1>9. c = IF r < h.len /\ h.data[r] < h.data[s] THEN r ELSE s
  BY <1>1, <1>7
<1>10. CASE r < h.len /\ h.data[r] < h.data[s]
  <2>1. c = r /\ h.data[r] < h.data[k] /\ (l < h.len => h.data[r] < h.data[l])
    BY <1>4, <1>5, <1>8, <1>9, <1>10
  <2>. QED BY <1>2, <1>3, <1>10, <2>1
<1>11. CASE ~ (r < h.len /\ h.data[r] < h.data[s])
  <2>1. c = s /\ (r < h.len => h.data[s] < h.data[r])
    BY <1>4, <1>5, <1>8, <1>9, <1>11
  <2>2. CASE l < h.len /\ h.data[l] < h.data[k]
    BY <1>2, <1>3, <1>5, <2>1, <2>2
  <2>3. CASE ~ (l < h.len /\ h.data[l] < h.data[k])
    <3>1. c = k /\ (l < h.len => h.data[k] < h.data[l])
      BY <1>4, <1>5, <2>1, <2>3
    <3>. QED BY <1>3, <1>5, <2>1, <3>1
  <2>. QED BY <2>2, <2>3
<1>. QED BY <1>10, <1>11

\* A turn of heap_siftup.
LEMMA UpStep ==
  ASSUME NEW h \in Heaps, NEW J \in SUBSET Jobs, Placed(h, J), NEW k \in 0 .. h.len - 1, Sinking(h, k),
         NEW s, s.heap = h, s.at = k
  PROVE  \/ UpTurn(s) = s /\ Sorted(h)
         \/ \E g \in Heaps, c \in k + 1 .. h.len - 1 :
              UpTurn(s) = [heap |-> g, at |-> c] /\ Shuffled(h, g, J) /\ Sinking(g, c)
<1>. h.len \in Nat
  BY Parts
<1>1. PICK c : c = H!Lower(h, Rank, k)
  OBVIOUS
<1>2. /\ \A i \in 1 .. h.len - 1 : H!Parent(i) = k /\ i # c => h.data[c] < h.data[i]
      /\ c = k \/ (c \in 1 .. h.len - 1 /\ H!Parent(c) = k /\ h.data[c] < h.data[k])
  BY <1>1, SmallestIs
<1>3. CASE c = k
  <2>1. UpTurn(s) = s
    BY <1>1, <1>3 DEF UpTurn, H!Turn
  <2>2. \A i \in 1 .. h.len - 1 : H!Parent(i) = k => i # k
    BY Parents
  <2>3. Sorted(h)
    BY <1>2, <1>3, <2>2 DEF Sinking, Sorted, Above
  <2>. QED BY <2>1, <2>3
<1>4. CASE c # k
  <2>1. c \in 1 .. h.len - 1 /\ H!Parent(c) = k /\ h.data[c] < h.data[k]
    BY <1>2, <1>4
  <2>2. k < c /\ c \in 0 .. h.len - 1
    BY <2>1, Parents
  <2>3. UpTurn(s) = [heap |-> H!HeapSwap(h, k, c), at |-> c]
    BY <1>1, <1>4 DEF UpTurn, H!Turn
  <2>4. PICK g \in Heaps :
          /\ g = H!HeapSwap(h, k, c) /\ Shuffled(h, g, J) /\ g.len = h.len
          /\ \A i \in 0 .. h.len - 1 :
               g.data[i] = IF i = k THEN h.data[c] ELSE IF i = c THEN h.data[k] ELSE h.data[i]
    BY <1>4, <2>2, Swapped DEF Shuffled
  <2>5. ASSUME NEW i \in 1 .. h.len - 1, H!Parent(i) # c  PROVE Above(g, i)
    <3>1. PICK q \in 0 .. h.len - 1 : q = H!Parent(i) /\ q < i
      BY Parents
    <3>2. i \in 0 .. h.len - 1 /\ h.data[i] \in Int /\ h.data[q] \in Int
      BY <3>1, Elements
    <3>3. CASE i = k
      <4>1. h.data[q] < h.data[c]
        BY <2>1, <3>1, <3>3 DEF Sinking, Bypass
      <4>. QED BY <2>4, <2>5, <3>1, <3>3, <4>1 DEF Above
    <3>4. CASE i = c
      BY <2>1, <2>2, <2>4, <3>1, <3>4 DEF Above
    <3>5. CASE i # c /\ q = k
      <4>1. h.data[c] < h.data[i]
        BY <1>2, <3>1, <3>5
      <4>. QED BY <2>4, <3>1, <3>2, <3>5, <4>1 DEF Above
    <3>6. CASE i # c /\ i # k /\ q # k
      <4>1. h.data[q] < h.data[i]
        BY <3>1, <3>6 DEF Sinking, Above
      <4>. QED BY <2>4, <2>5, <3>1, <3>2, <3>6, <4>1 DEF Above
    <3>. QED BY <3>3, <3>4, <3>5, <3>6
  <2>6. ASSUME NEW i \in 1 .. h.len - 1, H!Parent(i) = c
        PROVE  g.data[H!Parent(c)] < g.data[i]
    <3>1. i \in 0 .. h.len - 1 /\ c < i /\ i # k
      BY <2>2, <2>6, Parents
    <3>2. h.data[c] < h.data[i]
      BY <1>4, <2>6 DEF Sinking, Above
    <3>. QED BY <2>1, <2>2, <2>4, <3>1, <3>2
  <2>7. Sinking(g, c)
    BY <2>4, <2>5, <2>6 DEF Sinking, Bypass
  <2>8. c \in k + 1 .. h.len - 1
    BY <2>2
  <2>. QED BY <2>3, <2>4, <2>7, <2>8
<1>. QED BY <1>3, <1>4

\* What is shuffled twice is shuffled.
LEMMA ShuffledTwice ==
  ASSUME NEW h, NEW g, NEW f, NEW J, Shuffled(h, g, J), Shuffled(g, f, J)
  PROVE  Shuffled(h, f, J)
BY DEF Shuffled

\* heap_siftdown puts an element in its place, or leaves it to heap_siftup.
LEMMA SiftedDown ==
  ASSUME NEW h \in Heaps, NEW J \in SUBSET Jobs, Placed(h, J), NEW k \in 0 .. h.len - 1, Gap(h, k)
  PROVE  /\ Shuffled(h, H!SiftDown(h, Rank, k), J) /\ Sinking(H!SiftDown(h, Rank, k), k)
         /\ Rising(h, k) => Sorted(H!SiftDown(h, Rank, k))
<1>. h.len \in Nat /\ k \in Nat
  BY Parts
<1>1. Shuffled(h, h, J)
  BY DEF Shuffled
<1>. DEFINE Good(s) == (s.heap = h /\ s.at = k) \/ Rising(s.heap, s.at)
            S == {s \in [heap : Heaps, at : 0 .. k] : Shuffled(h, s.heap, J) /\ Good(s)}
<1>2. [heap |-> h, at |-> k] \in S
  BY <1>1
<1>3. ASSUME NEW s \in S
      PROVE  /\ s.heap \in Heaps /\ s.at \in 0 .. k /\ Shuffled(h, s.heap, J) /\ Good(s)
             /\ Placed(s.heap, J) /\ s.heap.len = h.len /\ s.at \in 0 .. s.heap.len - 1
             /\ Gap(s.heap, s.at)
  <2>1. s.heap \in Heaps /\ s.at \in 0 .. k /\ Shuffled(h, s.heap, J) /\ Good(s)
    OBVIOUS
  <2>2. Placed(s.heap, J) /\ s.heap.len = h.len /\ s.at \in 0 .. s.heap.len - 1
    BY <2>1 DEF Shuffled
  <2>3. Rising(s.heap, s.at) => Gap(s.heap, s.at)
    BY DEF Rising, Gap
  <2>. QED BY <2>1, <2>2, <2>3
<1>4. ASSUME NEW s \in S
      PROVE  s.at \in Nat /\ DownTurn(s) \in S /\ (DownTurn(s) = s \/ DownTurn(s).at < s.at)
  <2>1. \/ DownTurn(s) = s
        \/ \E g \in Heaps, p \in 0 .. s.at - 1 :
             DownTurn(s) = [heap |-> g, at |-> p] /\ Shuffled(s.heap, g, J) /\ Rising(g, p)
    BY <1>3, DownStep
  <2>2. CASE DownTurn(s) = s
    BY <1>3, <2>2
  <2>3. CASE DownTurn(s) # s
    <3>1. PICK g \in Heaps, p \in 0 .. s.at - 1 :
            DownTurn(s) = [heap |-> g, at |-> p] /\ Shuffled(s.heap, g, J) /\ Rising(g, p)
      BY <2>1, <2>3
    <3>2. Shuffled(h, g, J)
      BY <1>3, <3>1, ShuffledTwice
    <3>3. p \in 0 .. k /\ p < s.at
      BY <1>3
    <3>. QED BY <1>3, <3>1, <3>2, <3>3
  <2>. QED BY <2>2, <2>3
<1>. HIDE DEF S
<1>5. PICK s \in S : H!SiftDown(h, Rank, k) = s.heap /\ DownTurn(s) = s
  BY <1>2, <1>4, DownTurns
<1>6. \/ DownTurn(s) = s /\ Sinking(s.heap, s.at) /\ (Rising(s.heap, s.at) => Sorted(s.heap))
      \/ \E g \in Heaps, p \in 0 .. s.at - 1 : DownTurn(s) = [heap |-> g, at |-> p]
  BY <1>3, DownStep
<1>7. ~ \E g \in Heaps, p \in 0 .. s.at - 1 : DownTurn(s) = [heap |-> g, at |-> p]
  <2>. SUFFICES ASSUME NEW g \in Heaps, NEW p \in 0 .. s.at - 1, DownTurn(s) = [heap |-> g, at |-> p]
                PROVE  FALSE
    OBVIOUS
  <2>1. s.at = p /\ s.at \in Int
    BY <1>3, <1>5
  <2>. QED BY <2>1
<1>8. Sinking(s.heap, s.at) /\ (Rising(s.heap, s.at) => Sorted(s.heap))
  BY <1>6, <1>7
<1>9. CASE s.heap = h /\ s.at = k
  BY <1>3, <1>5, <1>8, <1>9
<1>10. CASE Rising(s.heap, s.at)
  <2>1. Sorted(s.heap) /\ k \in 0 .. s.heap.len - 1
    BY <1>3, <1>8, <1>10
  <2>2. Sinking(s.heap, k)
    BY <1>3, <2>1, SortedSinks
  <2>. QED BY <1>3, <1>5, <2>1, <2>2
<1>. QED BY <1>3, <1>9, <1>10

\* heap_siftup puts it in its place.
LEMMA SiftedUp ==
  ASSUME NEW h \in Heaps, NEW J \in SUBSET Jobs, Placed(h, J), NEW k \in 0 .. h.len - 1, Sinking(h, k)
  PROVE  Shuffled(h, H!SiftUp(h, Rank, k), J) /\ Sorted(H!SiftUp(h, Rank, k))
<1>. h.len \in Nat /\ k \in Nat /\ k \in 0 .. h.len
  BY Parts
<1>1. Shuffled(h, h, J)
  BY DEF Shuffled
<1>. DEFINE S == {s \in [heap : Heaps, at : 0 .. h.len - 1] :
                    Shuffled(h, s.heap, J) /\ Sinking(s.heap, s.at)}
<1>2. [heap |-> h, at |-> k] \in S
  BY <1>1
<1>3. ASSUME NEW s \in S
      PROVE  /\ s.heap \in Heaps /\ s.at \in 0 .. h.len - 1 /\ Shuffled(h, s.heap, J)
             /\ Placed(s.heap, J) /\ s.heap.len = h.len /\ Sinking(s.heap, s.at)
  <2>1. s.heap \in Heaps /\ s.at \in 0 .. h.len - 1 /\ Shuffled(h, s.heap, J) /\ Sinking(s.heap, s.at)
    OBVIOUS
  <2>2. Placed(s.heap, J) /\ s.heap.len = h.len
    BY <2>1 DEF Shuffled
  <2>. QED BY <2>1, <2>2
<1>4. ASSUME NEW s \in S
      PROVE  s.at \in 0 .. h.len /\ UpTurn(s) \in S /\ (UpTurn(s) = s \/ UpTurn(s).at > s.at)
  <2>1. \/ UpTurn(s) = s
        \/ \E g \in Heaps, c \in s.at + 1 .. h.len - 1 :
             UpTurn(s) = [heap |-> g, at |-> c] /\ Shuffled(s.heap, g, J) /\ Sinking(g, c)
    BY <1>3, UpStep
  <2>2. CASE UpTurn(s) = s
    BY <1>3, <2>2
  <2>3. CASE UpTurn(s) # s
    <3>1. PICK g \in Heaps, c \in s.at + 1 .. h.len - 1 :
            UpTurn(s) = [heap |-> g, at |-> c] /\ Shuffled(s.heap, g, J) /\ Sinking(g, c)
      BY <2>1, <2>3
    <3>2. Shuffled(h, g, J)
      BY <1>3, <3>1, ShuffledTwice
    <3>3. c \in 0 .. h.len - 1 /\ c > s.at
      BY <1>3
    <3>. QED BY <1>3, <3>1, <3>2, <3>3
  <2>. QED BY <2>2, <2>3
<1>. HIDE DEF S
<1>5. PICK s \in S : H!SiftUp(h, Rank, k) = s.heap /\ UpTurn(s) = s
  BY <1>2, <1>4, UpTurns
<1>6. \/ UpTurn(s) = s /\ Sorted(s.heap)
      \/ \E g \in Heaps, c \in s.at + 1 .. h.len - 1 : UpTurn(s) = [heap |-> g, at |-> c]
  BY <1>3, UpStep
<1>7. ~ \E g \in Heaps, c \in s.at + 1 .. h.len - 1 : UpTurn(s) = [heap |-> g, at |-> c]
  <2>. SUFFICES ASSUME NEW g \in Heaps, NEW c \in s.at + 1 .. h.len - 1, UpTurn(s) = [heap |-> g, at |-> c]
                PROVE  FALSE
    OBVIOUS
  <2>1. s.at = c /\ s.at \in Int
    BY <1>3, <1>5
  <2>. QED BY <2>1
<1>. QED BY <1>3, <1>5, <1>6, <1>7

(* The heap.                                                                    *)

\* A heap of the jobs of J, and no other job believes to be in it.
IsHeap(h, J) ==
  /\ h \in Heaps /\ J \in SUBSET Jobs /\ Placed(h, J) /\ Sorted(h)
  /\ \A j \in Jobs \ J : h.pos[j] = -1

\* There is room for a job that is not in the heap.
LEMMA Room ==
  ASSUME NEW h, NEW J, IsHeap(h, J), NEW x \in Jobs \ J
  PROVE  h.len < MaxJobs
<1>. h \in Heaps /\ h.len \in Nat /\ MaxJobs \in Nat
  BY Parts DEF IsHeap
<1>. DEFINE f == [i \in 0 .. h.len - 1 |-> h.data[i]]
<1>1. \A i \in 0 .. h.len - 1 : h.data[i] \in Jobs \ {x} /\ h.pos[h.data[i]] = i
  BY DEF IsHeap, Placed
<1>2. f \in Injection(0 .. h.len - 1, Jobs \ {x})
  BY <1>1 DEF Injection, IsInjective
<1>3. IsFiniteSet(1 .. MaxJobs) /\ Cardinality(1 .. MaxJobs) = MaxJobs
  BY FS_Interval, SMTT(20)
<1>4. IsFiniteSet(Jobs \ {x}) /\ Cardinality(Jobs \ {x}) = MaxJobs - 1
  BY <1>3, FS_RemoveElement DEF Jobs
<1>5. Cardinality(0 .. h.len - 1) <= Cardinality(Jobs \ {x})
  BY <1>2, <1>4, FS_Injection
<1>6. Cardinality(0 .. h.len - 1) = h.len
  BY FS_Interval
<1>. QED BY <1>4, <1>5, <1>6

\* heap_insert adds the job.
LEMMA Inserted ==
  ASSUME NEW h, NEW J, IsHeap(h, J), NEW x \in Jobs \ J
  PROVE  IsHeap(H!HeapInsert(h, Rank, x), J \union {x})
<1>1. PICK n \in Nat : n = h.len /\ n < MaxJobs /\ n + 1 \in 0 .. MaxJobs /\ n \in 0 .. MaxJobs
  BY Room, Parts DEF IsHeap
<1>2. PICK g \in Heaps : g = [h EXCEPT !.len = @ + 1] /\ g.len = n + 1 /\ g.data = h.data /\ g.pos = h.pos
  <2>1. h \in Heaps
    BY DEF IsHeap
  <2>2. [h EXCEPT !.len = @ + 1] = [h EXCEPT !.len = n + 1]
    BY <1>1
  <2>3. /\ [h EXCEPT !.len = n + 1] \in Heaps /\ [h EXCEPT !.len = n + 1].len = n + 1
        /\ [h EXCEPT !.len = n + 1].data = h.data /\ [h EXCEPT !.len = n + 1].pos = h.pos
    BY <1>1, <2>1 DEF Heaps
  <2>. QED BY <2>2, <2>3
<1>3. PICK f \in Heaps : f = H!HeapSet(g, n, x) /\ OneSet(g, f, n, x)
  <2>1. OneSet(g, H!HeapSet(g, n, x), n, x)
    BY <1>1, SetParts
  <2>. QED BY <2>1 DEF OneSet
<1>4. /\ f.len = n + 1
      /\ \A i \in 0 .. MaxJobs : f.data[i] = IF i = n THEN x ELSE h.data[i]
      /\ \A j \in Jobs : f.pos[j] = IF j = x THEN n ELSE h.pos[j]
  BY <1>2, <1>3 DEF OneSet
<1>5. /\ \A i \in 0 .. n - 1 : h.data[i] \in J /\ h.pos[h.data[i]] = i
      /\ \A j \in J : h.pos[j] \in 0 .. n - 1 /\ h.data[h.pos[j]] = j
      /\ \A j \in Jobs \ J : h.pos[j] = -1
      /\ \A i \in 1 .. n - 1 : h.data[H!Parent(i)] < h.data[i]
      /\ J \in SUBSET Jobs
  BY <1>1 DEF IsHeap, Placed, Sorted, Above
<1>6. Placed(f, J \union {x})
  <2>1. ASSUME NEW i \in 0 .. n  PROVE f.data[i] \in J \union {x} /\ f.pos[f.data[i]] = i
    <3>1. CASE i = n
      BY <1>1, <1>4, <3>1
    <3>2. CASE i # n
      <4>1. i \in 0 .. n - 1 /\ i \in 0 .. MaxJobs
        BY <1>1, <3>2, QueueAssumption
      <4>2. f.data[i] = h.data[i] /\ h.data[i] \in J /\ h.data[i] # x /\ h.pos[h.data[i]] = i
        BY <1>4, <1>5, <3>2, <4>1
      <4>. QED BY <1>4, <1>5, <4>2
    <3>. QED BY <3>1, <3>2
  <2>2. ASSUME NEW j \in J \union {x}  PROVE f.pos[j] \in 0 .. n /\ f.data[f.pos[j]] = j
    <3>1. CASE j = x
      BY <1>1, <1>4, <3>1
    <3>2. CASE j # x
      <4>1. h.pos[j] \in 0 .. n - 1 /\ h.data[h.pos[j]] = j /\ f.pos[j] = h.pos[j]
        BY <1>4, <1>5, <3>2
      <4>2. h.pos[j] \in 0 .. MaxJobs /\ h.pos[j] # n /\ h.pos[j] \in 0 .. n
        BY <1>1, <4>1, QueueAssumption
      <4>. QED BY <1>4, <4>1, <4>2
    <3>. QED BY <3>1, <3>2
  <2>. QED BY <1>1, <1>4, <2>1, <2>2 DEF Placed
<1>7. Rising(f, n)
  <2>1. ASSUME NEW i \in 1 .. n, i # n  PROVE Above(f, i)
    <3>1. PICK p \in 0 .. n - 1 : p = H!Parent(i) /\ p < i
      BY <2>1, Parents
    <3>2. f.data[p] = h.data[p] /\ f.data[i] = h.data[i] /\ i \in 1 .. n - 1
      <4>1. p \in 0 .. MaxJobs /\ i \in 0 .. MaxJobs /\ p # n /\ i # n /\ i \in 1 .. n - 1
        BY <1>1, <2>1, QueueAssumption
      <4>. QED BY <1>4, <4>1
    <3>. QED BY <1>5, <3>1, <3>2 DEF Above
  <2>2. \A i \in 1 .. n : H!Parent(i) # n
    BY Parents
  <2>3. (n + 1) - 1 = n
    OBVIOUS
  <2>. QED BY <1>4, <2>1, <2>2, <2>3 DEF Rising, Bypass
<1>8. Gap(f, n)
  BY <1>7 DEF Rising, Gap
<1>9. n \in 0 .. f.len - 1 /\ J \union {x} \in SUBSET Jobs
  BY <1>4, <1>5
<1>10. H!HeapInsert(h, Rank, x) = H!SiftDown(f, Rank, n)
  BY <1>1, <1>2, <1>3 DEF H!HeapInsert
<1>11. Shuffled(f, H!SiftDown(f, Rank, n), J \union {x}) /\ Sorted(H!SiftDown(f, Rank, n))
  BY <1>6, <1>7, <1>8, <1>9, SiftedDown
<1>12. \A j \in Jobs \ (J \union {x}) : f.pos[j] = -1
  BY <1>4, <1>5
<1>. QED BY <1>9, <1>10, <1>11, <1>12 DEF IsHeap, Shuffled

\* The top of the heap is the first job.
LEMMA TopFirst ==
  ASSUME NEW h, NEW J, IsHeap(h, J), h.len > 0
  PROVE  h.data[0] \in J /\ h.pos[h.data[0]] = 0 /\ \A j \in J \ {h.data[0]} : h.data[0] < j
<1>. h \in Heaps /\ h.len \in Nat /\ J \in SUBSET Jobs /\ Placed(h, J) /\ Sorted(h)
  BY Parts DEF IsHeap
<1>1. 0 \in 0 .. h.len - 1
  OBVIOUS
<1>2. \A i \in 0 .. h.len - 1 : h.data[i] \in J /\ h.data[i] \in Int
  BY Elements
<1>. DEFINE S == {i \in 0 .. h.len - 1 : h.data[i] < h.data[0]}
<1>3. S = {}
  <2>. SUFFICES ASSUME S # {} PROVE FALSE
    OBVIOUS
  <2>1. S \in SUBSET Nat
    OBVIOUS
  <2>2. PICK m \in S : \A i \in S : m <= i
    BY <2>1, LeastOf
  <2>3. m \in 0 .. h.len - 1 /\ h.data[m] < h.data[0] /\ m # 0
    BY <1>1, <1>2
  <2>4. PICK p \in 0 .. h.len - 1 : p = H!Parent(m) /\ p < m
    BY <2>3, Parents
  <2>5. h.data[p] < h.data[m]
    BY <2>3, <2>4 DEF Sorted, Above
  <2>6. h.data[p] < h.data[0]
    BY <1>1, <1>2, <2>3, <2>5
  <2>. QED BY <2>2, <2>4, <2>6
<1>4. ASSUME NEW j \in J \ {h.data[0]}  PROVE h.data[0] < j
  <2>1. PICK i \in 0 .. h.len - 1 : h.data[i] = j
    BY DEF Placed
  <2>. QED BY <1>1, <1>2, <1>3, <1>4, <2>1
<1>. QED BY <1>1, <1>2, <1>4 DEF Placed

\* The removed element forgets its position.
LEMMA Forgotten ==
  ASSUME NEW g \in Heaps, NEW J \in SUBSET Jobs, NEW x \in J, Placed(g, J \ {x}), Sorted(g),
         \A j \in Jobs \ J : g.pos[j] = -1
  PROVE  IsHeap([g EXCEPT !.pos[x] = H!OutOfHeap], J \ {x})
<1>1. PICK q : q = [g.pos EXCEPT ![x] = -1]
  OBVIOUS
<1>2. /\ q \in [Jobs -> -1 .. MaxJobs]
      /\ \A j \in Jobs : q[j] = IF j = x THEN -1 ELSE g.pos[j]
  <2>1. PICK p \in [Jobs -> -1 .. MaxJobs] : p = g.pos
    BY DEF Heaps
  <2>2. -1 \in -1 .. MaxJobs
    BY QueueAssumption
  <2>. QED BY <1>1, <2>1, <2>2
<1>3. PICK f \in Heaps : f = [g EXCEPT !.pos = q] /\ f.len = g.len /\ f.data = g.data /\ f.pos = q
  <2>1. /\ [g EXCEPT !.pos = q] \in Heaps /\ [g EXCEPT !.pos = q].len = g.len
        /\ [g EXCEPT !.pos = q].data = g.data /\ [g EXCEPT !.pos = q].pos = q
    BY <1>2 DEF Heaps
  <2>. QED BY <2>1
<1>4. [g EXCEPT !.pos[x] = H!OutOfHeap] = f
  BY <1>1, <1>3 DEF H!OutOfHeap
<1>5. Placed(f, J \ {x})
  <2>1. ASSUME NEW i \in 0 .. g.len - 1  PROVE g.data[i] \in J \ {x} /\ q[g.data[i]] = i
    BY <1>2 DEF Placed
  <2>2. ASSUME NEW j \in J \ {x}  PROVE q[j] \in 0 .. g.len - 1 /\ g.data[q[j]] = j
    BY <1>2 DEF Placed
  <2>. QED BY <1>3, <2>1, <2>2 DEF Placed
<1>6. Sorted(f)
  BY <1>3 DEF Sorted, Above
<1>7. \A j \in Jobs \ (J \ {x}) : f.pos[j] = -1
  BY <1>2, <1>3
<1>. QED BY <1>3, <1>4, <1>5, <1>6, <1>7 DEF IsHeap

\* heap_remove takes the job out that is at k, and no other.
LEMMA Removed ==
  ASSUME NEW h, NEW J, IsHeap(h, J), NEW x \in J
  PROVE  IsHeap(H!HeapRemove(h, Rank, h.pos[x]), J \ {x})
<1>. h \in Heaps /\ J \in SUBSET Jobs /\ Placed(h, J) /\ Sorted(h)
  BY DEF IsHeap
<1>1. PICK n \in Nat : h.len = n + 1 /\ n \in 0 .. MaxJobs /\ h.pos[x] \in 0 .. n /\ h.data[h.pos[x]] = x
  <2>1. h.pos[x] \in 0 .. h.len - 1 /\ h.data[h.pos[x]] = x /\ h.len \in Nat /\ h.len <= MaxJobs
    BY Parts DEF Placed
  <2>2. h.len - 1 \in Nat /\ h.len - 1 \in 0 .. MaxJobs /\ h.len = (h.len - 1) + 1
    BY <2>1, QueueAssumption
  <2>. QED BY <2>1, <2>2
<1>k. PICK k \in 0 .. n : k = h.pos[x] /\ h.data[k] = x
  BY <1>1
<1>2. /\ \A i \in 0 .. n : h.data[i] \in J /\ h.pos[h.data[i]] = i
      /\ \A j \in J : h.pos[j] \in 0 .. n /\ h.data[h.pos[j]] = j
      /\ \A j \in Jobs \ J : h.pos[j] = -1
      /\ (n + 1) - 1 = n
  BY <1>1 DEF IsHeap, Placed
<1>3. PICK y \in J : y = h.data[n]
  BY <1>2
<1>4. PICK g \in Heaps : g = [h EXCEPT !.len = @ - 1] /\ g.len = n /\ g.data = h.data /\ g.pos = h.pos
  <2>1. [h EXCEPT !.len = @ - 1] = [h EXCEPT !.len = n]
    BY <1>1
  <2>2. /\ [h EXCEPT !.len = n] \in Heaps /\ [h EXCEPT !.len = n].len = n
        /\ [h EXCEPT !.len = n].data = h.data /\ [h EXCEPT !.len = n].pos = h.pos
    BY <1>1 DEF Heaps
  <2>. QED BY <2>1, <2>2
<1>5. \A i \in 0 .. n : i \in 0 .. MaxJobs
  BY <1>1, QueueAssumption
<1>6. PICK m \in Heaps : m = H!HeapSet(g, k, y) /\ OneSet(g, m, k, y)
  <2>1. OneSet(g, H!HeapSet(g, k, y), k, y)
    BY <1>5, SetParts
  <2>. QED BY <2>1 DEF OneSet
<1>7. /\ m.len = n
      /\ \A i \in 0 .. n : m.data[i] = IF i = k THEN y ELSE h.data[i]
      /\ \A j \in Jobs : m.pos[j] = IF j = y THEN k ELSE h.pos[j]
  BY <1>4, <1>5, <1>6 DEF OneSet
<1>8. H!HeapRemove(h, Rank, k) =
        [H!SiftUp(H!SiftDown(m, Rank, k), Rank, k) EXCEPT !.pos[x] = H!OutOfHeap]
  <2>1. ~ (k >= h.len) /\ h.len - 1 = n
    BY <1>1, <1>2
  <2>2. H!HeapSet([h EXCEPT !.len = @ - 1], k, h.data[h.len - 1]) = m
    BY <1>3, <1>4, <1>6, <2>1
  <2>. QED BY <1>1, <1>k, <2>1, <2>2 DEF H!HeapRemove
<1>9. \A j \in Jobs \ J : m.pos[j] = -1
  BY <1>2, <1>7
<1>10. CASE k = n
  <2>1. y = x
    BY <1>1, <1>k, <1>3, <1>10
  <2>2. Placed(m, J \ {x})
    <3>1. ASSUME NEW i \in 0 .. n - 1  PROVE m.data[i] \in J \ {x} /\ m.pos[m.data[i]] = i
      <4>1. i \in 0 .. n /\ i # k
        BY <1>10
      <4>. QED BY <1>1, <1>k, <1>2, <1>7, <2>1, <4>1
    <3>2. ASSUME NEW j \in J \ {x}  PROVE m.pos[j] \in 0 .. n - 1 /\ m.data[m.pos[j]] = j
      <4>1. h.pos[j] \in 0 .. n /\ h.data[h.pos[j]] = j /\ m.pos[j] = h.pos[j]
        BY <1>2, <1>7, <2>1
      <4>2. h.pos[j] # k
        BY <1>1, <1>k, <4>1
      <4>3. h.pos[j] \in 0 .. n - 1
        BY <1>10, <4>1, <4>2
      <4>. QED BY <1>7, <4>1, <4>2, <4>3
    <3>. QED BY <1>7, <3>1, <3>2 DEF Placed
  <2>3. \A i \in 0 .. n : m.data[i] = h.data[i]
    BY <1>1, <1>k, <1>7, <2>1
  <2>4. \A i \in 1 .. n : Above(m, i)
    <3>. SUFFICES ASSUME NEW i \in 1 .. n PROVE Above(m, i)
      OBVIOUS
    <3>1. PICK p \in 0 .. n : p = H!Parent(i)
      BY Parents
    <3>. QED BY <1>1, <1>2, <2>3, <3>1 DEF Sorted, Above
  <2>5. Sorted(m)
    BY <1>7, <2>4 DEF Sorted
  <2>. DEFINE start == [heap |-> m, at |-> k]
              S == {start}
  <2>6. DownTurn(start) = start
    <3>1. k # 0 => H!HeapLess(m, Rank, H!Parent(k), k)
      <4>. SUFFICES ASSUME k # 0 PROVE H!HeapLess(m, Rank, H!Parent(k), k)
        OBVIOUS
      <4>1. PICK p \in 0 .. n : p = H!Parent(k)
        BY Parents
      <4>2. m.data[p] < m.data[k] /\ m.data[p] \in Jobs /\ m.data[k] \in Jobs
        BY <1>2, <2>3, <2>4, <4>1 DEF Above
      <4>. QED BY <4>1, <4>2 DEF H!HeapLess, Rank
    <3>2. H!Higher(m, Rank, k) = k
      BY <3>1 DEF H!Higher
    <3>. QED BY <3>2 DEF DownTurn, H!Turn
  <2>7. UpTurn(start) = start
    <3>1. ~ (2 * k + 1 < m.len) /\ ~ (2 * k + 2 < m.len)
      BY <1>7, <1>10
    <3>2. H!Lower(m, Rank, k) = k
      BY <3>1 DEF H!Lower
    <3>. QED BY <3>2 DEF UpTurn, H!Turn
  <2>8. H!SiftDown(m, Rank, k) = m
    <3>1. /\ start \in S
          /\ \A s \in S : s.at \in Nat /\ DownTurn(s) \in S /\ (DownTurn(s) = s \/ DownTurn(s).at < s.at)
      BY <2>6
    <3>2. k \in Nat
      OBVIOUS
    <3>. HIDE DEF S
    <3>3. \E s \in S : H!SiftDown(m, Rank, k) = s.heap /\ DownTurn(s) = s
      BY <3>1, <3>2, DownTurns
    <3>. QED BY <3>3 DEF S
  <2>9. H!SiftUp(m, Rank, k) = m
    <3>1. /\ start \in S
          /\ \A s \in S : s.at \in 0 .. m.len /\ UpTurn(s) \in S /\ (UpTurn(s) = s \/ UpTurn(s).at > s.at)
      BY <1>7, <2>7
    <3>2. m.len \in Nat /\ k \in 0 .. m.len
      BY <1>7
    <3>. HIDE DEF S
    <3>3. \E s \in S : H!SiftUp(m, Rank, k) = s.heap /\ UpTurn(s) = s
      BY <3>1, <3>2, UpTurns
    <3>. QED BY <3>3 DEF S
  <2>10. H!HeapRemove(h, Rank, k) = [m EXCEPT !.pos[x] = H!OutOfHeap]
    BY <1>8, <2>8, <2>9
  <2>. QED BY <1>1, <1>k, <1>9, <2>2, <2>5, <2>10, Forgotten
<1>11. CASE k # n
  <2>1. k \in 0 .. n - 1 /\ n \in 0 .. n /\ k \in 0 .. n /\ y # x
    BY <1>1, <1>k, <1>2, <1>3, <1>11
  <2>2. Placed(m, J \ {x})
    <3>1. ASSUME NEW i \in 0 .. n - 1  PROVE m.data[i] \in J \ {x} /\ m.pos[m.data[i]] = i
      <4>1. CASE i = k
        BY <1>7, <2>1, <4>1
      <4>2. CASE i # k
        <5>1. i \in 0 .. n /\ i # n
          OBVIOUS
        <5>2. h.data[i] \in J /\ h.data[i] # x /\ h.data[i] # y
          BY <1>1, <1>k, <1>2, <1>3, <2>1, <4>2, <5>1
        <5>. QED BY <1>2, <1>7, <4>2, <5>1, <5>2
      <4>. QED BY <4>1, <4>2
    <3>2. ASSUME NEW j \in J \ {x}  PROVE m.pos[j] \in 0 .. n - 1 /\ m.data[m.pos[j]] = j
      <4>1. CASE j = y
        BY <1>7, <2>1, <4>1
      <4>2. CASE j # y
        <5>1. h.pos[j] \in 0 .. n /\ h.data[h.pos[j]] = j /\ m.pos[j] = h.pos[j]
          BY <1>2, <1>7, <4>2
        <5>2. h.pos[j] # k /\ h.pos[j] # n
          BY <1>1, <1>k, <1>3, <4>2, <5>1
        <5>3. h.pos[j] \in 0 .. n - 1
          BY <5>1, <5>2
        <5>. QED BY <1>7, <5>1, <5>2
      <4>. QED BY <4>1, <4>2
    <3>. QED BY <1>7, <3>1, <3>2 DEF Placed
  <2>3. Sinking(h, k)
    BY <1>1, SortedSinks
  <2>4. Gap(m, k)
    <3>1. ASSUME NEW i \in 1 .. n - 1, i # k, H!Parent(i) # k  PROVE Above(m, i)
      <4>1. PICK p \in 0 .. n : p = H!Parent(i)
        BY Parents
      <4>2. m.data[p] = h.data[p] /\ m.data[i] = h.data[i]
        BY <1>7, <3>1, <4>1
      <4>3. h.data[p] < h.data[i]
        BY <1>1, <4>1 DEF Sorted, Above
      <4>. QED BY <4>1, <4>2, <4>3 DEF Above
    <3>2. ASSUME NEW i \in 1 .. n - 1, k # 0, H!Parent(i) = k
          PROVE  m.data[H!Parent(k)] < m.data[i]
      <4>1. PICK p \in 0 .. n : p = H!Parent(k) /\ p # k
        BY <3>2, Parents
      <4>2. i # k
        BY <3>2, Parents
      <4>3. m.data[p] = h.data[p] /\ m.data[i] = h.data[i]
        BY <1>7, <4>1, <4>2
      <4>4. h.data[p] < h.data[i]
        BY <1>1, <2>3, <3>2, <4>1 DEF Sinking, Bypass
      <4>. QED BY <4>1, <4>3, <4>4
    <3>. QED BY <1>7, <3>1, <3>2 DEF Gap, Bypass
  <2>5. J \ {x} \in SUBSET Jobs /\ k \in 0 .. m.len - 1
    BY <1>7, <2>1
  <2>6. PICK d \in Heaps : /\ d = H!SiftDown(m, Rank, k) /\ Shuffled(m, d, J \ {x}) /\ Sinking(d, k)
                           /\ Placed(d, J \ {x}) /\ d.len = m.len
    <3>1. Shuffled(m, H!SiftDown(m, Rank, k), J \ {x}) /\ Sinking(H!SiftDown(m, Rank, k), k)
      BY <2>2, <2>4, <2>5, SiftedDown
    <3>. QED BY <3>1 DEF Shuffled
  <2>7. PICK u \in Heaps : /\ u = H!SiftUp(d, Rank, k) /\ Shuffled(d, u, J \ {x})
                           /\ Sorted(u) /\ Placed(u, J \ {x})
    <3>1. Shuffled(d, H!SiftUp(d, Rank, k), J \ {x}) /\ Sorted(H!SiftUp(d, Rank, k))
      BY <2>5, <2>6, SiftedUp
    <3>. QED BY <3>1 DEF Shuffled
  <2>8. \A j \in Jobs \ J : u.pos[j] = -1
    BY <1>9, <2>6, <2>7 DEF Shuffled
  <2>9. H!HeapRemove(h, Rank, k) = [u EXCEPT !.pos[x] = H!OutOfHeap]
    BY <1>8, <2>6, <2>7
  <2>. QED BY <1>1, <1>k, <2>7, <2>8, <2>9, Forgotten
<1>. QED BY <1>1, <1>10, <1>11

(* The waiting set.                                                             *)

\* The members of K fill the slots, each in one.
OneEach(s, K) ==
  /\ s \in [items : Seq(Conns), last : Nat] /\ K \in SUBSET Conns
  /\ \A i \in 1 .. Len(s.items) : s.items[i] \in K
  /\ \A i, k \in 1 .. Len(s.items) : s.items[i] = s.items[k] => i = k
  /\ \A c \in K : \E i \in 1 .. Len(s.items) : s.items[i] = c

\* The members of the set are what ToSet says.
LEMMA Members ==
  ASSUME NEW s, NEW K, OneEach(s, K)
  PROVE  ToSet(s.items) = K /\ (s.items = <<>> <=> K = {})
<1>. s.items \in Seq(Conns)
  BY DEF OneEach
<1>1. DOMAIN s.items = 1 .. Len(s.items)
  OBVIOUS
<1>2. ToSet(s.items) = K
  BY <1>1 DEF OneEach, ToSet
<1>3. s.items = <<>> => K = {}
  BY DEF OneEach
<1>4. s.items # <<>> => s.items[1] \in K
  <2>1. s.items # <<>> => 1 \in 1 .. Len(s.items)
    OBVIOUS
  <2>. QED BY <2>1 DEF OneEach
<1>. QED BY <1>2, <1>3, <1>4

\* A function on 1 .. n is a sequence.
LEMMA IsASeq ==
  ASSUME NEW S, NEW n \in Nat, NEW q, q = [k \in 1 .. n |-> q[k]], \A k \in 1 .. n : q[k] \in S
  PROVE  q \in Seq(S) /\ Len(q) = n
<1>1. q \in [1 .. n -> S]
  OBVIOUS
<1>. QED BY <1>1

\* set_append adds a connection.
LEMMA Appended ==
  ASSUME NEW s, NEW K, OneEach(s, K), NEW c \in Conns \ K
  PROVE  OneEach(W!SetAppend(s, c), K \union {c})
<1>1. PICK q : q \in Seq(Conns) /\ q = Append(s.items, c) /\ s.items \in Seq(Conns)
  <2>1. s.items \in Seq(Conns)
    BY DEF OneEach
  <2>2. Append(s.items, c) \in Seq(Conns)
    BY <2>1
  <2>. QED BY <2>1, <2>2
<1>2. /\ Len(q) = Len(s.items) + 1 /\ q[Len(s.items) + 1] = c /\ Len(s.items) \in Nat
      /\ \A i \in 1 .. Len(s.items) : q[i] = s.items[i]
  BY <1>1
<1>3. PICK t : t \in [items : Seq(Conns), last : Nat] /\ t = W!SetAppend(s, c) /\ t.items = q
  <2>1. W!SetAppend(s, c) = [s EXCEPT !.items = q]
    BY <1>1 DEF W!SetAppend
  <2>2. [s EXCEPT !.items = q] \in [items : Seq(Conns), last : Nat] /\ [s EXCEPT !.items = q].items = q
    BY <1>1 DEF OneEach
  <2>. QED BY <2>1, <2>2
<1>4. /\ \A i \in 1 .. Len(s.items) : s.items[i] \in K
      /\ \A i, k \in 1 .. Len(s.items) : s.items[i] = s.items[k] => i = k
      /\ \A d \in K : \E i \in 1 .. Len(s.items) : s.items[i] = d
      /\ K \union {c} \in SUBSET Conns
  BY DEF OneEach
<1>5. \A i \in 1 .. Len(q) : i \in 1 .. Len(s.items) \/ i = Len(s.items) + 1
  BY <1>2
<1>6. \A i \in 1 .. Len(q) : q[i] \in K \union {c}
  BY <1>2, <1>4, <1>5
<1>7. \A i, k \in 1 .. Len(q) : q[i] = q[k] => i = k
  BY <1>2, <1>4, <1>5
<1>8. \A d \in K \union {c} : \E i \in 1 .. Len(q) : q[i] = d
  BY <1>2, <1>4
<1>. QED BY <1>3, <1>4, <1>6, <1>7, <1>8 DEF OneEach

\* set_delete takes out what is in the slot, and nothing else.
LEMMA Deleted ==
  ASSUME NEW s, NEW K, OneEach(s, K), NEW i \in 1 .. Len(s.items)
  PROVE  OneEach(W!SetDelete(s, i - 1), K \ {s.items[i]})
<1>1. PICK n \in Nat : n = Len(s.items) - 1 /\ Len(s.items) = n + 1 /\ s.items \in Seq(Conns)
  <2>1. s.items \in Seq(Conns) /\ Len(s.items) \in Nat
    BY DEF OneEach
  <2>2. Len(s.items) - 1 \in Nat /\ Len(s.items) = (Len(s.items) - 1) + 1
    BY <2>1
  <2>. QED BY <2>1, <2>2
<1>2. PICK r, x : r = s.items /\ x = r[i]
  OBVIOUS
<1>3. /\ \A k \in 1 .. n + 1 : r[k] \in K
      /\ \A a, b \in 1 .. n + 1 : r[a] = r[b] => a = b
      /\ \A d \in K : \E k \in 1 .. n + 1 : r[k] = d
      /\ i \in 1 .. n + 1 /\ K \ {x} \in SUBSET Conns
  <2>1. /\ \A k \in 1 .. Len(s.items) : s.items[k] \in K
        /\ \A a, b \in 1 .. Len(s.items) : s.items[a] = s.items[b] => a = b
        /\ \A d \in K : \E k \in 1 .. Len(s.items) : s.items[k] = d
        /\ K \ {x} \in SUBSET Conns
    BY DEF OneEach
  <2>2. 1 .. Len(s.items) = 1 .. n + 1
    BY <1>1
  <2>. QED BY <1>2, <2>1, <2>2, Zenon
<1>4. PICK q : q = [k \in 1 .. n |-> IF k = i THEN r[n + 1] ELSE r[k]]
  OBVIOUS
<1>5. \A k \in 1 .. n : q[k] = IF k = i THEN r[n + 1] ELSE r[k]
  BY <1>4
<1>6. n + 1 \in 1 .. n + 1 /\ \A k \in 1 .. n : k \in 1 .. n + 1 /\ k # n + 1
  OBVIOUS
<1>7. \A k \in 1 .. n : q[k] \in K \ {x}
  <2>. SUFFICES ASSUME NEW k \in 1 .. n PROVE q[k] \in K /\ q[k] # x
    BY Zenon
  <2>1. CASE k = i
    <3>1. q[k] = r[n + 1] /\ n + 1 # i
      BY <1>5, <1>6, <2>1
    <3>. QED BY <1>2, <1>3, <1>6, <3>1
  <2>2. CASE k # i
    <3>1. q[k] = r[k]
      BY <1>5, <2>2
    <3>. QED BY <1>2, <1>3, <1>6, <2>2, <3>1
  <2>. QED BY <2>1, <2>2
<1>8. \A a, b \in 1 .. n : q[a] = q[b] => a = b
  BY <1>3, <1>5, <1>6, Zenon
<1>9. ASSUME NEW d \in K \ {x}  PROVE \E k \in 1 .. n : q[k] = d
  <2>1. PICK k \in 1 .. n + 1 : r[k] = d /\ k # i
    BY <1>2, <1>3, <1>9
  <2>2. CASE k = n + 1
    <3>1. i \in 1 .. n
      BY <1>3, <2>1, <2>2
    <3>. QED BY <1>5, <2>1, <2>2, <3>1
  <2>3. CASE k # n + 1
    <3>1. k \in 1 .. n
      BY <2>1, <2>3
    <3>. QED BY <1>5, <2>1, <3>1
  <2>. QED BY <2>2, <2>3
<1>10. q \in Seq(Conns) /\ Len(q) = n
  <2>1. q = [k \in 1 .. n |-> q[k]]
    BY <1>4
  <2>2. \A k \in 1 .. n : q[k] \in Conns
    BY <1>7 DEF OneEach
  <2>. QED BY <2>1, <2>2, IsASeq
<1>11. PICK t : t \in [items : Seq(Conns), last : Nat] /\ t = W!SetDelete(s, i - 1) /\ t.items = q
  <2>1. i - 1 + 1 = i
    OBVIOUS
  <2>2. W!SetDelete(s, i - 1) = [s EXCEPT !.items = q]
    BY <1>1, <1>2, <1>4, <2>1 DEF W!SetDelete
  <2>3. [s EXCEPT !.items = q] \in [items : Seq(Conns), last : Nat] /\ [s EXCEPT !.items = q].items = q
    <3>1. s \in [items : Seq(Conns), last : Nat] /\ q \in Seq(Conns)
      BY <1>10 DEF OneEach
    <3>. QED BY <3>1
  <2>. QED BY <2>2, <2>3
<1>12. OneEach(t, K \ {x})
  <2>1. Len(t.items) = n /\ t.items = q
    BY <1>10, <1>11
  <2>2. /\ \A k \in 1 .. Len(t.items) : t.items[k] \in K \ {x}
        /\ \A a, b \in 1 .. Len(t.items) : t.items[a] = t.items[b] => a = b
        /\ \A d \in K \ {x} : \E k \in 1 .. Len(t.items) : t.items[k] = d
    BY <1>7, <1>8, <1>9, <2>1
  <2>. QED BY <1>3, <1>11, <2>2 DEF OneEach
<1>. QED BY <1>2, <1>11, <1>12

\* set_remove takes out the connection, wherever it is, and nothing if it is not there.
LEMMA RemovedOne ==
  ASSUME NEW s, NEW K, OneEach(s, K), NEW c
  PROVE  /\ c \in K => OneEach(W!SetRemove(s, c), K \ {c})
         /\ c \notin K => W!SetRemove(s, c) = s
<1>. DEFINE slots == {i \in 1 .. Len(s.items) : s.items[i] = c}
<1>1. W!SetRemove(s, c) = IF slots = {} THEN s
                          ELSE W!SetDelete(s, (CHOOSE i \in slots : \A k \in slots : i <= k) - 1)
  BY DEF W!SetRemove
<1>2. ASSUME c \in K  PROVE OneEach(W!SetRemove(s, c), K \ {c})
  <2>1. PICK m \in 1 .. Len(s.items) : slots = {m} /\ s.items[m] = c
    BY <1>2 DEF OneEach
  <2>2. (CHOOSE i \in slots : \A k \in slots : i <= k) = m
    BY <2>1
  <2>3. W!SetRemove(s, c) = W!SetDelete(s, m - 1)
    BY <1>1, <2>1, <2>2
  <2>. QED BY <2>1, <2>3, Deleted
<1>3. ASSUME c \notin K  PROVE W!SetRemove(s, c) = s
  <2>1. slots = {}
    BY <1>3 DEF OneEach
  <2>. QED BY <1>1, <2>1
<1>. QED BY <1>2, <1>3

\* set_take takes out a member, whatever last_idx has come to.
LEMMA Taken ==
  ASSUME NEW s, NEW K, OneEach(s, K), s.items # <<>>
  PROVE  W!SetTaken(s) \in K /\ OneEach(W!SetTake(s), K \ {W!SetTaken(s)})
<1>1. s.items \in Seq(Conns) /\ Len(s.items) \in Nat \ {0} /\ s.last \in Nat
  BY DEF OneEach
<1>2. PICK i \in 1 .. Len(s.items) : i = W!TakePosition(s) + 1 /\ i \in Nat
  <2>1. s.last % Len(s.items) \in 0 .. Len(s.items) - 1
    BY <1>1
  <2>. QED BY <1>1, <2>1 DEF W!TakePosition
<1>3. W!TakePosition(s) = i - 1
  BY <1>1, <1>2 DEF W!TakePosition
<1>4. W!SetTaken(s) = s.items[i] /\ s.items[i] \in K
  BY <1>2 DEF W!SetTaken, OneEach
<1>5. OneEach(W!SetDelete(s, i - 1), K \ {s.items[i]})
  BY Deleted
<1>6. W!SetTake(s) = [W!SetDelete(s, i - 1) EXCEPT !.last = i]
  BY <1>2, <1>3 DEF W!SetTake
<1>7. ASSUME NEW t, OneEach(t, K \ {s.items[i]})
      PROVE  OneEach([t EXCEPT !.last = i], K \ {s.items[i]})
  <2>1. PICK u : u \in [items : Seq(Conns), last : Nat] /\ u = [t EXCEPT !.last = i] /\ u.items = t.items
    <3>1. t \in [items : Seq(Conns), last : Nat] /\ i \in Nat
      BY <1>1, <1>7 DEF OneEach
    <3>2. [t EXCEPT !.last = i] \in [items : Seq(Conns), last : Nat] /\ [t EXCEPT !.last = i].items = t.items
      BY <3>1
    <3>. QED BY <3>2
  <2>. QED BY <1>7, <2>1 DEF OneEach
<1>. QED BY <1>4, <1>5, <1>6, <1>7

\* The members of K wait.
Flags(w, K) == w \in [Conns -> BOOLEAN] /\ \A c \in Conns : w[c] <=> c \in K

\* A flag is set when its connection joins, and reset when it leaves.
LEMMA Flagged ==
  ASSUME NEW w, NEW K, Flags(w, K), NEW c \in Conns
  PROVE  Flags([w EXCEPT ![c] = TRUE], K \union {c}) /\ Flags([w EXCEPT ![c] = FALSE], K \ {c})
<1>1. w \in [Conns -> BOOLEAN] /\ \A d \in Conns : w[d] <=> d \in K
  BY DEF Flags
<1>2. [w EXCEPT ![c] = TRUE] \in [Conns -> BOOLEAN] /\ [w EXCEPT ![c] = FALSE] \in [Conns -> BOOLEAN]
  BY <1>1
<1>3. ASSUME NEW d \in Conns
      PROVE  /\ [w EXCEPT ![c] = TRUE][d] <=> d \in K \union {c}
             /\ [w EXCEPT ![c] = FALSE][d] <=> d \in K \ {c}
  BY <1>1, Zenon
<1>. QED BY <1>2, <1>3, Zenon DEF Flags

(* The invariant: the jobs of the heap are one set, the clients of the waiting  *)
(* set another.                                                                 *)

Holds(h, s, w, J, K) == IsHeap(h, J) /\ OneEach(s, K) /\ Flags(w, K)

QueueInv == \E J, K : Holds(ready_jobs, waiting_conns, waiting, J, K)

\* What the heap holds is what Contents says, and knows that it is there.
LEMMA InThere ==
  ASSUME NEW h, NEW J, IsHeap(h, J)
  PROVE  /\ H!Contents(h) = J /\ h.len \in Nat /\ (h.len > 0 <=> J # {})
         /\ \A j \in Jobs : h.pos[j] # -1 <=> j \in J
<1>. h \in Heaps /\ J \in SUBSET Jobs /\ Placed(h, J) /\ h.len \in Nat
  BY Parts DEF IsHeap
<1>1. H!Contents(h) = J
  BY DEF Placed, H!Contents
<1>2. J # {} => h.len > 0
  BY DEF Placed
<1>3. h.len > 0 => J # {}
  <2>1. h.len > 0 => 0 \in 0 .. h.len - 1
    OBVIOUS
  <2>. QED BY <2>1 DEF Placed
<1>4. ASSUME NEW j \in Jobs  PROVE h.pos[j] # -1 <=> j \in J
  <2>1. j \in J => h.pos[j] # -1
    <3>1. j \in J => h.pos[j] \in 0 .. h.len - 1
      BY DEF Placed
    <3>. QED BY <3>1
  <2>. QED BY <2>1 DEF IsHeap
<1>. QED BY <1>1, <1>2, <1>3, <1>4

\* What process_queue has to do, and who waits, in terms of the two sets.
LEMMA HoldsWhat ==
  ASSUME NEW J, NEW K, Holds(ready_jobs, waiting_conns, waiting, J, K)
  PROVE  /\ Match <=> J # {} /\ K # {}
         /\ \A j \in Jobs : InHeap(j) <=> j \in J
         /\ \A c \in Conns : waiting[c] <=> c \in K
         /\ H!Contents(ready_jobs) = J /\ ToSet(waiting_conns.items) = K
         /\ J \in SUBSET Jobs /\ K \in SUBSET Conns
<1>1. IsHeap(ready_jobs, J) /\ OneEach(waiting_conns, K) /\ Flags(waiting, K)
  BY DEF Holds
<1>2. /\ H!Contents(ready_jobs) = J /\ ready_jobs.len \in Nat /\ (ready_jobs.len > 0 <=> J # {})
      /\ \A j \in Jobs : ready_jobs.pos[j] # -1 <=> j \in J
  BY <1>1, InThere
<1>3. ToSet(waiting_conns.items) = K /\ (waiting_conns.items = <<>> <=> K = {})
  BY <1>1, Members
<1>. QED BY <1>1, <1>2, <1>3 DEF Match, InHeap, H!OutOfHeap, IsHeap, OneEach, Flags

\* Nothing is in the heap or in the set at the start.
LEMMA StartHolds == Init => Holds(ready_jobs, waiting_conns, waiting, {}, {})
<1>. SUFFICES ASSUME Init PROVE Holds(ready_jobs, waiting_conns, waiting, {}, {})
  OBVIOUS
<1>1. PICK d, p : d = [k \in 0 .. MaxJobs |-> 0] /\ p = [j \in Jobs |-> -1]
  OBVIOUS
<1>2. d \in [0 .. MaxJobs -> Jobs \union {NoJob}] /\ p \in [Jobs -> -1 .. MaxJobs] /\ 0 \in 0 .. MaxJobs
  BY <1>1, QueueAssumption DEF NoJob
<1>3. ready_jobs = [len |-> 0, data |-> d, pos |-> p]
  BY <1>1, SlotsAre DEF Init, H!EmptyHeap, H!OutOfHeap, NoJob
<1>4. ready_jobs \in Heaps /\ ready_jobs.len = 0 /\ ready_jobs.pos = p
  BY <1>2, <1>3 DEF Heaps
<1>5. IsHeap(ready_jobs, {})
  <2>1. 0 .. 0 - 1 = {} /\ 1 .. 0 - 1 = {}
    OBVIOUS
  <2>2. Placed(ready_jobs, {}) /\ Sorted(ready_jobs)
    BY <1>4, <2>1 DEF Placed, Sorted
  <2>. QED BY <1>1, <1>4, <2>2 DEF IsHeap
<1>6. OneEach(waiting_conns, {})
  <2>1. waiting_conns = [items |-> <<>>, last |-> 0]
    BY DEF Init, W!EmptySet
  <2>2. waiting_conns \in [items : Seq(Conns), last : Nat] /\ Len(waiting_conns.items) = 0
    BY <2>1
  <2>. QED BY <2>2 DEF OneEach
<1>7. Flags(waiting, {})
  BY DEF Init, Flags
<1>. QED BY <1>5, <1>6, <1>7 DEF Holds

\* What a step of TubeMatching does to the two sets.
Moves(J, K, J1, K1) ==
  \/ /\ J = {} \/ K = {}
     /\ \/ \E j \in Jobs \ J : J1 = J \union {j} /\ K1 = K
        \/ \E j \in J : J1 = J \ {j} /\ K1 = K
        \/ \E c \in Conns \ K : J1 = J /\ K1 = K \union {c}
        \/ \E c \in K : J1 = J /\ K1 = K \ {c}
  \/ \E j \in J, c \in K : (\A i \in J \ {j} : j < i) /\ J1 = J \ {j} /\ K1 = K \ {c}

\* Every step is such a step.
LEMMA StepHolds ==
  ASSUME NEW J, NEW K, Holds(ready_jobs, waiting_conns, waiting, J, K), Next
  PROVE  \E J1, K1 : Holds(ready_jobs', waiting_conns', waiting', J1, K1) /\ Moves(J, K, J1, K1)
<1>1. IsHeap(ready_jobs, J) /\ OneEach(waiting_conns, K) /\ Flags(waiting, K)
  BY DEF Holds
<1>2. /\ Match <=> J # {} /\ K # {}
      /\ \A j \in Jobs : InHeap(j) <=> j \in J
      /\ \A c \in Conns : waiting[c] <=> c \in K
      /\ J \in SUBSET Jobs /\ K \in SUBSET Conns
  BY HoldsWhat
<1>3. ASSUME NEW j \in Jobs, Enqueue(j)
      PROVE  /\ Holds(ready_jobs', waiting_conns', waiting', J \union {j}, K)
             /\ Moves(J, K, J \union {j}, K)
  <2>1. j \in Jobs \ J /\ (J = {} \/ K = {})
    BY <1>2, <1>3 DEF Enqueue
  <2>2. IsHeap(H!HeapInsert(ready_jobs, Rank, j), J \union {j})
    BY <1>1, <2>1, Inserted
  <2>3. /\ ready_jobs' = H!HeapInsert(ready_jobs, Rank, j)
        /\ waiting_conns' = waiting_conns /\ waiting' = waiting
    BY <1>3 DEF Enqueue
  <2>4. Holds(ready_jobs', waiting_conns', waiting', J \union {j}, K)
    BY <1>1, <2>2, <2>3 DEF Holds
  <2>. QED BY <2>1, <2>4 DEF Moves
<1>4. ASSUME NEW j \in Jobs, RemoveReady(j)
      PROVE  /\ Holds(ready_jobs', waiting_conns', waiting', J \ {j}, K)
             /\ Moves(J, K, J \ {j}, K)
  <2>1. j \in J /\ (J = {} \/ K = {})
    BY <1>2, <1>4 DEF RemoveReady
  <2>2. IsHeap(H!HeapRemove(ready_jobs, Rank, ready_jobs.pos[j]), J \ {j})
    BY <1>1, <2>1, Removed
  <2>3. /\ ready_jobs' = H!HeapRemove(ready_jobs, Rank, ready_jobs.pos[j])
        /\ waiting_conns' = waiting_conns /\ waiting' = waiting
    BY <1>4 DEF RemoveReady, TakeOut
  <2>4. Holds(ready_jobs', waiting_conns', waiting', J \ {j}, K)
    BY <1>1, <2>2, <2>3 DEF Holds
  <2>. QED BY <2>1, <2>4 DEF Moves
<1>5. ASSUME NEW c \in Conns, EnqueueWaiting(c)
      PROVE  /\ Holds(ready_jobs', waiting_conns', waiting', J, K \union {c})
             /\ Moves(J, K, J, K \union {c})
  <2>1. c \in Conns \ K /\ (J = {} \/ K = {})
    BY <1>2, <1>5 DEF EnqueueWaiting
  <2>2. OneEach(W!SetAppend(waiting_conns, c), K \union {c})
    BY <1>1, <2>1, Appended
  <2>3. /\ ready_jobs' = ready_jobs /\ waiting_conns' = W!SetAppend(waiting_conns, c)
        /\ waiting' = [waiting EXCEPT ![c] = TRUE]
    BY <1>5 DEF EnqueueWaiting
  <2>4. Flags(waiting', K \union {c})
    BY <1>1, <2>3, Flagged
  <2>5. Holds(ready_jobs', waiting_conns', waiting', J, K \union {c})
    BY <1>1, <2>2, <2>3, <2>4 DEF Holds
  <2>. QED BY <2>1, <2>5 DEF Moves
<1>6. ASSUME NEW c \in Conns, RemoveWaiting(c)
      PROVE  /\ Holds(ready_jobs', waiting_conns', waiting', J, K \ {c})
             /\ Moves(J, K, J, K \ {c})
  <2>1. c \in K /\ (J = {} \/ K = {})
    BY <1>2, <1>6 DEF RemoveWaiting
  <2>2. OneEach(W!SetRemove(waiting_conns, c), K \ {c})
    BY <1>1, <2>1, RemovedOne
  <2>3. /\ ready_jobs' = ready_jobs /\ waiting_conns' = W!SetRemove(waiting_conns, c)
        /\ waiting' = [waiting EXCEPT ![c] = FALSE]
    BY <1>6 DEF RemoveWaiting
  <2>4. Flags(waiting', K \ {c})
    BY <1>1, <2>3, Flagged
  <2>5. Holds(ready_jobs', waiting_conns', waiting', J, K \ {c})
    BY <1>1, <2>2, <2>3, <2>4 DEF Holds
  <2>. QED BY <2>1, <2>5 DEF Moves
<1>7. ASSUME Deliver
      PROVE  \E J1, K1 : Holds(ready_jobs', waiting_conns', waiting', J1, K1) /\ Moves(J, K, J1, K1)
  <2>1. J # {} /\ K # {}
    BY <1>2, <1>7 DEF Deliver
  <2>2. PICK j : j = ready_jobs.data[0] /\ j \in J /\ \A i \in J \ {j} : j < i
    <3>1. ready_jobs.len > 0
      BY <1>7 DEF Deliver, Match
    <3>. QED BY <1>1, <3>1, TopFirst
  <2>3. PICK c : c = W!SetTaken(waiting_conns) /\ c \in K /\ OneEach(W!SetTake(waiting_conns), K \ {c})
    <3>1. waiting_conns.items # <<>>
      BY <1>7 DEF Deliver, Match
    <3>. QED BY <1>1, <3>1, Taken
  <2>4. IsHeap(H!HeapRemove(ready_jobs, Rank, ready_jobs.pos[j]), J \ {j})
    BY <1>1, <2>2, Removed
  <2>5. W!SetRemove(W!SetTake(waiting_conns), c) = W!SetTake(waiting_conns)
    BY <2>3, RemovedOne
  <2>6. /\ ready_jobs' = H!HeapRemove(ready_jobs, Rank, ready_jobs.pos[j])
        /\ waiting_conns' = W!SetTake(waiting_conns) /\ waiting' = [waiting EXCEPT ![c] = FALSE]
    BY <1>7, <2>2, <2>3, <2>5 DEF Deliver, TakeOut
  <2>7. Flags(waiting', K \ {c})
    BY <1>1, <1>2, <2>3, <2>6, Flagged
  <2>8. Holds(ready_jobs', waiting_conns', waiting', J \ {j}, K \ {c})
    BY <2>3, <2>4, <2>6, <2>7 DEF Holds
  <2>9. Moves(J, K, J \ {j}, K \ {c})
    BY <2>2, <2>3 DEF Moves
  <2>. QED BY <2>8, <2>9
<1>. QED BY <1>3, <1>4, <1>5, <1>6, <1>7 DEF Next

\* The same where nothing moves.
LEMMA InvStep ==
  ASSUME QueueInv, [Next]_queueVars
  PROVE  QueueInv' /\ [Matching!Next]_Matching!matchVars
<1>1. PICK J, K : Holds(ready_jobs, waiting_conns, waiting, J, K)
  BY DEF QueueInv
<1>2. /\ H!Contents(ready_jobs) = J /\ ToSet(waiting_conns.items) = K
      /\ J \in SUBSET Jobs /\ K \in SUBSET Conns
  BY <1>1, HoldsWhat
<1>3. CASE UNCHANGED queueVars
  <2>1. ready_jobs' = ready_jobs /\ waiting_conns' = waiting_conns /\ waiting' = waiting
    BY <1>3 DEF queueVars
  <2>2. QueueInv'
    BY <1>1, <2>1 DEF QueueInv
  <2>3. UNCHANGED Matching!matchVars
    BY <2>1 DEF Matching!matchVars
  <2>. QED BY <2>2, <2>3
<1>4. CASE Next
  <2>1. PICK J1, K1 : Holds(ready_jobs', waiting_conns', waiting', J1, K1) /\ Moves(J, K, J1, K1)
    BY <1>1, <1>4, StepHolds
  <2>2. QueueInv'
    BY <2>1 DEF QueueInv
  <2>3. H!Contents(ready_jobs') = J1 /\ ToSet(waiting_conns'.items) = K1
    BY <2>1, InThere, Members DEF Holds
  <2>4. Matching!Next
    BY <1>2, <2>1, <2>3 DEF Moves, Matching!Next, Matching!NoMatch, Matching!Add, Matching!Withdraw,
                         Matching!Leave, Matching!Join, Matching!GiveUp, Matching!Serve
  <2>. QED BY <2>2, <2>4
<1>. QED BY <1>3, <1>4

LEMMA QueueInvariant == Spec => []QueueInv
<1>1. Init => QueueInv
  BY StartHolds DEF QueueInv
<1>. QED BY <1>1, InvStep, PTL DEF Spec

\* The three arrays are a heap ...
THEOREM ReadyHeapOrdered == Spec => []HeapOrdered
<1>1. QueueInv => HeapOrdered
  <2>. SUFFICES ASSUME QueueInv, NEW k \in 1 .. ready_jobs.len - 1
                PROVE  H!HeapLess(ready_jobs, Rank, (k - 1) \div 2, k)
    BY DEF HeapOrdered
  <2>1. PICK J : IsHeap(ready_jobs, J)
    BY DEF QueueInv, Holds
  <2>2. /\ ready_jobs \in Heaps /\ J \in SUBSET Jobs /\ Placed(ready_jobs, J)
        /\ Sorted(ready_jobs) /\ ready_jobs.len \in Nat
    BY <2>1, Parts DEF IsHeap
  <2>3. PICK p \in 0 .. ready_jobs.len - 1 : p = H!Parent(k)
    BY <2>2, Parents
  <2>4. ready_jobs.data[p] < ready_jobs.data[k] /\ k \in 0 .. ready_jobs.len - 1
    BY <2>2, <2>3 DEF Sorted, Above
  <2>5. H!HeapLess(ready_jobs, Rank, p, k)
    BY <2>2, <2>3, <2>4, Elements
  <2>. QED BY <2>3, <2>5 DEF H!Parent
<1>. QED BY <1>1, QueueInvariant, PTL

\* ... whose jobs know where they are ...
THEOREM ReadyPositionsExact == Spec => []HeapIndexExact
<1>1. QueueInv => HeapIndexExact
  <2>. SUFFICES ASSUME QueueInv, NEW j \in Jobs, NEW k \in 0 .. ready_jobs.len - 1
                PROVE  ready_jobs.data[k] = j <=> ready_jobs.pos[j] = k
    BY DEF HeapIndexExact
  <2>1. PICK J : IsHeap(ready_jobs, J) /\ ready_jobs.len \in Nat
    BY InThere DEF QueueInv, Holds
  <2>2. ready_jobs.data[k] = j => ready_jobs.pos[j] = k
    BY <2>1 DEF IsHeap, Placed
  <2>3. ASSUME ready_jobs.pos[j] = k  PROVE ready_jobs.data[k] = j
    <3>1. j \in J
      BY <2>1, <2>3 DEF IsHeap
    <3>. QED BY <2>1, <2>3, <3>1 DEF IsHeap, Placed
  <2>. QED BY <2>2, <2>3
<1>. QED BY <1>1, QueueInvariant, PTL

\* ... and with the waiting set they are the queue and the set of TubeMatching, in
\* which the first job goes to a client that waits.
THEOREM MatchingImplemented == Spec => ImplementsMatching
<1>1. Init => Matching!Init
  <2>. SUFFICES ASSUME Init PROVE Matching!Init
    OBVIOUS
  <2>1. Holds(ready_jobs, waiting_conns, waiting, {}, {})
    BY StartHolds
  <2>. QED BY <2>1, HoldsWhat DEF Matching!Init
<1>. QED BY <1>1, InvStep, QueueInvariant, PTL DEF Spec, ImplementsMatching, Matching!Spec

===============================================================================
