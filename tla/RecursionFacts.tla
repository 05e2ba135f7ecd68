---------------------------- MODULE RecursionFacts ----------------------------
(* Induction over the naturals, and what it shows of recursive functions: that *)
(* there is a function as their definition describes it.                        *)
EXTENDS Integers, Sequences, SequencesExt, WellFoundedInduction, TLAPS

\* A set of naturals that is not empty has a least member.
LEMMA LeastOf ==
  ASSUME NEW S \in SUBSET Nat, S # {}
  PROVE  \E m \in S : \A k \in S : m <= k
<1>1. PICK m \in S : \A y \in S : ~ (<<y, m>> \in OpToRel(<, Nat))
  BY NatLessThanWellFounded, WFMin
<1>2. \A y \in S : ~ (y < m)
  BY <1>1 DEF OpToRel
<1>. QED BY <1>2

\* Induction, for a set.
LEMMA AllNaturals ==
  ASSUME NEW S, 0 \in S, \A n \in Nat : n \in S => n + 1 \in S
  PROVE  Nat \subseteq S
<1>. SUFFICES ASSUME Nat \ S # {} PROVE FALSE
  OBVIOUS
<1>1. PICK m \in Nat \ S : \A k \in Nat \ S : m <= k
  BY LeastOf
<1>2. m # 0 /\ m - 1 \in Nat
  BY <1>1
<1>. QED BY <1>1, <1>2

\* The states that a loop goes through, T[n] being its n-th turn.
Iterates(f, T, s, S, k) ==
  /\ DOMAIN f = 0 .. k /\ f = [n \in 0 .. k |-> f[n]] /\ f[0] = s
  /\ \A n \in 0 .. k : f[n] \in S
  /\ \A n \in 1 .. k : f[n] = T[n][f[n - 1]]

LoopIn(T, S, k) == \A n \in 1 .. k : \A x \in S : T[n][x] \in S

\* There are such states when the turns stay in S.
LEMMA Iterated ==
  ASSUME NEW S, NEW s \in S, NEW k \in Nat, NEW T, LoopIn(T, S, k)
  PROVE  \E f : Iterates(f, T, s, S, k)
<1>. DEFINE Upto(m, f) == /\ \A n \in 0 .. m : f[n] \in S
                          /\ f = [n \in 0 .. m |-> IF n = 0 THEN s ELSE T[n][f[n - 1]]]
            R == {m \in Nat : m <= k => \E f : Upto(m, f)}
<1>1. 0 \in R
  <2>. DEFINE g == [n \in 0 .. 0 |-> s]
  <2>1. Upto(0, g)
    OBVIOUS
  <2>. QED BY <2>1
<1>2. ASSUME NEW m \in Nat, m \in R, m + 1 <= k  PROVE \E f : Upto(m + 1, f)
  <2>1. PICK f : Upto(m, f)
    BY <1>2
  <2>. DEFINE g == [n \in 0 .. m + 1 |-> IF n = 0 THEN s ELSE T[n][f[n - 1]]]
  <2>2. \A n \in 0 .. m : g[n] = f[n]
    BY <2>1
  <2>3. \A n \in 0 .. m + 1 : g[n] \in S
    <3>1. ASSUME NEW n \in 0 .. m + 1, n # 0  PROVE g[n] \in S
      <4>1. n \in 1 .. k /\ n - 1 \in 0 .. m
        BY <1>2, <3>1
      <4>2. f[n - 1] \in S
        BY <2>1, <4>1
      <4>3. T[n][f[n - 1]] \in S
        BY <4>1, <4>2 DEF LoopIn
      <4>. QED BY <3>1, <4>3
    <3>. QED BY <3>1
  <2>. HIDE DEF g
  <2>4. ASSUME NEW n \in 0 .. m + 1, n # 0  PROVE g[n - 1] = f[n - 1]
    <3>1. n - 1 \in 0 .. m
      BY <2>4
    <3>. QED BY <2>2, <3>1
  <2>5. g = [n \in 0 .. m + 1 |-> IF n = 0 THEN s ELSE T[n][g[n - 1]]]
    BY <2>4 DEF g
  <2>. QED BY <2>3, <2>5
<1>. HIDE DEF Upto
<1>3. \A m \in Nat : m \in R => m + 1 \in R
  BY <1>2
<1>4. \A m \in R : m <= k => \E f : Upto(m, f)
  OBVIOUS
<1>. HIDE DEF R
<1>5. k \in R
  BY <1>1, <1>3, AllNaturals
<1>6. PICK f : Upto(k, f)
  BY <1>5, <1>4
<1>7. DOMAIN f = 0 .. k /\ f = [n \in 0 .. k |-> f[n]] /\ f[0] = s /\ \A n \in 0 .. k : f[n] \in S
  BY <1>6 DEF Upto
<1>8. ASSUME NEW n \in 1 .. k  PROVE f[n] = T[n][f[n - 1]]
  <2>1. n \in 0 .. k /\ n # 0
    OBVIOUS
  <2>. QED BY <1>6, <2>1 DEF Upto
<1>. QED BY <1>7, <1>8 DEF Iterates

\* The definition of FlattenSeq makes sense.
LEMMA FlattenDef ==
  ASSUME NEW seqs, Len(seqs) \in Nat, Len(seqs) # 0
  PROVE  \E f : /\ f = [i \in 1 .. Len(seqs) |-> IF i = 1 THEN seqs[i] ELSE f[i - 1] \o seqs[i]]
                /\ FlattenSeq(seqs) = f[Len(seqs)]
<1>. DEFINE Link(i, s) == s \o seqs[i]
            Upto(n, f) == f = [i \in 1 .. n |-> IF i = 1 THEN seqs[i] ELSE Link(i, f[i - 1])]
            S == {n \in Nat : \E f : Upto(n, f)}
<1>. HIDE DEF Link
<1>1. 0 \in S
  <2>1. Upto(0, [i \in 1 .. 0 |-> 0])
    OBVIOUS
  <2>. QED BY <2>1
<1>2. ASSUME NEW n \in Nat, n \in S  PROVE n + 1 \in S
  <2>1. PICK f : Upto(n, f)
    BY <1>2
  <2>. DEFINE g == [i \in 1 .. n + 1 |-> IF i = 1 THEN seqs[i] ELSE Link(i, f[i - 1])]
  <2>2. \A i \in 1 .. n : g[i] = f[i]
    BY <2>1
  <2>. HIDE DEF g
  <2>3. ASSUME NEW i \in 1 .. n + 1, i # 1  PROVE g[i - 1] = f[i - 1]
    <3>1. i - 1 \in 1 .. n
      BY <2>3
    <3>. QED BY <2>2, <3>1
  <2>4. g = [i \in 1 .. n + 1 |-> IF i = 1 THEN seqs[i] ELSE Link(i, g[i - 1])]
    BY <2>3 DEF g
  <2>. QED BY <2>4
<1>. HIDE DEF S
<1>3. Len(seqs) \in S
  BY <1>1, <1>2, AllNaturals
<1>4. \E f : f = [i \in 1 .. Len(seqs) |-> IF i = 1 THEN seqs[i] ELSE f[i - 1] \o seqs[i]]
  BY <1>3 DEF S, Link
<1>. DEFINE flat == CHOOSE f : f = [i \in 1 .. Len(seqs) |->
                                      IF i = 1 THEN seqs[i] ELSE f[i - 1] \o seqs[i]]
<1>5. FlattenSeq(seqs) = flat[Len(seqs)]
  BY DEF FlattenSeq
<1>6. flat = [i \in 1 .. Len(seqs) |-> IF i = 1 THEN seqs[i] ELSE flat[i - 1] \o seqs[i]]
  BY <1>4
<1>. QED BY <1>5, <1>6

===============================================================================
