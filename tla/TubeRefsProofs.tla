---------------------------- MODULE TubeRefsProofs ----------------------------
(* No tube is freed under its users, for every number of connections and tubes: *)
(* each count is exactly the references that were not given back.               *)
EXTENDS TubeRefs, FiniteSetTheorems, TLAPS

(* Counting.                                                                    *)

\* The connections that use t, and those that watch it.
UsedBy(t)    == {c \in Clients : use[c] = t}
WatchedBy(t) == {c \in Clients : t \in watch[c]}

\* Sets of connections that differ in c only differ in size by c.
LEMMA CountChange ==
  ASSUME NEW S \in SUBSET Clients, NEW T \in SUBSET Clients, NEW c,
         \A d \in Clients : d # c => (d \in S <=> d \in T)
  PROVE  /\ Cardinality(S) \in Nat /\ Cardinality(T) \in Nat
         /\ Cardinality(T) = Cardinality(S) + One(c \in T) - One(c \in S)
<1>1. IsFiniteSet(S) /\ IsFiniteSet(T) /\ IsFiniteSet(S \ {c})
  BY ClientsAssumption, FS_Subset
<1>2. T \ {c} = S \ {c}
  OBVIOUS
<1>3. Cardinality(S) \in Nat /\ Cardinality(T) \in Nat /\ Cardinality(S \ {c}) \in Nat
  BY <1>1, FS_CardinalityType
<1>4. Cardinality(T \ {c}) = Cardinality(S \ {c})
  BY <1>2, Zenon
<1>5. ASSUME NEW R \in SUBSET Clients
      PROVE  /\ One(c \in R) \in Nat
             /\ Cardinality(R) = Cardinality(R \ {c}) + One(c \in R)
  <2>1. IsFiniteSet(R) /\ IsFiniteSet(R \ {c})
    BY ClientsAssumption, FS_Subset
  <2>2. Cardinality(R) \in Nat /\ Cardinality(R \ {c}) \in Nat
    BY <2>1, FS_CardinalityType
  <2>3. Cardinality(R \ {c}) = IF c \in R THEN Cardinality(R) - 1 ELSE Cardinality(R)
    BY <2>1, FS_RemoveElement
  <2>4. CASE c \in R
    BY <2>2, <2>3, <2>4 DEF One
  <2>5. CASE c \notin R
    BY <2>2, <2>3, <2>5 DEF One
  <2>. QED BY <2>4, <2>5
<1>6. /\ Cardinality(S) = Cardinality(S \ {c}) + One(c \in S) /\ One(c \in S) \in Nat
      /\ Cardinality(T) = Cardinality(S \ {c}) + One(c \in T) /\ One(c \in T) \in Nat
  BY <1>4, <1>5, Zenon
<1>7. PICK a, b, r \in Nat : a = One(c \in S) /\ b = One(c \in T) /\ r = Cardinality(S \ {c})
  BY <1>3, <1>6, Zenon
<1>8. Cardinality(S) = r + a /\ Cardinality(T) = r + b
  BY <1>6, <1>7, Zenon
<1>9. Cardinality(T) = Cardinality(S) + b - a
  BY <1>3, <1>8
<1>. QED BY <1>3, <1>7, <1>9, Zenon

\* The number of users of a tube.
LEMMA UsersCounted ==
  ASSUME NEW t
  PROVE  /\ Users(t) = Cardinality(UsedBy(t)) + Cardinality(WatchedBy(t)) /\ Users(t) \in Nat
         /\ Users(t) = 0 => \A c \in Clients : use[c] # t /\ t \notin watch[c]
<1>1. UsedBy(t) \in SUBSET Clients /\ WatchedBy(t) \in SUBSET Clients
  BY DEF UsedBy, WatchedBy
<1>2. IsFiniteSet(UsedBy(t)) /\ IsFiniteSet(WatchedBy(t))
  BY <1>1, ClientsAssumption, FS_Subset
<1>3. Cardinality(UsedBy(t)) \in Nat /\ Cardinality(WatchedBy(t)) \in Nat
  BY <1>2, FS_CardinalityType
<1>4. Users(t) = Cardinality(UsedBy(t)) + Cardinality(WatchedBy(t))
  BY DEF Users, UsedBy, WatchedBy
<1>5. Users(t) = 0 => UsedBy(t) = {} /\ WatchedBy(t) = {}
  BY <1>2, <1>3, <1>4, FS_EmptySet
<1>. QED BY <1>3, <1>4, <1>5 DEF UsedBy, WatchedBy

(* The steps.                                                                   *)

\* Whatever c uses and watches from now on, the counts follow.
LEMMA RereferenceKeeps ==
  ASSUME RefInv, NEW c \in Clients, NEW u \in Tubes \union {NoTube}, NEW w \in SUBSET Tubes,
         u = NoTube => w = {}, Rereference(c, u, w), UNCHANGED <<jobs, copies>>
  PROVE  RefInv'
<1>1. /\ use' = [use EXCEPT ![c] = u] /\ watch' = [watch EXCEPT ![c] = w]
      /\ use \in [Clients -> Tubes \union {NoTube}] /\ watch \in [Clients -> SUBSET Tubes]
  BY DEF Rereference, RefInv, RefTypeOK
<1>2. ASSUME NEW t \in Tubes
      PROVE  /\ Users(t)' = Users(t) + Held(u, w, t) - Held(use[c], watch[c], t)
             /\ Users(t)' \in Nat
  <2>1. /\ UsedBy(t) \in SUBSET Clients /\ UsedBy(t)' \in SUBSET Clients
        /\ \A d \in Clients : d # c => (d \in UsedBy(t) <=> d \in UsedBy(t)')
        /\ c \in UsedBy(t)' <=> u = t
        /\ c \in UsedBy(t) <=> use[c] = t
    BY <1>1 DEF UsedBy
  <2>2. /\ WatchedBy(t) \in SUBSET Clients /\ WatchedBy(t)' \in SUBSET Clients
        /\ \A d \in Clients : d # c => (d \in WatchedBy(t) <=> d \in WatchedBy(t)')
        /\ c \in WatchedBy(t)' <=> t \in w
        /\ c \in WatchedBy(t) <=> t \in watch[c]
    BY <1>1 DEF WatchedBy
  <2>3. /\ Cardinality(UsedBy(t)) \in Nat /\ Cardinality(UsedBy(t)') \in Nat
        /\ Cardinality(UsedBy(t)') = Cardinality(UsedBy(t)) + One(u = t) - One(use[c] = t)
    BY <2>1, CountChange DEF One
  <2>4. /\ Cardinality(WatchedBy(t)) \in Nat /\ Cardinality(WatchedBy(t)') \in Nat
        /\ Cardinality(WatchedBy(t)') =
             Cardinality(WatchedBy(t)) + One(t \in w) - One(t \in watch[c])
    BY <2>2, CountChange DEF One
  <2>5. Users(t)' = Cardinality(UsedBy(t)') + Cardinality(WatchedBy(t)')
    BY DEF Users, UsedBy, WatchedBy
  <2>6. Users(t) = Cardinality(UsedBy(t)) + Cardinality(WatchedBy(t))
    BY UsersCounted
  <2>. QED BY <2>3, <2>4, <2>5, <2>6 DEF Held, One
<1>3. ASSUME NEW t \in Tubes
      PROVE  /\ refs'[t] \in Nat /\ made'[t] \in Nat
             /\ refs'[t] = One(t = DefaultTube) + Users(t)' + made'[t]
             /\ jobs'[t] + copies'[t] <= made'[t]
  <2>1. /\ refs'[t] = refs[t] + Held(u, w, t) - Held(use[c], watch[c], t)
        /\ made'[t] = IF refs'[t] = 0 THEN 0 ELSE made[t]
        /\ jobs'[t] = jobs[t] /\ copies'[t] = copies[t]
    BY DEF Rereference
  <2>2. /\ refs[t] = One(t = DefaultTube) + Users(t) + made[t]
        /\ jobs[t] + copies[t] <= made[t]
        /\ made[t] \in Nat /\ jobs[t] \in Nat /\ copies[t] \in Nat /\ Users(t) \in Nat
    BY UsersCounted DEF RefInv, RefTypeOK
  <2>3. refs'[t] = One(t = DefaultTube) + Users(t)' + made[t]
    BY <1>2, <2>1, <2>2 DEF One, Held
  <2>4. One(t = DefaultTube) \in Nat
    BY DEF One
  <2>5. refs'[t] = 0 => made[t] = 0
    <3>1. PICK n \in Nat : refs'[t] = n + Users(t)' + made[t]
      BY <2>3, <2>4
    <3>. QED BY <1>2, <2>2, <3>1
  <2>6. made'[t] = made[t]
    BY <2>1, <2>5
  <2>. QED BY <1>2, <2>1, <2>2, <2>3, <2>4, <2>6
<1>4. refs' \in [Tubes -> Nat] /\ made' \in [Tubes -> Nat]
  <2>1. DOMAIN refs' = Tubes /\ DOMAIN made' = Tubes
    BY DEF Rereference
  <2>2. /\ refs' = [t \in Tubes |-> refs'[t]]
        /\ made' = [t \in Tubes |-> made'[t]]
    BY DEF Rereference
  <2>. QED BY <1>3, <2>1, <2>2
<1>5. RefTypeOK'
  BY <1>1, <1>4 DEF RefInv, RefTypeOK
<1>. QED BY <1>3, <1>5 DEF RefInv

\* One more job or copy is one more reference.
LEMMA CountOneKeeps ==
  ASSUME RefInv, NEW t \in Tubes, CountOne(t), UNCHANGED <<use, watch>>,
         \/ jobs' = [jobs EXCEPT ![t] = @ + 1] /\ copies' = copies
         \/ copies' = [copies EXCEPT ![t] = @ + 1] /\ jobs' = jobs
  PROVE  RefInv'
<1>1. \A v \in Tubes : Users(v)' = Users(v) /\ Users(v) \in Nat
  BY UsersCounted DEF Users
<1>2. RefTypeOK'
  BY DEF CountOne, RefInv, RefTypeOK
<1>3. ASSUME NEW v \in Tubes
      PROVE  /\ refs'[v] = One(v = DefaultTube) + Users(v)' + made'[v]
             /\ jobs'[v] + copies'[v] <= made'[v]
  <2>1. One(v = DefaultTube) \in Nat
    BY DEF One
  <2>. QED BY <1>1, <2>1 DEF CountOne, RefInv, RefTypeOK
<1>. QED BY <1>2, <1>3 DEF RefInv

\* A job or a copy that is freed gives no reference back.
LEMMA FreeKeeps ==
  ASSUME RefInv, NEW t \in Tubes, UNCHANGED <<refs, use, watch, made>>,
         \/ jobs[t] > 0 /\ jobs' = [jobs EXCEPT ![t] = @ - 1] /\ copies' = copies
         \/ copies[t] > 0 /\ copies' = [copies EXCEPT ![t] = @ - 1] /\ jobs' = jobs
  PROVE  RefInv'
<1>1. \A v \in Tubes : Users(v)' = Users(v)
  BY DEF Users
<1>2. RefTypeOK'
  BY DEF RefInv, RefTypeOK
<1>3. ASSUME NEW v \in Tubes  PROVE jobs'[v] + copies'[v] <= made'[v]
  BY DEF RefInv, RefTypeOK
<1>. QED BY <1>1, <1>2, <1>3 DEF RefInv

\* Every step keeps the counts.
LEMMA RefStep == RefInv /\ [RefNext]_refVars => RefInv'
<1>. SUFFICES ASSUME RefInv, [RefNext]_refVars PROVE RefInv'
  OBVIOUS
<1>. /\ use \in [Clients -> Tubes \union {NoTube}] /\ watch \in [Clients -> SUBSET Tubes]
     /\ \A c \in Clients : use[c] = NoTube => watch[c] = {}
  BY DEF RefInv, RefTypeOK
<1>1. ASSUME NEW c \in Clients, Connect(c) \/ Close(c)  PROVE RefInv'
  BY <1>1, RereferenceKeeps, NamesAssumption DEF Connect, Close
<1>2. ASSUME NEW c \in Clients, NEW t \in Tubes, Use(c, t)  PROVE RefInv'
  BY <1>2, RereferenceKeeps, NamesAssumption DEF Use
<1>3. ASSUME NEW c \in Clients, NEW t \in Tubes, Watch(c, t)  PROVE RefInv'
  <2>1. watch[c] \union {t} \in SUBSET Tubes
    OBVIOUS
  <2>. QED BY <1>3, <2>1, RereferenceKeeps DEF Watch
<1>4. ASSUME NEW c \in Clients, NEW t \in Tubes, Ignore(c, t)  PROVE RefInv'
  <2>1. watch[c] \ {t} \in SUBSET Tubes /\ use[c] # NoTube
    BY <1>4 DEF Ignore
  <2>. QED BY <1>4, <2>1, RereferenceKeeps DEF Ignore
<1>5. ASSUME NEW t \in Tubes, JobCreate(t) \/ JobCopy(t)  PROVE RefInv'
  BY <1>5, CountOneKeeps DEF JobCreate, JobCopy
<1>6. ASSUME NEW t \in Tubes, JobFree(t) \/ CopyFree(t)  PROVE RefInv'
  BY <1>6, FreeKeeps DEF JobFree, CopyFree
<1>7. CASE UNCHANGED refVars
  BY <1>7 DEF refVars, RefInv, RefTypeOK, Users
<1>. QED BY <1>1, <1>2, <1>3, <1>4, <1>5, <1>6, <1>7 DEF RefNext

\* At the start the default tube has the one reference of default_tube.
LEMMA RefInitInv == RefInit => RefInv
<1>. SUFFICES ASSUME RefInit PROVE RefInv
  OBVIOUS
<1>1. RefTypeOK
  BY DEF RefInit, RefTypeOK, One
<1>2. ASSUME NEW t \in Tubes  PROVE Users(t) = 0
  <2>1. UsedBy(t) = {} /\ WatchedBy(t) = {}
    BY NamesAssumption DEF RefInit, UsedBy, WatchedBy
  <2>. QED BY <2>1, UsersCounted, FS_EmptySet
<1>. QED BY <1>1, <1>2 DEF RefInit, RefInv, One

(* The theorems.                                                                *)

\* The counts are exact in every state.
THEOREM CountsExact == RefSpec => []RefInv
BY RefInitInv, RefStep, PTL DEF RefSpec

\* No tube is freed under a connection that uses or watches it, nor under a job.
THEOREM UsersCovered == RefSpec => []CountCoversUsers
<1>1. RefInv => CountCoversUsers
  <2>. SUFFICES ASSUME RefInv, NEW t \in Tubes PROVE refs[t] >= Users(t) + jobs[t] + copies[t]
    BY DEF CountCoversUsers
  <2>1. One(t = DefaultTube) \in Nat /\ Users(t) \in Nat
    BY UsersCounted DEF One
  <2>. QED BY <2>1 DEF RefInv, RefTypeOK
<1>. QED BY <1>1, CountsExact, PTL

\* A tube that never held a job goes with its last user.
THEOREM UnusedGo == RefSpec => []UnusedTubesDeleted
<1>1. RefInv => UnusedTubesDeleted
  <2>. SUFFICES ASSUME RefInv, NEW t \in Tubes \ {DefaultTube}, Users(t) + made[t] = 0
                PROVE  ~ Exists(t)
    BY DEF UnusedTubesDeleted
  <2>1. One(t = DefaultTube) = 0 /\ Users(t) \in Nat
    BY UsersCounted DEF One
  <2>. QED BY <2>1 DEF RefInv, RefTypeOK, Exists
<1>. QED BY <1>1, CountsExact, PTL

===============================================================================
