--------------------------- MODULE TasqueStepProofs ----------------------------
(* What every step of Tasque keeps.  First the jobs: a step moves at most one,     *)
(* which is taken out of one queue (the Take lemmas leave it Detached) and put     *)
(* into one (the To lemmas), whatever the command is that does so.  Then the types *)
(* of the variables, and connections, waiting sets and handlers.                   *)
EXTENDS Tasque, TLAPS

(* Sequences.                                                               *)

\* What Append is, index by index.
LEMMA AppendFacts ==
  ASSUME NEW S, NEW s \in Seq(S), NEW e \in S
  PROVE  /\ DOMAIN Append(s, e) = 1 .. Len(s) + 1 /\ DOMAIN s = 1 .. Len(s)
         /\ Len(s) \in Nat
         /\ \A i \in 1 .. Len(s) : Append(s, e)[i] = s[i]
         /\ Append(s, e)[Len(s) + 1] = e
OBVIOUS

\* Append adds one element.
LEMMA AppendToSet ==
  ASSUME NEW S, NEW s \in Seq(S), NEW e \in S
  PROVE  ToSet(Append(s, e)) = ToSet(s) \union {e}
BY AppendFacts DEF ToSet

\* A list without repetitions stays one when a new element is appended.
LEMMA AppendKeepsInjective ==
  ASSUME NEW S, NEW s \in Seq(S), NEW e \in S, IsInjective(s), e \notin ToSet(s)
  PROVE  IsInjective(Append(s, e))
<1>1. /\ DOMAIN Append(s, e) = 1 .. Len(s) + 1 /\ DOMAIN s = 1 .. Len(s)
      /\ Len(s) \in Nat
      /\ \A i \in 1 .. Len(s) : Append(s, e)[i] = s[i]
      /\ Append(s, e)[Len(s) + 1] = e
  BY AppendFacts, SMT
<1>2. \A i \in 1 .. Len(s) : s[i] # e
  BY <1>1 DEF ToSet
<1>. QED BY <1>1, <1>2 DEF IsInjective

\* Without its head, a list without repetitions has exactly the other elements.
LEMMA PopHead ==
  ASSUME NEW S, NEW s \in Seq(S), s # <<>>, IsInjective(s)
  PROVE  /\ Head(s) \in S /\ Head(s) \in ToSet(s)
         /\ Tail(s) \in Seq(S)
         /\ ToSet(Tail(s)) = ToSet(s) \ {Head(s)}
         /\ IsInjective(Tail(s))
<1>1. /\ DOMAIN s = 1 .. Len(s) /\ Len(s) \in Nat /\ Len(s) > 0
      /\ Head(s) = s[1] /\ Head(s) \in S
      /\ Tail(s) \in Seq(S)
      /\ DOMAIN Tail(s) = 1 .. Len(s) - 1
      /\ \A i \in 1 .. Len(s) - 1 : Tail(s)[i] = s[i + 1]
  OBVIOUS
<1>2. Head(s) \in ToSet(s)
  BY <1>1 DEF ToSet
<1>3. IsInjective(Tail(s))
  BY <1>1 DEF IsInjective
<1>4. ASSUME NEW x \in ToSet(Tail(s))  PROVE x \in ToSet(s) \ {Head(s)}
  BY <1>1 DEF ToSet, IsInjective
<1>5. ASSUME NEW x \in ToSet(s), x # Head(s)  PROVE x \in ToSet(Tail(s))
  <2>1. PICK i \in 1 .. Len(s) : x = s[i] /\ i # 1
    BY <1>1, <1>5 DEF ToSet
  <2>2. i - 1 \in 1 .. Len(s) - 1 /\ Tail(s)[i - 1] = x
    BY <1>1, <2>1
  <2>. QED BY <1>1, <2>2 DEF ToSet
<1>. QED BY <1>1, <1>2, <1>3, <1>4, <1>5

\* With the queues R (ready), D (delayed), B (buried) and V (reserved), every
\* job but j is in its place, and j is in no queue.
Detached(j, R, D, B, V) ==
  /\ \A t \in Tubes : B[t] \in Seq(Jobs) /\ IsInjective(B[t])
  /\ \A t \in Tubes, k \in Jobs :
       k \in R[t] <=> k # j /\ job_state[k] = "ready" /\ tube[k] = t
  /\ \A t \in Tubes, k \in Jobs :
       k \in D[t] <=> k # j /\ job_state[k] = "delayed" /\ tube[k] = t
  /\ \A t \in Tubes, k \in Jobs :
       k \in ToSet(B[t]) <=> k # j /\ job_state[k] = "buried" /\ tube[k] = t
  /\ \A c \in Conns, k \in Jobs :
       k \in V[c] <=> k # j /\ job_state[k] = "reserved" /\ reserver[k] = c

\* Job j ends in state s and all jobs, j with them, are in their places.
Becomes(j, s) ==
  /\ InPlace' /\ BuriedOnce'
  /\ job_state' = [job_state EXCEPT ![j] = s]

\* What a move of a job relies on.
QueueInv == health = "ok" /\ TypeOK /\ InPlace /\ BuriedOnce

\* A job that is not there yet, or whose body is being read, is in no queue.
LEMMA TakeIdle ==
  ASSUME QueueInv, NEW j \in Jobs, job_state[j] \in {"none", "invalid"}
  PROVE  Detached(j, ready_jobs, delay_jobs, buried_jobs, reserved_jobs)
BY DEF QueueInv, TypeOK, InPlace, ReadyInPlace, DelayedInPlace, BuriedInPlace, ReservedInPlace,
       BuriedOnce, Detached

\* remove_reserved_job of a job that c holds takes it out of the only place it
\* is in.
LEMMA TakeReserved ==
  ASSUME QueueInv, NEW c \in Conns, NEW j \in Jobs, HoldsJob(c, j), RemoveReserved(c, j)
  PROVE  /\ job_state[j] = "reserved" /\ reserver[j] = c
         /\ Detached(j, ready_jobs, delay_jobs, buried_jobs, reserved_jobs')
<1>1. job_state[j] = "reserved" /\ reserver[j] = c
  BY DEF QueueInv, InPlace, ReservedInPlace, HoldsJob
<1>2. \A d \in Conns : \A k : k \in reserved_jobs'[d] <=> k \in reserved_jobs[d] /\ ~ (d = c /\ k = j)
  BY DEF QueueInv, TypeOK, RemoveReserved
<1>3. \A d \in Conns, k \in Jobs :
        k \in reserved_jobs'[d] <=> k # j /\ job_state[k] = "reserved" /\ reserver[k] = d
  BY <1>1, <1>2 DEF QueueInv, InPlace, ReservedInPlace
<1>. QED BY <1>1, <1>3
         DEF QueueInv, TypeOK, InPlace, ReadyInPlace, DelayedInPlace, BuriedInPlace,
             ReservedInPlace, BuriedOnce, Detached

\* So does remove_ready_job of a ready job,
LEMMA TakeReady ==
  ASSUME QueueInv, NEW j \in Jobs, job_state[j] = "ready",
         ready_jobs' = [ready_jobs EXCEPT ![tube[j]] = @ \ {j}]
  PROVE  Detached(j, ready_jobs', delay_jobs, buried_jobs, reserved_jobs)
<1>1. \A t \in Tubes : ready_jobs'[t] = IF t = tube[j] THEN ready_jobs[t] \ {j} ELSE ready_jobs[t]
  BY DEF QueueInv, TypeOK
<1>. QED BY <1>1
         DEF QueueInv, TypeOK, InPlace, ReadyInPlace, DelayedInPlace, BuriedInPlace,
             ReservedInPlace, BuriedOnce, Detached

\* so does the removal from a delay heap,
LEMMA TakeDelayed ==
  ASSUME QueueInv, NEW t \in Tubes, NEW j \in Jobs, j \in delay_jobs[t],
         delay_jobs' = [delay_jobs EXCEPT ![t] = @ \ {j}]
  PROVE  /\ job_state[j] = "delayed" /\ tube[j] = t
         /\ Detached(j, ready_jobs, delay_jobs', buried_jobs, reserved_jobs)
<1>1. job_state[j] = "delayed" /\ tube[j] = t
  BY DEF QueueInv, InPlace, DelayedInPlace
<1>2. \A u \in Tubes : delay_jobs'[u] = IF u = t THEN delay_jobs[u] \ {j} ELSE delay_jobs[u]
  BY DEF QueueInv, TypeOK
<1>. QED BY <1>1, <1>2
         DEF QueueInv, TypeOK, InPlace, ReadyInPlace, DelayedInPlace, BuriedInPlace,
             ReservedInPlace, BuriedOnce, Detached

\* and so does remove_buried_job, for the job at the head of the list.
LEMMA TakeBuried ==
  ASSUME QueueInv, NEW t \in Tubes, buried_jobs[t] # <<>>
  PROVE  LET j == Head(buried_jobs[t])
         IN /\ j \in Jobs /\ job_state[j] = "buried" /\ tube[j] = t
            /\ PopBuried(t) \in [Tubes -> Seq(Jobs)]
            /\ Detached(j, ready_jobs, delay_jobs, PopBuried(t), reserved_jobs)
<1>. DEFINE j == Head(buried_jobs[t])
<1>1. buried_jobs \in [Tubes -> Seq(Jobs)] /\ \A u \in Tubes : IsInjective(buried_jobs[u])
  BY DEF QueueInv, TypeOK, BuriedOnce
<1>2. /\ j \in Jobs /\ j \in ToSet(buried_jobs[t])
      /\ Tail(buried_jobs[t]) \in Seq(Jobs) /\ IsInjective(Tail(buried_jobs[t]))
      /\ ToSet(Tail(buried_jobs[t])) = ToSet(buried_jobs[t]) \ {j}
  BY <1>1, PopHead
<1>3. job_state[j] = "buried" /\ tube[j] = t
  BY <1>2 DEF QueueInv, InPlace, BuriedInPlace
<1>4. \A u \in Tubes : PopBuried(t)[u] = IF u = t THEN Tail(buried_jobs[t]) ELSE buried_jobs[u]
  BY <1>1 DEF PopBuried
<1>5. PopBuried(t) \in [Tubes -> Seq(Jobs)]
  BY <1>1, <1>2 DEF PopBuried
<1>. HIDE DEF j
<1>6. /\ \A u \in Tubes : PopBuried(t)[u] \in Seq(Jobs) /\ IsInjective(PopBuried(t)[u])
      /\ \A u \in Tubes, k \in Jobs :
           k \in ToSet(PopBuried(t)[u]) <=> k # j /\ job_state[k] = "buried" /\ tube[k] = u
  <2>1. \A u \in Tubes : \A k : k \in ToSet(PopBuried(t)[u]) <=>
                              k \in ToSet(buried_jobs[u]) /\ ~ (u = t /\ k = j)
    BY <1>2, <1>4
  <2>2. \A u \in Tubes, k \in Jobs :
           k \in ToSet(PopBuried(t)[u]) <=> k # j /\ job_state[k] = "buried" /\ tube[k] = u
    BY <1>3, <2>1 DEF QueueInv, InPlace, BuriedInPlace
  <2>3. ASSUME NEW u \in Tubes  PROVE PopBuried(t)[u] \in Seq(Jobs) /\ IsInjective(PopBuried(t)[u])
    <3>1. CASE u = t
      BY <3>1, <1>2, <1>4, Zenon
    <3>2. CASE u # t
      BY <3>2, <1>1, <1>4
    <3>. QED BY <3>1, <3>2
  <2>. QED BY <2>2, <2>3
<1>7. Detached(j, ready_jobs, delay_jobs, PopBuried(t), reserved_jobs)
  BY <1>3, <1>6 DEF QueueInv, InPlace, ReadyInPlace, DelayedInPlace, ReservedInPlace, Detached
<1>. QED BY <1>2, <1>3, <1>5, <1>7 DEF j

\* enqueue_job without a delay puts a job that is in no queue in its place.
LEMMA ToReady ==
  ASSUME QueueInv, NEW j \in Jobs, EnqueueReady(j), tube' = tube,
         Detached(j, ready_jobs, delay_jobs', buried_jobs', reserved_jobs')
  PROVE  Becomes(j, "ready")
<1>1. \A t \in Tubes : \A k : k \in ready_jobs'[t] <=> k \in ready_jobs[t] \/ (t = tube[j] /\ k = j)
  BY DEF QueueInv, TypeOK, EnqueueReady
<1>2. /\ \A k \in Jobs : job_state'[k] = IF k = j THEN "ready" ELSE job_state[k]
      /\ \A k \in Jobs : k # j => reserver'[k] = reserver[k]
      /\ job_state' = [job_state EXCEPT ![j] = "ready"]
  BY DEF QueueInv, TypeOK, EnqueueReady
<1>3. tube[j] \in Tubes
  BY DEF QueueInv, TypeOK
<1>4. ReadyInPlace'
  BY <1>1, <1>2, <1>3 DEF ReadyInPlace, Detached
<1>5. DelayedInPlace'
  BY <1>1, <1>2, <1>3 DEF DelayedInPlace, Detached
<1>6. BuriedInPlace' /\ BuriedOnce'
  BY <1>2, <1>3 DEF BuriedInPlace, BuriedOnce, Detached
<1>7. ReservedInPlace'
  BY <1>2 DEF ReservedInPlace, Detached
<1>. QED BY <1>2, <1>4, <1>5, <1>6, <1>7 DEF InPlace, Becomes

\* enqueue_job with a delay does.
LEMMA ToDelayed ==
  ASSUME QueueInv, NEW j \in Jobs, EnqueueDelayed(j), tube' = tube,
         Detached(j, ready_jobs', delay_jobs, buried_jobs', reserved_jobs')
  PROVE  Becomes(j, "delayed")
<1>1. \A t \in Tubes : \A k : k \in delay_jobs'[t] <=> k \in delay_jobs[t] \/ (t = tube[j] /\ k = j)
  BY DEF QueueInv, TypeOK, EnqueueDelayed
<1>2. /\ \A k \in Jobs : job_state'[k] = IF k = j THEN "delayed" ELSE job_state[k]
      /\ \A k \in Jobs : k # j => reserver'[k] = reserver[k]
      /\ job_state' = [job_state EXCEPT ![j] = "delayed"]
  BY DEF QueueInv, TypeOK, EnqueueDelayed
<1>3. tube[j] \in Tubes
  BY DEF QueueInv, TypeOK
<1>4. ReadyInPlace'
  BY <1>1, <1>2, <1>3 DEF ReadyInPlace, Detached
<1>5. DelayedInPlace'
  BY <1>1, <1>2, <1>3 DEF DelayedInPlace, Detached
<1>6. BuriedInPlace' /\ BuriedOnce'
  BY <1>2, <1>3 DEF BuriedInPlace, BuriedOnce, Detached
<1>7. ReservedInPlace'
  BY <1>2 DEF ReservedInPlace, Detached
<1>. QED BY <1>2, <1>4, <1>5, <1>6, <1>7 DEF InPlace, Becomes

\* bury_job does, or leaves the job in none for want of memory.
LEMMA ToBuried ==
  ASSUME QueueInv, NEW j \in Jobs, NEW b \in [Tubes -> Seq(Jobs)], BuryJob(j, b), tube' = tube,
         Detached(j, ready_jobs', delay_jobs', b, reserved_jobs')
  PROVE  Becomes(j, "buried") \/ Becomes(j, "lost")
<1>1. tube[j] \in Tubes /\ \A k \in Jobs : k # j => reserver'[k] = reserver[k]
  BY DEF QueueInv, TypeOK, BuryJob
<1>2. CASE /\ buried_jobs' = [b EXCEPT ![tube[j]] = Append(@, j)]
           /\ job_state' = [job_state EXCEPT ![j] = "buried"]
  <2>1. \A t \in Tubes : buried_jobs'[t] = IF t = tube[j] THEN Append(b[t], j) ELSE b[t]
    BY <1>2
  <2>2. \A k \in Jobs : job_state'[k] = IF k = j THEN "buried" ELSE job_state[k]
    BY <1>2 DEF QueueInv, TypeOK
  <2>3. \A t \in Tubes : j \notin ToSet(b[t]) /\ IsInjective(b[t]) /\ b[t] \in Seq(Jobs)
    BY DEF Detached
  <2>4. /\ IsInjective(Append(b[tube[j]], j))
        /\ ToSet(Append(b[tube[j]], j)) = ToSet(b[tube[j]]) \union {j}
    <3>1. b[tube[j]] \in Seq(Jobs) /\ IsInjective(b[tube[j]]) /\ j \notin ToSet(b[tube[j]])
      BY <1>1, <2>3
    <3>2. IsInjective(Append(b[tube[j]], j))
      BY <3>1, AppendKeepsInjective
    <3>3. ToSet(Append(b[tube[j]], j)) = ToSet(b[tube[j]]) \union {j}
      BY <3>1, AppendToSet
    <3>. QED BY <3>2, <3>3
  <2>5. BuriedOnce'
    BY <2>1, <2>3, <2>4 DEF BuriedOnce
  <2>6. BuriedInPlace'
    <3>1. \A t \in Tubes : \A k : k \in ToSet(buried_jobs'[t]) <=>
                                k \in ToSet(b[t]) \/ (t = tube[j] /\ k = j)
      BY <2>1, <2>4
    <3>. QED BY <1>1, <2>2, <3>1 DEF BuriedInPlace, Detached
  <2>7. ReadyInPlace' /\ DelayedInPlace' /\ ReservedInPlace'
    BY <1>1, <2>2 DEF ReadyInPlace, DelayedInPlace, ReservedInPlace, Detached
  <2>. QED BY <1>2, <2>5, <2>6, <2>7
           DEF InPlace, Becomes
<1>3. CASE buried_jobs' = b /\ job_state' = [job_state EXCEPT ![j] = "lost"]
  <2>1. \A k \in Jobs : job_state'[k] = IF k = j THEN "lost" ELSE job_state[k]
    BY <1>3 DEF QueueInv, TypeOK
  <2>. QED BY <1>1, <1>3, <2>1
           DEF InPlace, ReadyInPlace, DelayedInPlace, BuriedInPlace, ReservedInPlace, BuriedOnce,
               Detached, Becomes
<1>. QED BY <1>2, <1>3 DEF BuryJob

\* job_free leaves a job that is in no queue in none.
LEMMA ToFreed ==
  ASSUME QueueInv, NEW j \in Jobs, FreeJob(j), tube' = tube,
         \A k \in Jobs : k # j => reserver'[k] = reserver[k],
         Detached(j, ready_jobs', delay_jobs', buried_jobs', reserved_jobs')
  PROVE  Becomes(j, "none")
<1>1. /\ \A k \in Jobs : job_state'[k] = IF k = j THEN "none" ELSE job_state[k]
      /\ job_state' = [job_state EXCEPT ![j] = "none"]
  BY DEF QueueInv, TypeOK, FreeJob
<1>. QED BY <1>1
         DEF InPlace, ReadyInPlace, DelayedInPlace, BuriedInPlace, ReservedInPlace,
             BuriedOnce, Detached, Becomes

\* job_create makes a job that is in no queue.
LEMMA ToInvalid ==
  ASSUME QueueInv, NEW j \in Jobs, job_state' = [job_state EXCEPT ![j] = "invalid"],
         \A k \in Jobs : k # j => tube'[k] = tube[k],
         reserver' = reserver,
         Detached(j, ready_jobs', delay_jobs', buried_jobs', reserved_jobs')
  PROVE  Becomes(j, "invalid")
<1>1. \A k \in Jobs : job_state'[k] = IF k = j THEN "invalid" ELSE job_state[k]
  BY DEF QueueInv, TypeOK
<1>. QED BY <1>1
         DEF InPlace, ReadyInPlace, DelayedInPlace, BuriedInPlace, ReservedInPlace,
             BuriedOnce, Detached, Becomes

\* reserve_job puts a job that is in no queue on the list of its reserver.
LEMMA ToReserved ==
  ASSUME QueueInv, NEW j \in Jobs, NEW c \in Conns,
         job_state' = [job_state EXCEPT ![j] = "reserved"],
         reserver' = [reserver EXCEPT ![j] = c],
         reserved_jobs' = [reserved_jobs EXCEPT ![c] = @ \union {j}], tube' = tube,
         Detached(j, ready_jobs', delay_jobs', buried_jobs', reserved_jobs)
  PROVE  Becomes(j, "reserved")
<1>1. /\ \A k \in Jobs : job_state'[k] = IF k = j THEN "reserved" ELSE job_state[k]
      /\ \A k \in Jobs : reserver'[k] = IF k = j THEN c ELSE reserver[k]
      /\ \A d \in Conns : \A k : k \in reserved_jobs'[d] <=> k \in reserved_jobs[d] \/ (d = c /\ k = j)
  BY DEF QueueInv, TypeOK
<1>2. ReservedInPlace'
  BY <1>1 DEF ReservedInPlace, Detached
<1>. QED BY <1>1, <1>2
         DEF InPlace, ReadyInPlace, DelayedInPlace, BuriedInPlace, BuriedOnce, Detached, Becomes

(* The steps of the server, by what they do to jobs. *)

\* The records of jobs, their queues and who reads a body stay as they are.
JobsStay == UNCHANGED <<next_job_id, tube, job_state, reserver, reserved_jobs, queueVars, in_job>>

\* A job that has been put moves on.
Shift(j) ==
  /\ job_state[j] \notin {"none", "invalid"}
  /\ \E s \in JobStates \ {"invalid"} : Becomes(j, s)
  /\ UNCHANGED <<next_job_id, in_job>>

\* release: a job that c holds is moved to a heap.
LEMMA EnqueueJobShifts ==
  ASSUME QueueInv, NEW c \in Conns, NEW j \in Jobs, HoldsJob(c, j), RemoveReserved(c, j),
         NEW d \in BOOLEAN, EnqueueJob(j, d), buried_jobs' = buried_jobs,
         UNCHANGED <<tube, next_job_id, in_job>>
  PROVE  Shift(j)
<1>1. /\ job_state[j] = "reserved"
      /\ Detached(j, ready_jobs, delay_jobs, buried_jobs, reserved_jobs')
  BY TakeReserved
<1>2. CASE ~ d
  BY <1>1, <1>2, ToReady DEF EnqueueJob, Shift, JobStates
<1>3. CASE d
  BY <1>1, <1>3, ToDelayed DEF EnqueueJob, Shift, JobStates
<1>. QED BY <1>2, <1>3

\* A job that is in no queue is made ready, or for want of memory buried or lost.
LEMMA EnqueueOrBuryBecomes ==
  ASSUME QueueInv, NEW j \in Jobs, EnqueueOrBury(j), tube' = tube,
         Detached(j, ready_jobs, delay_jobs', buried_jobs, reserved_jobs')
  PROVE  Becomes(j, "ready") \/ Becomes(j, "buried") \/ Becomes(j, "lost")
<1>1. CASE EnqueueReady(j) /\ UNCHANGED buried_jobs
  BY <1>1, ToReady
<1>2. CASE BuryJob(j, buried_jobs) /\ UNCHANGED ready_jobs
  <2>1. buried_jobs \in [Tubes -> Seq(Jobs)]
    BY DEF QueueInv, TypeOK
  <2>. QED BY <1>2, <2>1, ToBuried
<1>. QED BY <1>1, <1>2 DEF EnqueueOrBury

\* process_queue moves the job it delivers from its ready heap to a list.
LEMMA DeliverShifts ==
  ASSUME QueueInv, NEW j \in Jobs, NEW c \in Conns, Deliver(j, c)
  PROVE  Shift(j)
<1>1. job_state[j] = "ready"
  BY DEF QueueInv, InPlace, ReadyInPlace, Deliver, IsNext, Eligible
<1>2. Detached(j, ready_jobs', delay_jobs, buried_jobs, reserved_jobs)
  BY <1>1, TakeReady DEF Deliver
<1>3. Becomes(j, "reserved")
  BY <1>2, ToReserved DEF Deliver
<1>. QED BY <1>1, <1>3 DEF Shift, Deliver, JobStates

\* delete finds that the head of the buried list is another job, and takes it for j.
PopsAnother(j) ==
  /\ job_state[j] # "ready" /\ buried_jobs[tube[j]] # <<>> /\ Head(buried_jobs[tube[j]]) # j
  /\ buried_jobs' = PopBuried(tube[j])
  /\ job_state' = [job_state EXCEPT ![Head(buried_jobs[tube[j]])] = "lost", ![j] = "none"]
  /\ pri' = [pri EXCEPT ![j] = 0]
  /\ reserver' = [reserver EXCEPT ![j] = NoConn]
  /\ health' = IF job_state[j] = "lost" THEN health ELSE "undefined"
  /\ UNCHANGED <<next_job_id, tube, ready_jobs, delay_jobs, reserved_jobs, in_job>>

\* delete frees a job from the one place it was in, or changes no queue, or does that.
LEMMA DeleteShifts ==
  ASSUME QueueInv, NEW j \in Jobs, NEW c \in Conns, Delete(c, j)
  PROVE  Shift(j) \/ JobsStay \/ PopsAnother(j)
<1>0. tube' = tube /\ next_job_id' = next_job_id /\ in_job' = in_job /\ delay_jobs' = delay_jobs
  BY DEF Delete, ioVars
<1>1. ASSUME FreeDeleted(c, j), job_state[j] \notin {"none", "invalid"},
             Detached(j, ready_jobs', delay_jobs', buried_jobs', reserved_jobs')
      PROVE  Shift(j)
  <2>1. FreeJob(j) /\ \A k \in Jobs : k # j => reserver'[k] = reserver[k]
    BY <1>1 DEF FreeDeleted, QueueInv, TypeOK
  <2>2. Becomes(j, "none")
    BY <1>0, <1>1, <2>1, ToFreed
  <2>. QED BY <1>0, <1>1, <2>2 DEF Shift, JobStates
<1>2. CASE /\ HoldsJob(c, j) /\ RemoveReserved(c, j) /\ FreeDeleted(c, j)
           /\ UNCHANGED <<ready_jobs, buried_jobs>>
  BY <1>0, <1>1, <1>2, TakeReserved
<1>3. CASE /\ job_state[j] = "ready"
           /\ ready_jobs' = [ready_jobs EXCEPT ![tube[j]] = @ \ {j}]
           /\ FreeDeleted(c, j)
           /\ UNCHANGED <<reserved_jobs, buried_jobs>>
  BY <1>0, <1>1, <1>3, TakeReady
<1>4. CASE /\ buried_jobs[tube[j]] # <<>> /\ Head(buried_jobs[tube[j]]) = j
           /\ buried_jobs' = PopBuried(tube[j])
           /\ FreeDeleted(c, j)
           /\ UNCHANGED <<reserved_jobs, ready_jobs>>
  <2>1. tube[j] \in Tubes
    BY DEF QueueInv, TypeOK
  <2>2. /\ job_state[j] = "buried"
        /\ Detached(j, ready_jobs, delay_jobs, PopBuried(tube[j]), reserved_jobs)
    BY <1>4, <2>1, TakeBuried
  <2>. QED BY <1>0, <1>1, <1>4, <2>2
<1>5. CASE UNCHANGED <<reserved_jobs, job_state, reserver, ready_jobs, buried_jobs>>
  BY <1>0, <1>5 DEF JobsStay, queueVars
<1>6. CASE PopsAnother(j)
  BY <1>6
<1>. QED BY <1>0, <1>2, <1>3, <1>4, <1>5, <1>6 DEF Delete, PopsAnother

\* release moves the released job.
LEMMA ReleaseShifts ==
  ASSUME QueueInv, NEW c \in Conns, NEW j \in Jobs, NEW p, NEW d \in BOOLEAN, Release(c, j, p, d)
  PROVE  Shift(j)
BY EnqueueJobShifts DEF Release, ioVars

\* bury moves the buried job.
LEMMA BuryShifts ==
  ASSUME QueueInv, NEW c \in Conns, NEW j \in Jobs, NEW p, Bury(c, j, p)
  PROVE  Shift(j)
<1>1. /\ job_state[j] = "reserved"
      /\ Detached(j, ready_jobs, delay_jobs, buried_jobs, reserved_jobs')
  BY TakeReserved DEF Bury
<1>2. buried_jobs \in [Tubes -> Seq(Jobs)]
  BY DEF QueueInv, TypeOK
<1>3. Becomes(j, "buried") \/ Becomes(j, "lost")
  BY <1>1, <1>2, ToBuried DEF Bury
<1>. QED BY <1>1, <1>3 DEF Shift, Bury, ioVars, JobStates

\* A kick moves the head of the buried list of the used tube to its ready heap.
LEMMA KickBuriedShifts ==
  ASSUME QueueInv, CallInv, KickBuried
  PROVE  \E j \in Jobs : Shift(j)
<1>1. KickedTube \in Tubes /\ buried_jobs[KickedTube] # <<>>
  BY DEF QueueInv, TypeOK, CallInv, KickBuried, KickGoesOn, Running, KickedTube
<1>. DEFINE j == Head(buried_jobs[KickedTube])
<1>2. /\ j \in Jobs /\ job_state[j] = "buried"
      /\ Detached(j, ready_jobs, delay_jobs, PopBuried(KickedTube), reserved_jobs)
  BY <1>1, TakeBuried
<1>3. /\ buried_jobs' = PopBuried(KickedTube) /\ EnqueueReady(j) /\ tube' = tube
      /\ delay_jobs' = delay_jobs /\ reserved_jobs' = reserved_jobs
      /\ UNCHANGED <<next_job_id, in_job>>
  BY DEF KickBuried, ioVars
<1>. HIDE DEF j
<1>4. Becomes(j, "ready")
  BY <1>2, <1>3, ToReady
<1>. QED BY <1>2, <1>3, <1>4 DEF Shift, JobStates

\* A kick without memory moves the head of the list to its end.
LEMMA KickBuriedFailsShifts ==
  ASSUME QueueInv, CallInv, KickBuriedFails
  PROVE  \E j \in Jobs : Shift(j)
<1>1. KickedTube \in Tubes /\ buried_jobs[KickedTube] # <<>>
  BY DEF QueueInv, TypeOK, CallInv, KickBuriedFails, KickGoesOn, Running, KickedTube
<1>. DEFINE j == Head(buried_jobs[KickedTube])
            b == PopBuried(KickedTube)
<1>2. /\ j \in Jobs /\ job_state[j] = "buried" /\ b \in [Tubes -> Seq(Jobs)]
      /\ Detached(j, ready_jobs, delay_jobs, b, reserved_jobs)
  BY <1>1, TakeBuried
<1>3. /\ BuryJob(j, b) /\ tube' = tube
      /\ UNCHANGED <<ready_jobs, delay_jobs, reserved_jobs, next_job_id, in_job>>
  BY DEF KickBuriedFails, ioVars
<1>. HIDE DEF j, b
<1>4. Becomes(j, "buried") \/ Becomes(j, "lost")
  BY <1>2, <1>3, ToBuried
<1>. QED BY <1>2, <1>3, <1>4 DEF Shift, JobStates

\* A kick moves a delayed job of the used tube to its ready heap.
LEMMA KickDelayedShifts ==
  ASSUME QueueInv, CallInv, NEW j \in Jobs, KickDelayed(j)
  PROVE  Shift(j)
<1>1. KickedTube \in Tubes
  BY DEF QueueInv, TypeOK, CallInv, KickDelayed, KickGoesOn, Running, KickedTube
<1>2. /\ job_state[j] = "delayed"
      /\ Detached(j, ready_jobs, delay_jobs', buried_jobs, reserved_jobs)
  BY <1>1, TakeDelayed DEF KickDelayed
<1>3. Becomes(j, "ready")
  BY <1>2, ToReady DEF KickDelayed
<1>. QED BY <1>2, <1>3 DEF Shift, JobStates, KickDelayed, ioVars

\* The end of a delay moves the job.
LEMMA CronDelayShifts ==
  ASSUME QueueInv, NEW j \in Jobs, CronDelay(j)
  PROVE  Shift(j)
<1>1. tube[j] \in Tubes
  BY DEF QueueInv, TypeOK
<1>2. /\ job_state[j] = "delayed"
      /\ Detached(j, ready_jobs, delay_jobs', buried_jobs, reserved_jobs)
  BY <1>1, TakeDelayed DEF CronDelay, MayBeDue
<1>3. Becomes(j, "ready") \/ Becomes(j, "buried") \/ Becomes(j, "lost")
  BY <1>2, EnqueueOrBuryBecomes DEF CronDelay
<1>. QED BY <1>2, <1>3 DEF Shift, JobStates, CronDelay, ioVars

\* The end of a connection moves the jobs it holds, one at a time.
LEMMA CloseRequeueShifts ==
  ASSUME QueueInv, NEW c \in Conns, NEW j \in Jobs, CloseRequeue(c, j)
  PROVE  Shift(j)
<1>1. /\ job_state[j] = "reserved"
      /\ Detached(j, ready_jobs, delay_jobs, buried_jobs, reserved_jobs')
  BY TakeReserved DEF CloseRequeue
<1>2. Becomes(j, "ready") \/ Becomes(j, "buried") \/ Becomes(j, "lost")
  BY <1>1, EnqueueOrBuryBecomes DEF CloseRequeue
<1>. QED BY <1>1, <1>2 DEF Shift, JobStates, CloseRequeue, ioVars

\* A timeout moves a job of the connection that is timed out.
LEMMA TimeoutExpireShifts ==
  ASSUME QueueInv, CallInv, NEW c \in Conns, NEW j \in Jobs, TimeoutExpire(c, j)
  PROVE  Shift(j)
<1>1. HoldsJob(c, j)
  BY DEF CallInv, TimeoutExpire, TimingOut, Running, HoldsJob
<1>2. /\ job_state[j] = "reserved"
      /\ Detached(j, ready_jobs, delay_jobs, buried_jobs, reserved_jobs')
  BY <1>1, TakeReserved DEF TimeoutExpire
<1>3. Becomes(j, "ready") \/ Becomes(j, "buried") \/ Becomes(j, "lost")
  BY <1>2, EnqueueOrBuryBecomes DEF TimeoutExpire
<1>. QED BY <1>2, <1>3 DEF Shift, JobStates, TimeoutExpire

\* The part of the inductive invariant that is about jobs, in a server that lives.
JobInv == QueueInv /\ FreshInv /\ ReadByOne

\* The consequent of the steps below.
JobInvNext == JobInPlace' /\ BuriedOnce' /\ FreshInv' /\ ReadByOne'

\* A move of a job that has been put keeps the invariant.
LEMMA ShiftKeeps ==
  ASSUME JobInv, NEW j \in Jobs, Shift(j)
  PROVE  JobInvNext
<1>1. PICK s \in JobStates \ {"invalid"} : Becomes(j, s)
  BY DEF Shift
<1>2. \A k \in Jobs : job_state'[k] = IF k = j THEN s ELSE job_state[k]
  BY <1>1 DEF Becomes, JobInv, QueueInv, TypeOK
<1>3. FreshInv'
  BY <1>2 DEF Shift, JobInv, FreshInv
<1>4. ReadByOne'
  BY <1>1, <1>2 DEF Shift, JobInv, QueueInv, ReadByOne
<1>. QED BY <1>1, <1>3, <1>4 DEF Becomes, JobInvNext, JobInPlace

\* What delete takes for j is then in no queue, and no other job moves.
LEMMA PopsAnotherKeeps ==
  ASSUME JobInv, NEW j \in Jobs, PopsAnother(j)
  PROVE  JobInvNext
<1>. DEFINE k == Head(buried_jobs[tube[j]])
            b == PopBuried(tube[j])
<1>1. tube[j] \in Tubes
  BY DEF JobInv, QueueInv, TypeOK
<1>2. /\ k \in Jobs /\ job_state[k] = "buried"
      /\ Detached(k, ready_jobs, delay_jobs, b, reserved_jobs)
  BY <1>1, TakeBuried DEF JobInv, PopsAnother
<1>3. /\ buried_jobs' = b /\ j # k
      /\ job_state' = [job_state EXCEPT ![k] = "lost", ![j] = "none"]
  BY DEF PopsAnother
<1>. HIDE DEF k, b
<1>4. \A i \in Jobs : job_state'[i] = IF i = j THEN "none" ELSE IF i = k THEN "lost" ELSE job_state[i]
  BY <1>2, <1>3 DEF JobInv, QueueInv, TypeOK
<1>5. BuriedOnce'
  BY <1>2, <1>3 DEF Detached, BuriedOnce
<1>6. FreshInv'
  BY <1>2, <1>4 DEF PopsAnother, JobInv, FreshInv
<1>7. ASSUME health' = "ok"  PROVE InPlace' /\ ReadByOne'
  <2>1. job_state[j] = "lost" /\ UNCHANGED <<tube, in_job, ready_jobs, delay_jobs, reserved_jobs>>
    BY <1>7 DEF PopsAnother
  <2>2. \A i \in Jobs \ {j} : reserver'[i] = reserver[i]
    BY DEF PopsAnother
  <2>3. InPlace'
    <3>1. ReadyInPlace'
      BY <1>2, <1>4, <2>1 DEF Detached, ReadyInPlace
    <3>2. DelayedInPlace'
      BY <1>2, <1>4, <2>1 DEF Detached, DelayedInPlace
    <3>3. BuriedInPlace'
      <4>1. buried_jobs' = b
        BY <1>3
      <4>. QED BY <1>2, <1>4, <2>1, <4>1 DEF Detached, BuriedInPlace
    <3>4. ReservedInPlace'
      BY <1>2, <1>4, <2>1, <2>2 DEF Detached, ReservedInPlace
    <3>. QED BY <3>1, <3>2, <3>3, <3>4 DEF InPlace
  <2>4. ReadByOne'
    BY <1>2, <1>4, <2>1 DEF JobInv, QueueInv, ReadByOne
  <2>. QED BY <2>3, <2>4
<1>8. JobInPlace' /\ ReadByOne'
  BY <1>7 DEF JobInPlace, ReadByOne
<1>. QED BY <1>5, <1>6, <1>8 DEF JobInvNext

\* So does a put, which creates the next job,
LEMMA PutKeeps ==
  ASSUME JobInv, NEW c \in Conns, NEW p, Put(c, p), in_job[c] = NoJob
  PROVE  JobInvNext
<1>. DEFINE j == next_job_id
<1>1. j \in Jobs /\ job_state[j] = "none"
  BY DEF Put, JobInv, QueueInv, TypeOK, FreshInv, Jobs
<1>2. /\ job_state' = [job_state EXCEPT ![j] = "invalid"]
      /\ in_job' = [in_job EXCEPT ![c] = j]
      /\ next_job_id' = j + 1
      /\ reserver' = reserver /\ reserved_jobs' = reserved_jobs
      /\ ready_jobs' = ready_jobs /\ delay_jobs' = delay_jobs /\ buried_jobs' = buried_jobs
      /\ \A k \in Jobs : k # j => tube'[k] = tube[k]
  BY DEF Put, TakeJobId, queueVars, JobInv, QueueInv, TypeOK
<1>3. next_job_id \in Nat
  BY BoundsAssumption DEF JobInv, QueueInv, TypeOK
<1>. HIDE DEF j
<1>4. Becomes(j, "invalid")
  BY <1>1, <1>2, TakeIdle, ToInvalid DEF JobInv
<1>5. \A k \in Jobs : job_state'[k] = IF k = j THEN "invalid" ELSE job_state[k]
  BY <1>2 DEF JobInv, QueueInv, TypeOK
<1>6. \A d \in Conns : in_job'[d] = IF d = c THEN j ELSE in_job[d]
  BY <1>2 DEF JobInv, QueueInv, TypeOK
<1>7. FreshInv'
  BY <1>2, <1>3, <1>5 DEF JobInv, FreshInv, j, Jobs
<1>8. ReadByOne'
  <2>1. \A d \in Conns : in_job[d] # j
    BY <1>1 DEF JobInv, QueueInv, ReadByOne
  <2>2. j # NoJob
    BY <1>1 DEF NoJob, Jobs
  <2>3. ASSUME NEW k \in Jobs  PROVE job_state'[k] = "invalid" <=> \E d \in Conns : in_job'[d] = k
    <3>1. CASE k = j
      BY <3>1, <1>5, <1>6
    <3>2. CASE k # j
      <4>1. k # NoJob
        BY DEF NoJob, Jobs
      <4>. QED BY <3>2, <4>1, <1>5, <1>6 DEF JobInv, QueueInv, ReadByOne
    <3>. QED BY <3>1, <3>2
  <2>4. ASSUME NEW d \in Conns, NEW e \in Conns, in_job'[d] = in_job'[e], in_job'[d] # NoJob
        PROVE  d = e
    BY <2>1, <2>4, <1>6 DEF JobInv, QueueInv, ReadByOne
  <2>. QED BY <2>3, <2>4 DEF ReadByOne
<1>. QED BY <1>4, <1>7, <1>8 DEF Becomes, JobInvNext, JobInPlace

\* A body is read to its end: the job moves on and c reads no job.
LEMMA ReadKeeps ==
  ASSUME JobInv, NEW c \in Conns, in_job[c] # NoJob, in_job' = [in_job EXCEPT ![c] = NoJob],
         NEW s, s # "invalid", Becomes(in_job[c], s), next_job_id' = next_job_id
  PROVE  JobInvNext
<1>. DEFINE j == in_job[c]
<1>1. j \in Jobs /\ job_state[j] = "invalid"
  BY DEF JobInv, QueueInv, TypeOK, ReadByOne, NoJob
<1>2. \A k \in Jobs : job_state'[k] = IF k = j THEN s ELSE job_state[k]
  BY DEF Becomes, JobInv, QueueInv, TypeOK
<1>3. \A d \in Conns : in_job'[d] = IF d = c THEN NoJob ELSE in_job[d]
  BY DEF JobInv, QueueInv, TypeOK
<1>4. \A d \in Conns : in_job[d] = j => d = c
  BY DEF JobInv, QueueInv, ReadByOne
<1>. HIDE DEF j
<1>5. FreshInv'
  BY <1>1, <1>2 DEF JobInv, FreshInv
<1>6. ReadByOne'
  BY <1>1, <1>2, <1>3, <1>4 DEF JobInv, QueueInv, ReadByOne, NoJob, Jobs
<1>. QED BY <1>5, <1>6 DEF Becomes, JobInvNext, JobInPlace

\* A job whose body is being read is in no queue.
LEMMA ReadJob ==
  ASSUME JobInv, NEW c \in Conns, in_job[c] # NoJob
  PROVE  /\ in_job[c] \in Jobs
         /\ Detached(in_job[c], ready_jobs, delay_jobs, buried_jobs, reserved_jobs)
<1>1. in_job[c] \in Jobs /\ job_state[in_job[c]] = "invalid"
  BY DEF JobInv, QueueInv, TypeOK, ReadByOne, NoJob
<1>. QED BY <1>1, TakeIdle DEF JobInv

\* The body that is complete is enqueued,
LEMMA PutBodyKeeps ==
  ASSUME JobInv, NEW c \in Conns, NEW d \in BOOLEAN, PutBody(c, d), in_job[c] # NoJob
  PROVE  JobInvNext
<1>1. /\ in_job[c] \in Jobs
      /\ Detached(in_job[c], ready_jobs, delay_jobs, buried_jobs, reserved_jobs)
  BY ReadJob
<1>2. Becomes(in_job[c], "ready") \/ Becomes(in_job[c], "delayed")
  <2>1. CASE ~ d
    BY <1>1, <2>1, ToReady DEF PutBody, EnqueueJob, JobInv
  <2>2. CASE d
    BY <1>1, <2>2, ToDelayed DEF PutBody, EnqueueJob, JobInv
  <2>. QED BY <2>1, <2>2
<1>. QED BY <1>2, ReadKeeps DEF PutBody

\* or the job is freed, and no other job is touched.
LEMMA FreedKeeps ==
  ASSUME JobInv, NEW c \in Conns, in_job[c] # NoJob, FreeJob(in_job[c]),
         in_job' = [in_job EXCEPT ![c] = NoJob],
         UNCHANGED <<next_job_id, tube, reserver, reserved_jobs, queueVars>>
  PROVE  JobInvNext
<1>1. /\ in_job[c] \in Jobs
      /\ Detached(in_job[c], ready_jobs, delay_jobs, buried_jobs, reserved_jobs)
  BY ReadJob
<1>2. Becomes(in_job[c], "none")
  BY <1>1, ToFreed DEF JobInv, queueVars
<1>. QED BY <1>2, ReadKeeps

\* A step that leaves jobs alone keeps the invariant.
LEMMA StayKeeps ==
  ASSUME JobInv, JobsStay
  PROVE  JobInvNext
BY DEF JobInv, QueueInv, JobsStay, queueVars, JobInvNext, JobInPlace, InPlace, ReadyInPlace,
       DelayedInPlace, BuriedInPlace, ReservedInPlace, BuriedOnce, FreshInv, ReadByOne

\* Every step keeps all jobs in their places.
LEMMA JobStep ==
  ASSUME JobInv, CallInv, StateInv, [Next]_vars
  PROVE  JobInvNext
<1>. QueueInv
  BY DEF JobInv
<1>1. ASSUME NEW c \in Conns, NEW j \in Jobs,
             Deliver(j, c) \/ CloseRequeue(c, j) \/ TimeoutExpire(c, j)
      PROVE  JobInvNext
  BY <1>1, DeliverShifts, CloseRequeueShifts, TimeoutExpireShifts, ShiftKeeps
<1>2. CASE KickBuried \/ KickBuriedFails \/ \E j \in Jobs : KickDelayed(j)
  BY <1>2, KickBuriedShifts, KickBuriedFailsShifts, KickDelayedShifts, ShiftKeeps
<1>3. ASSUME NEW j \in Jobs, CronDelay(j)  PROVE JobInvNext
  BY <1>3, CronDelayShifts, ShiftKeeps
<1>4. ASSUME NEW c \in Conns, NEW j \in Jobs, Delete(c, j)  PROVE JobInvNext
  BY <1>4, DeleteShifts, ShiftKeeps, StayKeeps, PopsAnotherKeeps
<1>5. ASSUME NEW c \in Conns, NEW j \in Jobs, NEW p \in Pris,
             Bury(c, j, p) \/ \E d \in BOOLEAN : Release(c, j, p, d)
      PROVE  JobInvNext
  BY <1>5, BuryShifts, ReleaseShifts, ShiftKeeps
<1>6. ASSUME NEW c \in Conns, NEW p \in Pris, Put(c, p)  PROVE JobInvNext
  BY <1>6, PutKeeps DEF Put, Commanding, StateInv
<1>7. ASSUME NEW c \in Conns, \E d \in BOOLEAN : PutBody(c, d)  PROVE JobInvNext
  <2>1. PICK d \in BOOLEAN : PutBody(c, d)
    BY <1>7
  <2>2. in_job[c] # NoJob
    BY <2>1 DEF PutBody, Idle, NoCall, StateInv
  <2>. QED BY <2>1, <2>2, PutBodyKeeps
<1>8. ASSUME NEW c \in Conns, PutBodyRefused(c)  PROVE JobInvNext
  BY <1>8, FreedKeeps DEF PutBodyRefused, Idle, NoCall, StateInv
<1>9. ASSUME NEW c \in Conns, Close(c)  PROVE JobInvNext
  <2>1. CASE in_job[c] = NoJob
    <3>1. in_job' = in_job
      BY <1>9, <2>1 DEF Close, JobInv, QueueInv, TypeOK
    <3>. QED BY <1>9, <2>1, <3>1, StayKeeps DEF Close, JobsStay
  <2>2. CASE in_job[c] # NoJob
    BY <1>9, <2>2, FreedKeeps DEF Close
  <2>. QED BY <2>1, <2>2
<1>10. CASE ProcessQueueReturns \/ KickBuriedNone \/ KickDelayedFails \/ KickEnds
  BY <1>10, StayKeeps
  DEF ProcessQueueReturns, KickBuriedNone, KickDelayedFails, KickEnds, JobsStay, jobVars, ioVars
<1>11. ASSUME NEW c \in Conns, CloseEnds(c) \/ TimeoutEnds(c)  PROVE JobInvNext
  BY <1>11, StayKeeps DEF CloseEnds, TimeoutEnds, JobsStay, jobVars, ioVars
<1>12. ASSUME NEW c \in Conns, Accept(c) \/ ReplySent(c) \/ BucketFull(c)  PROVE JobInvNext
  BY <1>12, StayKeeps DEF Accept, ReplySent, BucketFull, ReplyOnly, JobsStay, jobVars, ioVars
<1>13. ASSUME NEW c \in Conns, NEW j \in Jobs,
              PeekJob(c, j) \/ PeekReady(c, j) \/ PeekDelayed(c, j) \/ PeekBuried(c, j)
       PROVE  JobInvNext
  BY <1>13, StayKeeps
  DEF PeekJob, PeekReady, PeekDelayed, PeekBuried, ReplyCopy, JobsStay, jobVars, ioVars
<1>14. ASSUME NEW c \in Conns, NEW t \in Tubes,
              Use(c, t) \/ Watch(c, t) \/ Ignore(c, t) \/ PauseTube(c, t)
       PROVE  JobInvNext
  BY <1>14, StayKeeps DEF Use, Watch, Ignore, PauseTube, JobsStay, jobVars, ioVars
<1>15. ASSUME NEW c \in Conns,
              \/ \E timeout \in BOOLEAN : Reserve(c, timeout)
              \/ \E n \in KickBounds : Kick(c, n)
              \/ PutSkipped(c) \/ ReserveDeadlineSoon(c) \/ Stats(c) \/ Answer(c)
       PROVE  JobInvNext
  BY <1>15, StayKeeps
  DEF Reserve, Kick, PutSkipped, ReserveDeadlineSoon, Stats, Answer, ReplyOnly, ReplyCopy,
      JobsStay, jobVars, ioVars
<1>16. CASE \/ \E t \in Tubes : CronPause(t)
            \/ \E c \in Conns : CronTimeout(c)
  BY <1>16, StayKeeps DEF CronPause, CronTimeout, Timeout, JobsStay, jobVars, ioVars
<1>17. CASE UNCHANGED vars
  BY <1>17, StayKeeps DEF vars, JobsStay, jobVars, ioVars
<1>. QED BY <1>1, <1>2, <1>3, <1>4, <1>5, <1>6, <1>7, <1>8, <1>9, <1>10, <1>11, <1>12, <1>13,
            <1>14, <1>15, <1>16, <1>17
         DEF Next, Continue, Input, Command, Cron, Dead

\* A server that has crashed or is undefined does nothing more.
LEMMA DeadStays ==
  ASSUME health # "ok", [Next]_vars
  PROVE  UNCHANGED vars
<1>1. ~ Continue
  BY DEF Continue, Deliver, CloseRequeue, Closing, TimeoutExpire, TimingOut, CloseEnds, TimeoutEnds,
         ProcessQueueReturns, KickBuried, KickBuriedNone, KickBuriedFails, KickDelayed,
         KickDelayedFails, KickEnds, KickGoesOn, Running
<1>2. \A c \in Conns : ~ Input(c)
  BY DEF Input, Accept, Close, ReplySent, BucketFull, PutBody, PutBodyRefused, Idle
<1>3. \A c \in Conns : ~ Command(c)
  BY DEF Command, Delete, PeekJob, PeekReady, PeekDelayed, PeekBuried, Put, Reserve, Bury, Release,
         Use, Watch, Ignore, PauseTube, Kick, PutSkipped, ReserveDeadlineSoon, Stats, Answer,
         Commanding, Idle
<1>4. ~ Cron
  BY DEF Cron, CronDelay, CronPause, CronTimeout, Timeout, Idle
<1>. QED BY <1>1, <1>2, <1>3, <1>4 DEF Next, Dead

(* Types.                                                                      *)

\* srv->conns keeps its type.  It is changed as it should be as long as it is in
\* order and there is memory, and no connection comes into it but c.
LEMMA MoveTickFacts ==
  ASSUME TypeOK, NEW c \in Conns, NEW needs \in BOOLEAN, NEW later \in SUBSET Conns,
         MoveTick(c, needs, later)
  PROVE  /\ ticking' \in [Conns -> BOOLEAN] /\ displaced' \in BOOLEAN
         /\ \A d \in Conns \ {c} : ticking'[d] => ticking[d]
         /\ ~ displaced' /\ ~ AllocMayFail =>
              ~ displaced /\ ticking' = [ticking EXCEPT ![c] = needs]
BY AllocAssumption DEF TypeOK, MoveTick, Scramble, Allocations

\* The same of the removals by conn_cron and conn_free.
LEMMA TakeTickFacts ==
  ASSUME TypeOK, NEW c \in Conns, PopTick(c) \/ FreeTick(c)
  PROVE  /\ ticking' \in [Conns -> BOOLEAN] /\ displaced' = displaced
         /\ \A d \in Conns : ticking'[d] => ticking[d]
         /\ ~ displaced => ticking' = [ticking EXCEPT ![c] = FALSE]
BY DEF TypeOK, PopTick, FreeTick, Scramble, connsVars

\* That a tick is needed is true or false.
LEMMA SetTickFacts ==
  ASSUME TypeOK, NEW c \in Conns, NEW reserved, NEW timeout \in BOOLEAN, SetTick(c, reserved, timeout)
  PROVE  /\ ticking' \in [Conns -> BOOLEAN] /\ displaced' \in BOOLEAN
         /\ \A d \in Conns \ {c} : ticking'[d] => ticking[d]
         /\ ~ displaced' /\ ~ AllocMayFail =>
              ~ displaced /\ ticking' = [ticking EXCEPT ![c] = reserved # {} \/ timeout]
BY MoveTickFacts DEF SetTick, NeedsTick


\* What starts and ends a handler is a call.
LEMMA CallTyped ==
  /\ NoCall \in CallType
  /\ \A op \in Ops : Call(op, NoConn) \in CallType
  /\ \A op \in Ops, c \in Conns : Call(op, c) \in CallType
BY DEF NoCall, Call, CallType, Ops

\* The parts of a call have their types and may be changed within them.
LEMMA CallUpdateTyped ==
  ASSUME NEW cl \in CallType
  PROVE  /\ cl.left \in Nat /\ cl.jobs \in SUBSET Jobs
         /\ \A n \in Nat : [cl EXCEPT !.left = n] \in CallType
         /\ \A S \in SUBSET Jobs : [cl EXCEPT !.jobs = S] \in CallType
         /\ \A S \in SUBSET Jobs, b \in BOOLEAN : [cl EXCEPT !.jobs = S, !.soon = b] \in CallType
BY DEF CallType

\* A turn of a kick loop leaves a call.
LEMMA CallCountsDown ==
  ASSUME TypeOK, call.left > 0
  PROVE  [call EXCEPT !.left = @ - 1] \in CallType
<1>1. call \in CallType /\ call.left \in Nat
  BY CallUpdateTyped DEF TypeOK
<1>2. call.left - 1 \in Nat
  BY <1>1
<1>. QED BY <1>1, <1>2, CallUpdateTyped

\* Entering process_queue keeps the types of what it changes.
LEMMA ProcessQueueTyped ==
  ASSUME TypeOK, NEW cleared, ProcessQueue(cleared)
  PROVE  processing' \in BOOLEAN /\ pause' \in [Tubes -> BOOLEAN]
BY DEF TypeOK, ProcessQueue

\* Dropping references to tubes keeps the type of pause.
LEMMA DropTubesTyped ==
  ASSUME TypeOK, NEW u, NEW w, DropTubes(u, w)
  PROVE  pause' \in [Tubes -> BOOLEAN]
BY DEF TypeOK, DropTubes

\* enqueue_job without a delay keeps types.
LEMMA EnqueueReadyTyped ==
  ASSUME TypeOK, NEW j \in Jobs, EnqueueReady(j)
  PROVE  /\ ready_jobs' \in [Tubes -> SUBSET Jobs]
         /\ job_state' \in [Jobs -> JobStates]
         /\ reserver' \in [Jobs -> Conns \union {NoConn}]
         /\ processing' \in BOOLEAN
         /\ pause' \in [Tubes -> BOOLEAN]
BY ProcessQueueTyped DEF TypeOK, EnqueueReady, JobStates

\* enqueue_job with a delay keeps types.
LEMMA EnqueueDelayedTyped ==
  ASSUME TypeOK, NEW j \in Jobs, EnqueueDelayed(j)
  PROVE  /\ delay_jobs' \in [Tubes -> SUBSET Jobs]
         /\ job_state' \in [Jobs -> JobStates]
         /\ reserver' \in [Jobs -> Conns \union {NoConn}]
         /\ processing' \in BOOLEAN
         /\ pause' \in [Tubes -> BOOLEAN]
BY ProcessQueueTyped DEF TypeOK, EnqueueDelayed, JobStates

\* enqueue_job keeps types.
LEMMA EnqueueJobTyped ==
  ASSUME TypeOK, NEW j \in Jobs, NEW d \in BOOLEAN, EnqueueJob(j, d)
  PROVE  /\ ready_jobs' \in [Tubes -> SUBSET Jobs]
         /\ delay_jobs' \in [Tubes -> SUBSET Jobs]
         /\ job_state' \in [Jobs -> JobStates]
         /\ reserver' \in [Jobs -> Conns \union {NoConn}]
         /\ processing' \in BOOLEAN
         /\ pause' \in [Tubes -> BOOLEAN]
<1>1. CASE ~ d
  BY <1>1, EnqueueReadyTyped DEF EnqueueJob, TypeOK
<1>2. CASE d
  BY <1>2, EnqueueDelayedTyped DEF EnqueueJob, TypeOK
<1>. QED BY <1>1, <1>2

\* bury_job keeps types.
LEMMA BuryJobTyped ==
  ASSUME TypeOK, NEW j \in Jobs, NEW b \in [Tubes -> Seq(Jobs)], BuryJob(j, b)
  PROVE  /\ buried_jobs' \in [Tubes -> Seq(Jobs)]
         /\ job_state' \in [Jobs -> JobStates]
         /\ reserver' \in [Jobs -> Conns \union {NoConn}]
         /\ processing' \in BOOLEAN
         /\ pause' \in [Tubes -> BOOLEAN]
<1>1. buried_jobs' \in [Tubes -> Seq(Jobs)]
  <2>1. CASE buried_jobs' = [b EXCEPT ![tube[j]] = Append(@, j)]
    BY <2>1 DEF TypeOK
  <2>. QED BY <2>1 DEF BuryJob
<1>2. job_state' \in [Jobs -> JobStates] /\ reserver' \in [Jobs -> Conns \union {NoConn}]
  BY DEF BuryJob, TypeOK, JobStates
<1>. QED BY <1>1, <1>2 DEF BuryJob, TypeOK

\* enqueue_job with bury_job for its failure keeps types.
LEMMA EnqueueOrBuryTyped ==
  ASSUME TypeOK, NEW j \in Jobs, EnqueueOrBury(j)
  PROVE  /\ ready_jobs' \in [Tubes -> SUBSET Jobs]
         /\ buried_jobs' \in [Tubes -> Seq(Jobs)]
         /\ job_state' \in [Jobs -> JobStates]
         /\ reserver' \in [Jobs -> Conns \union {NoConn}]
         /\ processing' \in BOOLEAN
         /\ pause' \in [Tubes -> BOOLEAN]
<1>. buried_jobs \in [Tubes -> Seq(Jobs)]  BY DEF TypeOK
<1>. QED BY EnqueueReadyTyped, BuryJobTyped DEF EnqueueOrBury, TypeOK

\* remove_buried_job of a list that is not empty keeps its type, and what it
\* takes off is a job.
LEMMA PopBuriedTyped ==
  ASSUME TypeOK, NEW t \in Tubes, buried_jobs[t] # <<>>
  PROVE  /\ PopBuried(t) \in [Tubes -> Seq(Jobs)]
         /\ Head(buried_jobs[t]) \in Jobs
BY DEF TypeOK, PopBuried

\* job_free keeps types.
LEMMA FreeJobTyped ==
  ASSUME TypeOK, NEW j \in Jobs, FreeJob(j)
  PROVE  job_state' \in [Jobs -> JobStates] /\ pri' \in [Jobs -> Nat]
BY DEF TypeOK, FreeJob, JobStates

\* remove_reserved_job keeps types.
LEMMA RemoveReservedTyped ==
  ASSUME TypeOK, NEW c, NEW j, RemoveReserved(c, j)
  PROVE  reserved_jobs' \in [Conns -> SUBSET Jobs]
BY DEF TypeOK, RemoveReserved

\* conn_remove_waiting keeps types.
LEMMA RemoveWaitingTyped ==
  ASSUME TypeOK, NEW c, NEW taken, RemoveWaiting(c, taken)
  PROVE  waiting' \in [Conns -> BOOLEAN] /\ waiting_conns' \in [Tubes -> SUBSET Conns]
BY DEF TypeOK, RemoveWaiting

\* A reply keeps the type of state.
LEMMA ReplyTyped ==
  ASSUME TypeOK, NEW c, Reply(c)
  PROVE  state' \in [Conns -> ConnStates]
BY DEF TypeOK, Reply, ConnStates

\* The copy that conn_timeout makes keeps the type of out_job.
LEMMA KeepSendingTyped ==
  ASSUME TypeOK, NEW c, NEW j, KeepSending(c, j)
  PROVE  out_job' \in [Conns -> Jobs \union {NoJob, Copy}]
BY DEF TypeOK, KeepSending

\* Every step keeps the type invariant.  Where a handler takes in_job[c] for a
\* job, or call.conn for a connection, StateInv and CallInv say that it is one.
LEMMA TypeStep ==
  ASSUME TypeOK, CallInv, StateInv, [Next]_vars
  PROVE  TypeOK'
<1>1. ASSUME NEW c \in Conns, NEW j \in Jobs, Deliver(j, c)  PROVE TypeOK'
  BY <1>1, RemoveWaitingTyped
  DEF Deliver, IsNext, Eligible, ConnStates, JobStates, callVars, nameVars, tickVars, connsVars,
      TypeOK
<1>2. ASSUME ProcessQueueReturns  PROVE TypeOK'
  <2>1. call' \in CallType
    BY <1>2, CallTyped DEF ProcessQueueReturns, TypeOK
  <2>2. ticking' \in [Conns -> BOOLEAN] /\ displaced' \in BOOLEAN
    BY <1>2, SetTickFacts DEF ProcessQueueReturns, CallInv, connsVars, TypeOK
  <2>. QED BY <1>2, <2>1, <2>2, ReplyTyped
           DEF ProcessQueueReturns, CallInv, nameVars, waitVars, ioVars, jobVars,
               queueVars, TypeOK
<1>3. ASSUME NEW c \in Conns, Accept(c)  PROVE TypeOK'
  BY <1>3, TubesAssumption
  DEF Accept, ConnStates, callVars, waitVars, tickVars, connsVars, ioVars, jobVars, queueVars,
      TypeOK
<1>4. ASSUME NEW c \in Conns, ReplySent(c)  PROVE TypeOK'
  BY <1>4
  DEF ReplySent, ConnStates, NoJob, callVars, nameVars, waitVars, tickVars, connsVars, jobVars,
      queueVars, TypeOK
<1>5. ASSUME NEW c \in Conns, BucketFull(c)  PROVE TypeOK'
  BY <1>5, ReplyTyped
  DEF BucketFull, ReplyOnly, callVars, nameVars, waitVars, tickVars, connsVars, ioVars, jobVars,
      queueVars, TypeOK
<1>6. ASSUME NEW c \in Conns, NEW p \in Pris, Put(c, p)  PROVE TypeOK'
  BY <1>6, BoundsAssumption, SMTT(30)
  DEF Put, TakeJobId, JobStates, ConnStates, Jobs, NoJob, callVars, nameVars, waitVars, tickVars,
      connsVars, queueVars, TypeOK
<1>7. ASSUME NEW c \in Conns, PutSkipped(c)  PROVE TypeOK'
  BY <1>7
  DEF PutSkipped, ConnStates, callVars, nameVars, waitVars, tickVars, connsVars, ioVars, jobVars,
      queueVars, TypeOK
<1>8. ASSUME NEW c \in Conns, NEW delayed \in BOOLEAN, PutBody(c, delayed)  PROVE TypeOK'
  <2>1. call' \in CallType
    BY <1>8, CallTyped DEF PutBody, Ops
  <2>. QED BY <1>8, <2>1, EnqueueJobTyped
           DEF PutBody, Idle, NoCall, StateInv, NoJob, nameVars, waitVars, tickVars, connsVars,
               TypeOK
<1>9. ASSUME NEW c \in Conns, PutBodyRefused(c)  PROVE TypeOK'
  BY <1>9, FreeJobTyped, ReplyTyped
  DEF PutBodyRefused, Idle, NoCall, StateInv, NoJob, callVars, nameVars, waitVars, tickVars,
      connsVars, queueVars, TypeOK
<1>10. ASSUME NEW c \in Conns, NEW t \in Tubes, Use(c, t)  PROVE TypeOK'
  BY <1>10, DropTubesTyped, ReplyTyped
  DEF Use, callVars, waitVars, tickVars, connsVars, ioVars, jobVars, queueVars, TypeOK
<1>11. ASSUME NEW c \in Conns, NEW timeout \in BOOLEAN, Reserve(c, timeout)  PROVE TypeOK'
  <2>1. call' \in CallType
    BY <1>11, CallTyped DEF Reserve, Ops
  <2>2. ticking' \in [Conns -> BOOLEAN] /\ displaced' \in BOOLEAN
    BY <1>11, SetTickFacts DEF Reserve
  <2>. QED BY <1>11, <2>1, <2>2, ProcessQueueTyped
           DEF Reserve, ConnStates, nameVars, ioVars, jobVars, queueVars, TypeOK
<1>12. ASSUME NEW c \in Conns, ReserveDeadlineSoon(c)  PROVE TypeOK'
  BY <1>12, ReplyTyped
  DEF ReserveDeadlineSoon, ReplyOnly, callVars, nameVars, waitVars, tickVars, connsVars, ioVars,
      jobVars, queueVars, TypeOK
<1>13. ASSUME NEW c \in Conns, NEW j \in Jobs, Delete(c, j)  PROVE TypeOK'
  <2>1. reserved_jobs' \in [Conns -> SUBSET Jobs]
    BY <1>13, RemoveReservedTyped DEF Delete, TypeOK
  <2>2. ready_jobs' \in [Tubes -> SUBSET Jobs]
    <3>1. \/ ready_jobs' = ready_jobs
          \/ ready_jobs' = [ready_jobs EXCEPT ![tube[j]] = @ \ {j}]
      BY <1>13 DEF Delete
    <3>2. ready_jobs \in [Tubes -> SUBSET Jobs]
      BY DEF TypeOK
    <3>. QED BY <3>1, <3>2
  <2>3. buried_jobs' \in [Tubes -> Seq(Jobs)]
    BY <1>13, PopBuriedTyped DEF Delete, TypeOK
  <2>4. /\ job_state' \in [Jobs -> JobStates] /\ pri' \in [Jobs -> Nat]
        /\ reserver' \in [Jobs -> Conns \union {NoConn}]
    <3>1. CASE FreeDeleted(c, j)
      BY <1>13, <3>1, FreeJobTyped DEF FreeDeleted, TypeOK
    <3>2. CASE UNCHANGED <<job_state, pri, reserver>>
      BY <3>2 DEF TypeOK
    <3>3. CASE /\ job_state' = [job_state EXCEPT ![Head(buried_jobs[tube[j]])] = "lost", ![j] = "none"]
               /\ pri' = [pri EXCEPT ![j] = 0]
               /\ reserver' = [reserver EXCEPT ![j] = NoConn]
      BY <3>3 DEF TypeOK, JobStates
    <3>. QED BY <1>13, <3>1, <3>2, <3>3 DEF Delete
  <2>5. state' \in [Conns -> ConnStates]
    BY <1>13, ReplyTyped DEF Delete, FreeDeleted, TypeOK
  <2>6. health' \in {"ok", "crashed", "undefined"}
    BY <1>13 DEF Delete, FreeDeleted, TypeOK
  <2>. QED BY <1>13, <2>1, <2>2, <2>3, <2>4, <2>5, <2>6
           DEF Delete, callVars, nameVars, waitVars, tickVars, connsVars, ioVars, TypeOK
<1>14. ASSUME NEW c \in Conns, NEW j \in Jobs, NEW p \in Pris, NEW d \in BOOLEAN, Release(c, j, p,
    d)  PROVE TypeOK'
  <2>1. call' \in CallType
    BY <1>14, CallTyped DEF Release, Ops
  <2>. QED BY <1>14, <2>1, BoundsAssumption, RemoveReservedTyped, EnqueueJobTyped
           DEF Release, nameVars, waitVars, tickVars, connsVars, ioVars, TypeOK
<1>15. ASSUME NEW c \in Conns, NEW j \in Jobs, NEW p \in Pris, Bury(c, j, p)  PROVE TypeOK'
  BY <1>15, BoundsAssumption, RemoveReservedTyped, BuryJobTyped, ReplyTyped
  DEF Bury, nameVars, waitVars, tickVars, connsVars, ioVars, TypeOK
<1>16. ASSUME NEW c \in Conns, NEW t \in Tubes, Watch(c, t)  PROVE TypeOK'
  BY <1>16, ReplyTyped
  DEF Watch, callVars, waitVars, tickVars, connsVars, ioVars, jobVars, queueVars, TypeOK
<1>17. ASSUME NEW c \in Conns, NEW t \in Tubes, Ignore(c, t)  PROVE TypeOK'
  BY <1>17, DropTubesTyped, ReplyTyped
  DEF Ignore, callVars, waitVars, tickVars, connsVars, ioVars, jobVars, queueVars, TypeOK
<1>18. ASSUME NEW c \in Conns, NEW n \in KickBounds, Kick(c, n)  PROVE TypeOK'
  <2>1. call' \in CallType
    BY <1>18, CallTyped, CallUpdateTyped, BoundsAssumption DEF Kick, Ops
  <2>. QED BY <1>18, <2>1
           DEF Kick, nameVars, waitVars, tickVars, connsVars, ioVars, jobVars, queueVars, TypeOK
<1>19. ASSUME KickBuried  PROVE TypeOK'
  <2>1. call' \in CallType
    BY <1>19, CallCountsDown DEF KickBuried, KickGoesOn
  <2>. QED BY <1>19, <2>1, PopBuriedTyped, EnqueueReadyTyped
           DEF KickBuried, KickGoesOn, Running, CallInv, KickedTube, nameVars, waitVars, tickVars,
               connsVars, ioVars, TypeOK
<1>20. ASSUME KickBuriedNone  PROVE TypeOK'
  <2>1. call' \in CallType
    BY <1>20, CallCountsDown DEF KickBuriedNone, KickGoesOn
  <2>. QED BY <1>20, <2>1
           DEF KickBuriedNone, nameVars, waitVars, tickVars, connsVars, ioVars, jobVars, queueVars,
               TypeOK
<1>21. ASSUME KickBuriedFails  PROVE TypeOK'
  <2>1. call' \in CallType
    BY <1>21, CallUpdateTyped DEF KickBuriedFails, TypeOK
  <2>. QED BY <1>21, <2>1, PopBuriedTyped, BuryJobTyped
           DEF KickBuriedFails, KickGoesOn, Running, CallInv, KickedTube, nameVars, waitVars,
               tickVars, connsVars, ioVars, TypeOK
<1>22. ASSUME NEW j \in Jobs, KickDelayed(j)  PROVE TypeOK'
  <2>1. call' \in CallType
    BY <1>22, CallCountsDown DEF KickDelayed, KickGoesOn
  <2>. QED BY <1>22, <2>1, EnqueueReadyTyped
           DEF KickDelayed, nameVars, waitVars, tickVars, connsVars, ioVars, TypeOK
<1>23. ASSUME KickDelayedFails  PROVE TypeOK'
  <2>1. call' \in CallType
    BY <1>23, CallUpdateTyped DEF KickDelayedFails, TypeOK
  <2>. QED BY <1>23, <2>1, ProcessQueueTyped
           DEF KickDelayedFails, nameVars, waitVars, tickVars, connsVars, ioVars, jobVars,
               queueVars, TypeOK
<1>24. ASSUME KickEnds  PROVE TypeOK'
  <2>1. call' \in CallType
    BY <1>24, CallTyped DEF KickEnds
  <2>. QED BY <1>24, <2>1, ReplyTyped
           DEF KickEnds, nameVars, waitVars, tickVars, connsVars, ioVars, jobVars, queueVars, TypeOK
<1>25. ASSUME NEW c \in Conns, NEW t \in Tubes, PauseTube(c, t)  PROVE TypeOK'
  BY <1>25, ReplyTyped
  DEF PauseTube, callVars, nameVars, waitVars, tickVars, connsVars, ioVars, jobVars, queueVars,
      TypeOK
<1>26. ASSUME NEW c \in Conns, Stats(c)  PROVE TypeOK'
  BY <1>26
  DEF Stats, ReplyCopy, ConnStates, callVars, nameVars, waitVars, tickVars, connsVars, jobVars,
      queueVars, TypeOK
<1>27. ASSUME NEW c \in Conns, NEW j \in Jobs, PeekJob(c, j)  PROVE TypeOK'
  BY <1>27
  DEF PeekJob, ReplyCopy, ConnStates, callVars, nameVars, waitVars, tickVars, connsVars, jobVars,
      queueVars, TypeOK
<1>28. ASSUME NEW c \in Conns, NEW j \in Jobs, PeekReady(c, j)  PROVE TypeOK'
  BY <1>28
  DEF PeekReady, ReplyCopy, ConnStates, callVars, nameVars, waitVars, tickVars, connsVars, jobVars,
      queueVars, TypeOK
<1>29. ASSUME NEW c \in Conns, NEW j \in Jobs, PeekDelayed(c, j)  PROVE TypeOK'
  BY <1>29
  DEF PeekDelayed, ReplyCopy, ConnStates, callVars, nameVars, waitVars, tickVars, connsVars,
      jobVars, queueVars, TypeOK
<1>30. ASSUME NEW c \in Conns, NEW j \in Jobs, PeekBuried(c, j)  PROVE TypeOK'
  BY <1>30
  DEF PeekBuried, ReplyCopy, ConnStates, callVars, nameVars, waitVars, tickVars, connsVars, ioVars,
      jobVars, queueVars, TypeOK
<1>31. ASSUME NEW c \in Conns, Answer(c)  PROVE TypeOK'
  BY <1>31, ReplyTyped
  DEF Answer, ReplyOnly, callVars, nameVars, waitVars, tickVars, connsVars, ioVars, jobVars,
      queueVars, TypeOK
<1>32. ASSUME NEW c \in Conns, Close(c)  PROVE TypeOK'
  <2>1. call' \in CallType
    BY <1>32, CallTyped DEF Close, Ops
  <2>. QED BY <1>32, <2>1, RemoveWaitingTyped, FreeJobTyped
           DEF Close, NoJob, nameVars, tickVars, connsVars, queueVars, TypeOK
<1>33. ASSUME NEW c \in Conns, NEW j \in Jobs, CloseRequeue(c, j)  PROVE TypeOK'
  BY <1>33, RemoveReservedTyped, EnqueueOrBuryTyped
  DEF CloseRequeue, Closing, Running, nameVars, waitVars, tickVars, connsVars, ioVars, TypeOK
<1>34. ASSUME NEW c \in Conns, CloseEnds(c)  PROVE TypeOK'
  <2>1. call' \in CallType
    BY <1>34, CallTyped DEF CloseEnds
  <2>2. ticking' \in [Conns -> BOOLEAN] /\ displaced' \in BOOLEAN
    BY <1>34, TakeTickFacts DEF CloseEnds, connsVars, TypeOK
  <2>3. health' \in {"ok", "crashed", "undefined"}
    BY <1>34 DEF CloseEnds, TypeOK
  <2>. QED BY <1>34, <2>1, <2>2, <2>3, TubesAssumption
           DEF CloseEnds, DropTubes, ConnStates, waitVars, ioVars, jobVars, queueVars,
               TypeOK
<1>35. ASSUME NEW j \in Jobs, CronDelay(j)  PROVE TypeOK'
  <2>1. call' \in CallType
    BY <1>35, CallTyped DEF CronDelay, Ops
  <2>. QED BY <1>35, <2>1, EnqueueOrBuryTyped
           DEF CronDelay, nameVars, waitVars, tickVars, connsVars, ioVars, TypeOK
<1>36. ASSUME NEW t \in Tubes, CronPause(t)  PROVE TypeOK'
  <2>1. call' \in CallType
    BY <1>36, CallTyped DEF CronPause, Ops
  <2>. QED BY <1>36, <2>1, ProcessQueueTyped
           DEF CronPause, nameVars, waitVars, tickVars, connsVars, ioVars, jobVars, queueVars,
               TypeOK
<1>37. ASSUME NEW c \in Conns, NEW e \in SUBSET Jobs, NEW soon \in BOOLEAN, Timeout(c, e, soon)
    PROVE TypeOK'
  <2>1. call' \in CallType
    BY <1>37, CallTyped, CallUpdateTyped DEF Timeout, Ops
  <2>2. ticking' \in [Conns -> BOOLEAN] /\ displaced' \in BOOLEAN
    BY <1>37, TakeTickFacts DEF Timeout, TypeOK
  <2>. QED BY <1>37, <2>1, <2>2
           DEF Timeout, nameVars, waitVars, ioVars, jobVars, queueVars, TypeOK
<1>38. ASSUME NEW c \in Conns, NEW j \in Jobs, TimeoutExpire(c, j)  PROVE TypeOK'
  <2>1. call' \in CallType
    BY <1>38, CallUpdateTyped DEF TimeoutExpire, TypeOK, CallType
  <2>2. ticking' \in [Conns -> BOOLEAN] /\ displaced' \in BOOLEAN
    BY <1>38, SetTickFacts DEF TimeoutExpire, connsVars, TypeOK
  <2>. QED BY <1>38, <2>1, <2>2, KeepSendingTyped, RemoveReservedTyped, EnqueueOrBuryTyped
           DEF TimeoutExpire, nameVars, waitVars, TypeOK
<1>39. ASSUME NEW c \in Conns, TimeoutEnds(c)  PROVE TypeOK'
  <2>1. call' \in CallType
    BY <1>39, CallTyped DEF TimeoutEnds
  <2>. QED BY <1>39, <2>1, RemoveWaitingTyped, ReplyTyped
           DEF TimeoutEnds, nameVars, waitVars, connsVars, ioVars, jobVars, queueVars, TypeOK
<1>40. CASE UNCHANGED vars
  BY <1>40 DEF vars, callVars, nameVars, waitVars, tickVars, connsVars, ioVars, jobVars, queueVars,
               TypeOK
<1>. QED BY <1>1, <1>2, <1>3, <1>4, <1>5, <1>6, <1>7, <1>8, <1>9, <1>10, <1>11, <1>12, <1>13,
            <1>14, <1>15, <1>16, <1>17, <1>18, <1>19, <1>20, <1>21, <1>22, <1>23, <1>24, <1>25,
            <1>26, <1>27, <1>28, <1>29, <1>30, <1>31, <1>32, <1>33, <1>34, <1>35, <1>36, <1>37,
            <1>38, <1>39, <1>40
         DEF Next, Continue, Input, Command, Cron, CronTimeout, Dead

(* What handlers, connection states and waiting sets guarantee each other.  *)

\* The two parts of ClosedHoldsNothing: what a closed connection has, and srv->conns.
ClosedEmpty ==
  \A c \in Conns : state[c] = "closed" =>
    /\ reserved_jobs[c] = {} /\ in_job[c] = NoJob /\ out_job[c] = NoJob
    /\ ~ waiting[c] /\ watch[c] = {}

ClosedTick == \A c \in Conns : state[c] = "closed" /\ ticking[c] => health = "undefined"

\* Together they are the property.
LEMMA ClosedParts == ClosedHoldsNothing <=> ClosedEmpty /\ ClosedTick
BY DEF ClosedHoldsNothing, ClosedEmpty, ClosedTick

\* The part of the inductive invariant that is about connections.
ConnInv == CallInv /\ StateInv /\ WaitingInPlace /\ SentJobIsHeld /\ ClosedEmpty

\* Every step keeps it: a handler finds its connection as it left it, a waiting
\* connection is in the state of one and in the waiting sets of the tubes it
\* watches, and a job that is being sent stays with its holder.
LEMMA ConnStep ==
  ASSUME TypeOK, ConnInv, ClosedTick, [Next]_vars
  PROVE  ConnInv'
<1>. NoJob \notin Jobs /\ Copy \notin Jobs /\ NoConn \notin Conns
  BY ConnsAssumption, BoundsAssumption DEF NoJob, Copy, Jobs
<1>. USE DEF ConnInv, CallInv, StateInv, WaitingInPlace, SentJobIsHeld, ClosedEmpty
<1>1. ASSUME NEW c \in Conns, NEW j \in Jobs, Deliver(j, c)  PROVE ConnInv'
  BY <1>1
  DEF Deliver, RemoveWaiting, callVars, nameVars, TypeOK
<1>2. ASSUME ProcessQueueReturns  PROVE ConnInv'
  BY <1>2
  DEF ProcessQueueReturns, NoCall, Reply, nameVars, waitVars, ioVars, jobVars, queueVars, TypeOK
<1>3. ASSUME NEW c \in Conns, Accept(c)  PROVE ConnInv'
  BY <1>3
  DEF Accept, Idle, callVars, waitVars, ioVars, jobVars, queueVars, NoCall, TypeOK
<1>4. ASSUME NEW c \in Conns, ReplySent(c)  PROVE ConnInv'
  BY <1>4
  DEF ReplySent, Idle, NoJob, callVars, nameVars, waitVars, jobVars, queueVars, NoCall,
      TypeOK
<1>5. ASSUME NEW c \in Conns, BucketFull(c)  PROVE ConnInv'
  BY <1>5
  DEF BucketFull, Idle, ReplyOnly, NoCall, Reply, callVars, nameVars, waitVars, ioVars,
      jobVars, queueVars, TypeOK
<1>6. ASSUME NEW c \in Conns, NEW p \in Pris, Put(c, p)  PROVE ConnInv'
  BY <1>6, BoundsAssumption
  DEF Put, Commanding, callVars, nameVars, waitVars, queueVars, Idle, NoCall, TypeOK, Jobs
<1>7. ASSUME NEW c \in Conns, PutSkipped(c)  PROVE ConnInv'
  BY <1>7
  DEF PutSkipped, Commanding, callVars, nameVars, waitVars, ioVars, jobVars, queueVars,
      Idle, NoCall, TypeOK
<1>8. ASSUME NEW c \in Conns, NEW delayed \in BOOLEAN, PutBody(c, delayed)  PROVE ConnInv'
  BY <1>8
  DEF PutBody, Idle, NoJob, Call, nameVars, waitVars, NoCall, TypeOK
<1>9. ASSUME NEW c \in Conns, PutBodyRefused(c)  PROVE ConnInv'
  BY <1>9
  DEF PutBodyRefused, Idle, NoJob, Reply, callVars, nameVars, waitVars, queueVars,
      NoCall, TypeOK
<1>10. ASSUME NEW c \in Conns, NEW t \in Tubes, Use(c, t)  PROVE ConnInv'
  BY <1>10
  DEF Use, Commanding, Reply, callVars, waitVars, ioVars, jobVars, queueVars, Idle,
      NoCall, TypeOK
<1>11. ASSUME NEW c \in Conns, NEW timeout \in BOOLEAN, Reserve(c, timeout)  PROVE ConnInv'
  BY <1>11
  DEF Reserve, Commanding, Call, nameVars, ioVars, jobVars, queueVars, Idle, NoCall, TypeOK
<1>12. ASSUME NEW c \in Conns, ReserveDeadlineSoon(c)  PROVE ConnInv'
  BY <1>12
  DEF ReserveDeadlineSoon, Commanding, ReplyOnly, Idle, Reply, callVars, nameVars, waitVars,
      ioVars, jobVars, queueVars, NoCall, TypeOK
<1>13. ASSUME NEW c \in Conns, NEW j \in Jobs, Delete(c, j)  PROVE ConnInv'
  <2>1. /\ out_job[c] \notin Jobs /\ ~ waiting[c] /\ in_job[c] = NoJob /\ state[c] = "wantcommand"
        /\ call = NoCall
    BY <1>13 DEF Delete, Commanding, Idle
  <2>2. reserved_jobs' = reserved_jobs \/ reserved_jobs' = [reserved_jobs EXCEPT ![c] = @ \ {j}]
    BY <1>13 DEF Delete, RemoveReserved
  <2>3. state' = state \/ state' = [state EXCEPT ![c] = "sendword"]
    BY <1>13 DEF Delete, FreeDeleted, Reply
  <2>4. UNCHANGED <<call, watch, waiting, waiting_conns, in_job, out_job>>
    BY <1>13 DEF Delete, callVars, nameVars, waitVars, ioVars
  <2>5. CallInv' /\ StateInv' /\ WaitingInPlace'
    BY <2>1, <2>3, <2>4 DEF TypeOK, NoCall
  <2>6. SentJobIsHeld' /\ ClosedEmpty'
    <3>1. \A d \in Conns : /\ d # c => reserved_jobs'[d] = reserved_jobs[d]
                           /\ reserved_jobs'[d] \subseteq reserved_jobs[d]
      BY <2>2 DEF TypeOK
    <3>2. \A d \in Conns : state'[d] = "closed" => state[d] = "closed"
      BY <2>3 DEF TypeOK
    <3>. QED BY <2>1, <2>4, <3>1, <3>2
  <2>. QED BY <2>5, <2>6
<1>14. ASSUME NEW c \in Conns, NEW j \in Jobs, NEW p \in Pris, NEW d \in BOOLEAN, Release(c, j, p,
    d)  PROVE ConnInv'
  <2>1. /\ out_job[c] \notin Jobs /\ ~ waiting[c] /\ in_job[c] = NoJob /\ state[c] = "wantcommand"
        /\ call = NoCall
    BY <1>14 DEF Release, Commanding, Idle
  <2>2. /\ reserved_jobs' = [reserved_jobs EXCEPT ![c] = @ \ {j}]
        /\ call'.op = "release" /\ call'.conn = c
        /\ UNCHANGED <<state, watch, waiting, waiting_conns, in_job, out_job>>
    BY <1>14 DEF Release, RemoveReserved, Call, NoCall, nameVars, waitVars, ioVars
  <2>. QED BY <2>1, <2>2 DEF TypeOK, NoCall
<1>15. ASSUME NEW c \in Conns, NEW j \in Jobs, NEW p \in Pris, Bury(c, j, p)  PROVE ConnInv'
  <2>1. /\ out_job[c] \notin Jobs /\ ~ waiting[c] /\ in_job[c] = NoJob /\ state[c] = "wantcommand"
        /\ call = NoCall
    BY <1>15 DEF Bury, Commanding, Idle
  <2>2. /\ reserved_jobs' = [reserved_jobs EXCEPT ![c] = @ \ {j}]
        /\ state' = [state EXCEPT ![c] = "sendword"]
        /\ UNCHANGED <<call, watch, waiting, waiting_conns, in_job, out_job>>
    BY <1>15 DEF Bury, RemoveReserved, Reply, nameVars, waitVars, ioVars
  <2>. QED BY <2>1, <2>2 DEF TypeOK, NoCall
<1>16. ASSUME NEW c \in Conns, NEW t \in Tubes, Watch(c, t)  PROVE ConnInv'
  BY <1>16
  DEF Watch, Commanding, Reply, callVars, waitVars, ioVars, jobVars, queueVars, Idle,
      NoCall, TypeOK
<1>17. ASSUME NEW c \in Conns, NEW t \in Tubes, Ignore(c, t)  PROVE ConnInv'
  BY <1>17
  DEF Ignore, Commanding, Reply, callVars, waitVars, ioVars, jobVars, queueVars, Idle,
      NoCall, TypeOK
<1>18. ASSUME NEW c \in Conns, NEW n \in KickBounds, Kick(c, n)  PROVE ConnInv'
  BY <1>18
  DEF Kick, Commanding, Call, nameVars, waitVars, ioVars, jobVars, queueVars, Idle,
      NoCall, TypeOK
<1>19. ASSUME KickBuried  PROVE ConnInv'
  BY <1>19
  DEF KickBuried, KickGoesOn, nameVars, waitVars, ioVars, Running, TypeOK
<1>20. ASSUME KickBuriedNone  PROVE ConnInv'
  BY <1>20
  DEF KickBuriedNone, KickGoesOn, nameVars, waitVars, ioVars, jobVars, queueVars,
      Running, TypeOK
<1>21. ASSUME KickBuriedFails  PROVE ConnInv'
  BY <1>21
  DEF KickBuriedFails, KickGoesOn, nameVars, waitVars, ioVars, Running, TypeOK
<1>22. ASSUME NEW j \in Jobs, KickDelayed(j)  PROVE ConnInv'
  BY <1>22
  DEF KickDelayed, KickGoesOn, nameVars, waitVars, ioVars, Running, TypeOK
<1>23. ASSUME KickDelayedFails  PROVE ConnInv'
  BY <1>23
  DEF KickDelayedFails, KickGoesOn, nameVars, waitVars, ioVars, jobVars, queueVars,
      Running, TypeOK
<1>24. ASSUME KickEnds  PROVE ConnInv'
  BY <1>24
  DEF KickEnds, Running, NoCall, Reply, nameVars, waitVars, ioVars, jobVars, queueVars,
      TypeOK
<1>25. ASSUME NEW c \in Conns, NEW t \in Tubes, PauseTube(c, t)  PROVE ConnInv'
  BY <1>25
  DEF PauseTube, Commanding, Reply, callVars, nameVars, waitVars, ioVars, jobVars,
      queueVars, Idle, NoCall, TypeOK
<1>26. ASSUME NEW c \in Conns, Stats(c)  PROVE ConnInv'
  BY <1>26
  DEF Stats, Commanding, ReplyCopy, Idle, Copy, callVars, nameVars, waitVars, jobVars,
      queueVars, NoCall, TypeOK
<1>27. ASSUME NEW c \in Conns, NEW j \in Jobs, PeekJob(c, j)  PROVE ConnInv'
  BY <1>27
  DEF PeekJob, Commanding, ReplyCopy, Idle, Copy, callVars, nameVars, waitVars, jobVars,
      queueVars, NoCall, TypeOK
<1>28. ASSUME NEW c \in Conns, NEW j \in Jobs, PeekReady(c, j)  PROVE ConnInv'
  BY <1>28
  DEF PeekReady, Commanding, ReplyCopy, Idle, Copy, callVars, nameVars, waitVars, 
      jobVars, queueVars, NoCall, TypeOK
<1>29. ASSUME NEW c \in Conns, NEW j \in Jobs, PeekDelayed(c, j)  PROVE ConnInv'
  BY <1>29
  DEF PeekDelayed, Commanding, ReplyCopy, Idle, Copy, callVars, nameVars, waitVars, 
      jobVars, queueVars, NoCall, TypeOK
<1>30. ASSUME NEW c \in Conns, NEW j \in Jobs, PeekBuried(c, j)  PROVE ConnInv'
  <2>1. CASE ReplyCopy(c)
    BY <1>30, <2>1
    DEF PeekBuried, ReplyCopy, Commanding, Idle, NoCall, Copy, callVars, nameVars, waitVars,
        
        jobVars, TypeOK
  <2>2. CASE UNCHANGED <<callVars, state, nameVars, waitVars, ioVars, jobVars>>
    BY <2>2 DEF callVars, nameVars, waitVars, ioVars, jobVars
  <2>. QED BY <1>30, <2>1, <2>2 DEF PeekBuried
<1>31. ASSUME NEW c \in Conns, Answer(c)  PROVE ConnInv'
  BY <1>31
  DEF Answer, Commanding, ReplyOnly, Idle, Reply, callVars, nameVars, waitVars, ioVars,
      jobVars, queueVars, NoCall, TypeOK
<1>32. ASSUME NEW c \in Conns, Close(c)  PROVE ConnInv'
  BY <1>32
  DEF Close, Idle, NoJob, RemoveWaiting, Call, nameVars, queueVars, NoCall, TypeOK
<1>33. ASSUME NEW c \in Conns, NEW j \in Jobs, CloseRequeue(c, j)  PROVE ConnInv'
  BY <1>33
  DEF CloseRequeue, Closing, HoldsJob, RemoveReserved, nameVars, waitVars, ioVars,
      Running, TypeOK
<1>34. ASSUME NEW c \in Conns, CloseEnds(c)  PROVE ConnInv'
  BY <1>34
  DEF CloseEnds, Closing, NoCall, waitVars, ioVars, jobVars, queueVars, Running, TypeOK
<1>35. ASSUME NEW j \in Jobs, CronDelay(j)  PROVE ConnInv'
  BY <1>35
  DEF CronDelay, Idle, Call, NoCall, nameVars, waitVars, ioVars, TypeOK
<1>36. ASSUME NEW t \in Tubes, CronPause(t)  PROVE ConnInv'
  BY <1>36
  DEF CronPause, Idle, Call, nameVars, waitVars, ioVars, jobVars, queueVars, NoCall,
      TypeOK
<1>37. ASSUME NEW c \in Conns, NEW e \in SUBSET Jobs, NEW soon \in BOOLEAN, Timeout(c, e, soon)
    PROVE ConnInv'
  <2>1. state[c] # "closed"
    BY <1>37 DEF Timeout, Idle, PopTick, ClosedTick
  <2>. QED BY <1>37, <2>1
           DEF Timeout, Idle, Call, nameVars, waitVars, ioVars, jobVars, queueVars, NoCall, TypeOK
<1>38. ASSUME NEW c \in Conns, NEW j \in Jobs, TimeoutExpire(c, j)  PROVE ConnInv'
  BY <1>38
  DEF TimeoutExpire, TimingOut, KeepSending, RemoveReserved, nameVars, waitVars, Running, Copy,
      TypeOK
<1>39. ASSUME NEW c \in Conns, TimeoutEnds(c)  PROVE ConnInv'
  <2>1. call' = NoCall /\ in_job' = in_job /\ out_job' = out_job /\ watch' = watch
        /\ reserved_jobs' = reserved_jobs
    BY <1>39 DEF TimeoutEnds, nameVars, ioVars, jobVars
  <2>2. call.op = "timeout" /\ call.conn = c /\ state[c] # "closed"
    BY <1>39 DEF TimeoutEnds, TimingOut, Running
  <2>3. CASE UNCHANGED <<waitVars, state>>
    BY <2>1, <2>2, <2>3 DEF waitVars, NoCall, TypeOK
  <2>4. CASE RemoveWaiting(c, {}) /\ Reply(c) /\ state[c] \in {"wait", "sendjob"}
    <3>1. waiting' = [waiting EXCEPT ![c] = FALSE] /\ state' = [state EXCEPT ![c] = "sendword"]
      BY <2>4 DEF RemoveWaiting, Reply
    <3>2. WaitingInPlace'
      BY <2>1, <2>4, <3>1 DEF RemoveWaiting, TypeOK
    <3>. QED BY <2>1, <2>2, <2>4, <3>1, <3>2 DEF NoCall, TypeOK
  <2>. QED BY <1>39, <2>2, <2>3, <2>4 DEF TimeoutEnds, waitVars
<1>40. CASE UNCHANGED vars
  BY <1>40 DEF vars, callVars, nameVars, waitVars, ioVars, jobVars
<1>. HIDE DEF ConnInv, CallInv, StateInv, WaitingInPlace, SentJobIsHeld, ClosedEmpty
<1>. QED BY <1>1, <1>2, <1>3, <1>4, <1>5, <1>6, <1>7, <1>8, <1>9, <1>10, <1>11, <1>12, <1>13,
            <1>14, <1>15, <1>16, <1>17, <1>18, <1>19, <1>20, <1>21, <1>22, <1>23, <1>24, <1>25,
            <1>26, <1>27, <1>28, <1>29, <1>30, <1>31, <1>32, <1>33, <1>34, <1>35, <1>36, <1>37,
            <1>38, <1>39, <1>40
         DEF Next, Continue, Input, Command, Cron, CronTimeout, Dead

(* Handlers, and the ticks of the clients that wait.                        *)

\* A step that goes on with the handler, or with none, and makes nobody wait.
Eases ==
  \A c \in Conns :
    /\ waiting'[c] => waiting[c] /\ (pending'[c] <=> pending[c])
    /\ reserved_jobs'[c] \subseteq reserved_jobs[c]

\* It leaves the handler what it relies on.
LEMMA EasedHandler ==
  ASSUME TypeOK, CallInv, HandlerInv, Eases, UNCHANGED callVars
  PROVE  HandlerInv'
<1>1. ASSUME call.op = "timeout"  PROVE call.conn \in Conns
  BY <1>1 DEF CallInv
<1>. QED BY <1>1 DEF HandlerInv, Eases, callVars

\* Such a step leaves the waiting clients their ticks.
LEMMA EasedTick ==
  ASSUME WaitersTick, Eases, UNCHANGED connsVars,
         call' = call \/ ~ (call.op = "timeout" \/ call'.op = "timeout")
  PROVE  WaitersTick'
BY DEF WaitersTick, Eases, connsVars

\* Of the inductive invariant, what this section is about.
TickInv == HandlerInv /\ WaitersTick

\* A step inside a handler, or of none, that takes no turn.
LEMMA QuietTick ==
  ASSUME TypeOK, CallInv, TickInv, Eases, UNCHANGED <<connsVars, call, processing>>
  PROVE  TickInv'
BY EasedHandler, EasedTick DEF TickInv, callVars

\* A command, an event or a round of conn_cron that begins a handler or ends one.
LEMMA TurnTick ==
  ASSUME TickInv, Eases, UNCHANGED connsVars, call.op # "timeout",
         \/ call' = NoCall /\ ~ processing'
         \/ call'.op \in {"kick_buried", "kick_delayed", "close"}
         \/ call'.op \in {"put", "release", "reserve", "cron"} /\ processing'
  PROVE  TickInv'
<1>1. WaitersTick'
  BY EasedTick DEF TickInv, NoCall
<1>2. HandlerInv'
  BY DEF HandlerInv, NoCall
<1>. QED BY <1>1, <1>2 DEF TickInv

\* Every step keeps the ticks: jobs are taken from a list and never put on the list
\* of a client that still waits, and conn_timeout sets the tick it has dropped.
LEMMA TickStep ==
  ASSUME TypeOK, CallInv, TickInv, [Next]_vars
  PROVE  TickInv'
<1>1. ASSUME NEW d \in Conns, NEW taken, RemoveWaiting(d, taken)
      PROVE  ~ waiting'[d] /\ \A c \in Conns \ {d} : waiting'[c] = waiting[c]
  BY <1>1 DEF RemoveWaiting, TypeOK
<1>2. ASSUME NEW d \in Conns, NEW j, RemoveReserved(d, j)
      PROVE  \A c \in Conns : reserved_jobs'[c] \subseteq reserved_jobs[c]
  BY <1>2 DEF RemoveReserved, TypeOK
<1>3. ASSUME NEW c \in Conns, NEW j \in Jobs, Deliver(j, c)  PROVE TickInv'
  <2>1. ~ waiting'[c] /\ \A d \in Conns \ {c} : waiting'[d] = waiting[d]
    BY <1>1, <1>3 DEF Deliver
  <2>2. \A d \in Conns \ {c} : reserved_jobs'[d] = reserved_jobs[d]
    BY <1>3 DEF Deliver, TypeOK
  <2>3. UNCHANGED <<pending, ticking, displaced, call, processing>>
    BY <1>3 DEF Deliver, tickVars, connsVars, callVars
  <2>4. ASSUME call.op = "timeout"  PROVE call.conn \in Conns
    BY <2>4 DEF CallInv
  <2>. QED BY <2>1, <2>2, <2>3, <2>4 DEF TickInv, HandlerInv, WaitersTick
<1>4. CASE ProcessQueueReturns
  <2>1. UNCHANGED <<waiting, pending, reserved_jobs>> /\ ~ processing'
    BY <1>4 DEF ProcessQueueReturns, waitVars, jobVars
  <2>2. CASE call.op = "timeout"
    <3>1. call' = call /\ call.conn \in Conns
          /\ SetTick(call.conn, reserved_jobs[call.conn], pending[call.conn])
      BY <1>4, <2>2 DEF ProcessQueueReturns, CallInv
    <3>2. ~ displaced' /\ ~ AllocMayFail =>
            ~ displaced /\ \A c \in Conns \ {call.conn} : ticking'[c] = ticking[c]
      BY <3>1, SetTickFacts DEF TypeOK
    <3>. QED BY <2>1, <2>2, <3>1, <3>2 DEF TickInv, HandlerInv, WaitersTick, NoCall
  <2>3. CASE call.op # "timeout"
    <3>1. UNCHANGED connsVars
      BY <1>4, <2>3 DEF ProcessQueueReturns
    <3>2. call' = NoCall \/ call'.op \in {"kick_buried", "kick_delayed", "close"}
      BY <1>4, <2>3 DEF ProcessQueueReturns
    <3>. QED BY <2>1, <2>3, <3>1, <3>2, TurnTick DEF Eases
  <2>. QED BY <2>2, <2>3
<1>5. ASSUME NEW c \in Conns, NEW timeout \in BOOLEAN, Reserve(c, timeout)  PROVE TickInv'
  <2>1. \A d \in Conns \ {c} : waiting'[d] = waiting[d] /\ pending'[d] = pending[d]
    BY <1>5 DEF Reserve, TypeOK
  <2>2. pending'[c] = timeout /\ reserved_jobs' = reserved_jobs
    BY <1>5 DEF Reserve, TypeOK, jobVars
  <2>3. ASSUME ~ displaced', ~ AllocMayFail
        PROVE  /\ ~ displaced /\ \A d \in Conns \ {c} : ticking'[d] = ticking[d]
               /\ reserved_jobs[c] # {} \/ timeout => ticking'[c]
    <3>1. ~ displaced /\ ticking' = [ticking EXCEPT ![c] = reserved_jobs[c] # {} \/ timeout]
      BY <1>5, <2>3, SetTickFacts DEF Reserve
    <3>. QED BY <3>1 DEF TypeOK
  <2>4. call = NoCall /\ call' = Call("reserve", c) /\ processing'
    BY <1>5 DEF Reserve, Commanding, Idle, ProcessQueue
  <2>. QED BY <2>1, <2>2, <2>3, <2>4 DEF TickInv, HandlerInv, WaitersTick, NoCall, Call
<1>6. ASSUME NEW c \in Conns, NEW expired, NEW soon \in BOOLEAN, Timeout(c, expired, soon)
      PROVE  TickInv'
  <2>1. UNCHANGED <<processing, waiting, pending, reserved_jobs>>
    BY <1>6 DEF Timeout, waitVars, jobVars
  <2>2. call = NoCall /\ call'.op = "timeout" /\ call'.conn = c /\ call'.soon = soon
    BY <1>6 DEF Timeout, Idle, Call, NoCall
  <2>3. displaced' = displaced /\ (~ displaced => \A d \in Conns \ {c} : ticking'[d] = ticking[d])
    BY <1>6, TakeTickFacts DEF Timeout, TypeOK
  <2>4. waiting[c] /\ ~ pending[c] /\ ~ soon => reserved_jobs[c] = {}
    BY <1>6 DEF Timeout
  <2>. QED BY <2>1, <2>2, <2>3, <2>4 DEF TickInv, HandlerInv, WaitersTick, NoCall
<1>7. ASSUME NEW c \in Conns, NEW j \in Jobs, TimeoutExpire(c, j)  PROVE TickInv'
  <2>1. UNCHANGED <<waiting, pending>>
        /\ \A d \in Conns : reserved_jobs'[d] \subseteq reserved_jobs[d]
    BY <1>2, <1>7 DEF TimeoutExpire, waitVars
  <2>2. call.op = "timeout" /\ call.conn = c /\ call'.op = "timeout" /\ call'.conn = c
        /\ call'.soon = call.soon
    BY <1>7 DEF TimeoutExpire, TimingOut, Running, TypeOK, CallType
  <2>3. ~ displaced' /\ ~ AllocMayFail =>
          ~ displaced /\ \A d \in Conns \ {c} : ticking'[d] = ticking[d]
    BY <1>7, SetTickFacts DEF TimeoutExpire, connsVars, TypeOK
  <2>. QED BY <2>1, <2>2, <2>3 DEF TickInv, HandlerInv, WaitersTick, NoCall
<1>8. ASSUME NEW c \in Conns, TimeoutEnds(c)  PROVE TickInv'
  <2>1. call.op = "timeout" /\ call.conn = c /\ ~ processing /\ call' = NoCall
        /\ UNCHANGED <<processing, ticking, displaced, reserved_jobs>>
    BY <1>8 DEF TimeoutEnds, TimingOut, Running, connsVars, jobVars
  <2>2. \A d \in Conns \ {c} : waiting'[d] = waiting[d] /\ pending'[d] = pending[d]
    BY <1>1, <1>8 DEF TimeoutEnds, waitVars, TypeOK
  <2>3. ~ waiting'[c] \/ (~ pending'[c] /\ reserved_jobs[c] = {})
    BY <1>1, <1>8, <2>1 DEF TimeoutEnds, waitVars, TickInv, HandlerInv
  <2>. QED BY <2>1, <2>2, <2>3 DEF TickInv, HandlerInv, WaitersTick, NoCall
<1>9. ASSUME NEW c \in Conns, CloseEnds(c)  PROVE TickInv'
  <2>1. call.op = "close" /\ call.conn = c /\ ~ processing /\ call' = NoCall
        /\ UNCHANGED <<processing, waiting, reserved_jobs>>
    BY <1>9 DEF CloseEnds, Closing, Running, jobVars, waitVars
  <2>2. /\ displaced' = displaced /\ \A d \in Conns \ {c} : pending'[d] = pending[d]
        /\ ~ displaced => \A d \in Conns \ {c} : ticking'[d] = ticking[d]
    BY <1>9, TakeTickFacts DEF CloseEnds, connsVars, TypeOK
  <2>3. ~ waiting[c]
    BY <2>1 DEF CallInv
  <2>. QED BY <2>1, <2>2, <2>3 DEF TickInv, HandlerInv, WaitersTick, NoCall
<1>10. ASSUME NEW c \in Conns, Close(c)  PROVE TickInv'
  <2>1. Eases
    BY <1>1, <1>10 DEF Close, Eases, tickVars
  <2>2. UNCHANGED connsVars /\ call = NoCall /\ call'.op = "close"
    BY <1>10 DEF Close, Idle, tickVars, Call, NoCall
  <2>. QED BY <2>1, <2>2, TurnTick DEF NoCall
<1>11. ASSUME UNCHANGED <<waiting, pending, reserved_jobs>>  PROVE Eases
  BY <1>11 DEF Eases
<1>12. ASSUME NEW c \in Conns, NEW j \in Jobs,
              Delete(c, j) \/ \E p \in Pris : Bury(c, j, p)
       PROVE  TickInv'
  <2>1. Eases
    BY <1>2, <1>12 DEF Delete, Bury, Eases, waitVars, tickVars
  <2>. QED BY <1>12, <2>1, QuietTick DEF Delete, Bury, BuryJob, callVars, tickVars
<1>13. ASSUME NEW c \in Conns, NEW j \in Jobs, CloseRequeue(c, j)  PROVE TickInv'
  <2>1. Eases
    BY <1>2, <1>13 DEF CloseRequeue, Eases, waitVars, tickVars
  <2>. QED BY <1>13, <2>1, TurnTick DEF CloseRequeue, Closing, Running, tickVars
<1>14. ASSUME NEW c \in Conns, NEW j \in Jobs, NEW p \in Pris, NEW d \in BOOLEAN,
              Release(c, j, p, d)
       PROVE  TickInv'
  <2>1. Eases
    BY <1>2, <1>14 DEF Release, Eases, waitVars, tickVars
  <2>2. call'.op = "release" /\ processing'
    BY <1>14 DEF Release, EnqueueJob, EnqueueReady, EnqueueDelayed, ProcessQueue, Call, NoCall
  <2>. QED BY <1>14, <2>1, <2>2, TurnTick DEF Release, Commanding, Idle, NoCall, tickVars
<1>15. ASSUME NEW c \in Conns, NEW d \in BOOLEAN, PutBody(c, d)  PROVE TickInv'
  <2>1. call'.op = "put" /\ processing'
    BY <1>15 DEF PutBody, EnqueueJob, EnqueueReady, EnqueueDelayed, ProcessQueue, Call, NoCall
  <2>. QED BY <1>11, <1>15, <2>1, TurnTick DEF PutBody, Idle, NoCall, waitVars, tickVars
<1>16. ASSUME NEW j \in Jobs, CronDelay(j)  PROVE TickInv'
  <2>1. (call' = NoCall /\ ~ processing') \/ (call'.op = "cron" /\ processing')
    BY <1>16 DEF CronDelay, Call, NoCall
  <2>. QED BY <1>11, <1>16, <2>1, TurnTick DEF CronDelay, Idle, NoCall, waitVars, tickVars
<1>17. ASSUME NEW t \in Tubes, CronPause(t)  PROVE TickInv'
  <2>1. call'.op = "cron" /\ processing'
    BY <1>17 DEF CronPause, ProcessQueue, Call, NoCall
  <2>. QED BY <1>11, <1>17, <2>1, TurnTick DEF CronPause, Idle, NoCall, waitVars, tickVars, jobVars
<1>18. ASSUME NEW c \in Conns, NEW n \in KickBounds, Kick(c, n)  PROVE TickInv'
  <2>1. call'.op \in {"kick_buried", "kick_delayed"}
    BY <1>18 DEF Kick, Call, NoCall
  <2>. QED BY <1>11, <1>18, <2>1, TurnTick
           DEF Kick, Commanding, Idle, NoCall, waitVars, tickVars, jobVars
<1>19. CASE KickBuried \/ KickBuriedNone \/ KickBuriedFails
            \/ (\E j \in Jobs : KickDelayed(j)) \/ KickDelayedFails
  <2>1. call.op \in {"kick_buried", "kick_delayed"} /\ call'.op = call.op
    BY <1>19 DEF KickBuried, KickBuriedNone, KickBuriedFails, KickDelayed, KickDelayedFails,
                 KickGoesOn, Running, TypeOK, CallType
  <2>2. UNCHANGED <<waiting, pending, connsVars, reserved_jobs>>
    BY <1>19 DEF KickBuried, KickBuriedNone, KickBuriedFails, KickDelayed, KickDelayedFails,
                 waitVars, tickVars, jobVars
  <2>. QED BY <1>11, <2>1, <2>2, TurnTick
<1>20. CASE KickEnds
  <2>1. call.op # "timeout" /\ call' = NoCall /\ ~ processing'
        /\ UNCHANGED <<waiting, pending, connsVars, reserved_jobs>>
    BY <1>20 DEF KickEnds, Running, waitVars, tickVars, jobVars
  <2>. QED BY <1>11, <2>1, TurnTick
<1>21. ASSUME UNCHANGED <<callVars, waiting, tickVars, reserved_jobs>>  PROVE TickInv'
  BY <1>11, <1>21, QuietTick DEF callVars, tickVars
<1>22. ASSUME NEW c \in Conns, NEW j \in Jobs,
              PeekJob(c, j) \/ PeekReady(c, j) \/ PeekDelayed(c, j) \/ PeekBuried(c, j)
       PROVE  TickInv'
  BY <1>21, <1>22
  DEF PeekJob, PeekReady, PeekDelayed, PeekBuried, ReplyCopy, waitVars, jobVars
<1>23. ASSUME NEW c \in Conns, Accept(c) \/ ReplySent(c) \/ BucketFull(c) \/ PutBodyRefused(c)
       PROVE  TickInv'
  BY <1>21, <1>23
  DEF Accept, ReplySent, BucketFull, PutBodyRefused, ReplyOnly, waitVars, jobVars
<1>24. ASSUME NEW c \in Conns,
              \/ \E p \in Pris : Put(c, p)
              \/ \E t \in Tubes : Use(c, t) \/ Watch(c, t) \/ Ignore(c, t) \/ PauseTube(c, t)
              \/ PutSkipped(c) \/ ReserveDeadlineSoon(c) \/ Stats(c) \/ Answer(c)
       PROVE  TickInv'
  BY <1>21, <1>24
  DEF Put, Use, Watch, Ignore, PauseTube, PutSkipped, ReserveDeadlineSoon, Stats, Answer,
      ReplyOnly, ReplyCopy, waitVars, jobVars
<1>25. CASE UNCHANGED vars
  BY <1>21, <1>25 DEF vars, waitVars, jobVars
<1>. QED BY <1>3, <1>4, <1>5, <1>6, <1>7, <1>8, <1>9, <1>10, <1>12, <1>13, <1>14, <1>15, <1>16,
            <1>17, <1>18, <1>19, <1>20, <1>22, <1>23, <1>24, <1>25
         DEF Next, Continue, Input, Command, Cron, CronTimeout, Dead

(* What is left of closed connections in srv->conns. *)

\* A step that changes neither srv->conns nor who is connected.
LEMMA QuietClosed ==
  ASSUME TypeOK, ClosedTick, health = "ok", UNCHANGED ticking,
         \/ state' = state
         \/ \E c \in Conns, s \in ConnStates \ {"closed"} : state' = [state EXCEPT ![c] = s]
  PROVE  ClosedTick'
BY DEF ClosedTick, TypeOK

\* wait_for_job and conn_timeout put no connection into srv->conns but one that is
\* open, and conn_free leaves none there of a server that is still defined.
LEMMA ClosedTickStep ==
  ASSUME TypeOK, CallInv, ClosedTick, [Next]_vars
  PROVE  ClosedTick'
<1>1. CASE health # "ok"
  BY <1>1, DeadStays DEF vars, tickVars, connsVars, ClosedTick
<1>. SUFFICES ASSUME health = "ok"  PROVE ClosedTick'
  BY <1>1
<1>2. \A c \in Conns : state[c] = "closed" => ~ ticking[c]
  BY DEF ClosedTick
<1>3. ASSUME NEW c \in Conns, state'[c] # "closed",
             \A d \in Conns \ {c} : state'[d] = state[d] /\ (ticking'[d] => ticking[d])
      PROVE  ClosedTick'
  BY <1>2, <1>3 DEF ClosedTick
<1>4. CASE ProcessQueueReturns
  <2>1. CASE call.op = "timeout"
    <3>1. call.conn \in Conns /\ state[call.conn] # "closed" /\ state' = state
          /\ SetTick(call.conn, reserved_jobs[call.conn], pending[call.conn])
      BY <1>4, <2>1 DEF ProcessQueueReturns, CallInv
    <3>. QED BY <1>3, <3>1, SetTickFacts DEF TypeOK
  <2>2. CASE call.op # "timeout"
    <3>1. UNCHANGED ticking /\ (state' = state \/ (Reply(call.conn) /\ call.op \in {"put", "release"}))
      BY <1>4, <2>2 DEF ProcessQueueReturns, connsVars
    <3>2. call.op \in {"put", "release"} => call.conn \in Conns
      BY DEF CallInv
    <3>. QED BY <3>1, <3>2, QuietClosed DEF Reply, ConnStates
  <2>. QED BY <2>1, <2>2
<1>5. ASSUME NEW c \in Conns, NEW timeout \in BOOLEAN, Reserve(c, timeout)  PROVE ClosedTick'
  <2>1. state' = [state EXCEPT ![c] = "wait"]
    BY <1>5 DEF Reserve
  <2>. QED BY <1>3, <1>5, <2>1, SetTickFacts DEF Reserve, TypeOK
<1>6. ASSUME NEW c \in Conns, NEW expired, NEW soon, Timeout(c, expired, soon)  PROVE ClosedTick'
  <2>1. state' = state /\ state[c] # "closed"
    BY <1>2, <1>6 DEF Timeout, PopTick
  <2>. QED BY <1>3, <1>6, <2>1, TakeTickFacts DEF Timeout
<1>7. ASSUME NEW c \in Conns, NEW j \in Jobs, TimeoutExpire(c, j)  PROVE ClosedTick'
  <2>1. state' = state /\ state[c] # "closed"
    BY <1>7 DEF TimeoutExpire, TimingOut, Running, CallInv
  <2>2. UNCHANGED ticking \/ SetTick(c, reserved_jobs'[c], pending[c])
    BY <1>7 DEF TimeoutExpire, connsVars
  <2>. QED BY <1>3, <2>1, <2>2, SetTickFacts DEF TypeOK
<1>8. ASSUME NEW c \in Conns, CloseEnds(c)  PROVE ClosedTick'
  <2>1. CASE health' = "undefined"
    BY <2>1 DEF ClosedTick
  <2>2. CASE FreeTick(c)
    <3>1. ~ ticking'[c] /\ \A d \in Conns : ticking'[d] => ticking[d]
      BY <2>2, TakeTickFacts DEF FreeTick, TypeOK
    <3>2. state' = [state EXCEPT ![c] = "closed"]
      BY <1>8 DEF CloseEnds
    <3>. QED BY <1>2, <3>1, <3>2 DEF ClosedTick, TypeOK
  <2>. QED BY <1>8, <2>1, <2>2 DEF CloseEnds
<1>9. ASSUME NEW c \in Conns, NEW j \in Jobs, Deliver(j, c)  PROVE ClosedTick'
  BY <1>9, QuietClosed DEF Deliver, tickVars, connsVars, ConnStates
<1>10. ASSUME NEW c \in Conns,
              TimeoutEnds(c) \/ \E j \in Jobs : CloseRequeue(c, j)
       PROVE  ClosedTick'
  BY <1>10, QuietClosed DEF TimeoutEnds, CloseRequeue, Reply, tickVars, connsVars, ConnStates
<1>11. CASE \/ KickBuried \/ KickBuriedNone \/ KickBuriedFails \/ KickDelayedFails
            \/ \E j \in Jobs : KickDelayed(j)
  BY <1>11, QuietClosed
  DEF KickBuried, KickBuriedNone, KickBuriedFails, KickDelayedFails, KickDelayed, tickVars,
      connsVars
<1>12. CASE KickEnds
  <2>1. call.conn \in Conns
    BY <1>12 DEF KickEnds, Running, CallInv
  <2>. QED BY <1>12, <2>1, QuietClosed DEF KickEnds, Reply, tickVars, connsVars, ConnStates
<1>13. ASSUME NEW c \in Conns, Input(c)  PROVE ClosedTick'
  BY <1>13, QuietClosed
  DEF Input, Accept, Close, ReplySent, BucketFull, PutBody, PutBodyRefused, ReplyOnly, Reply,
      tickVars, connsVars, ConnStates
<1>14. ASSUME NEW c \in Conns, NEW j \in Jobs, Delete(c, j)  PROVE ClosedTick'
  BY <1>14, QuietClosed DEF Delete, FreeDeleted, Reply, tickVars, connsVars, ConnStates
<1>15. ASSUME NEW c \in Conns, NEW j \in Jobs,
              PeekJob(c, j) \/ PeekReady(c, j) \/ PeekDelayed(c, j) \/ PeekBuried(c, j)
       PROVE  ClosedTick'
  BY <1>15, QuietClosed
  DEF PeekJob, PeekReady, PeekDelayed, PeekBuried, ReplyCopy, tickVars, connsVars, ConnStates
<1>16. ASSUME NEW c \in Conns, NEW j \in Jobs, NEW p \in Pris,
              Bury(c, j, p) \/ \E d \in BOOLEAN : Release(c, j, p, d)
       PROVE  ClosedTick'
  BY <1>16, QuietClosed DEF Bury, Release, Reply, tickVars, connsVars, ConnStates
<1>17. ASSUME NEW c \in Conns,
              \/ \E p \in Pris : Put(c, p)
              \/ \E t \in Tubes : Use(c, t) \/ Watch(c, t) \/ Ignore(c, t) \/ PauseTube(c, t)
              \/ \E n \in KickBounds : Kick(c, n)
              \/ PutSkipped(c) \/ ReserveDeadlineSoon(c) \/ Stats(c) \/ Answer(c)
       PROVE  ClosedTick'
  BY <1>17, QuietClosed
  DEF Put, Use, Watch, Ignore, PauseTube, Kick, PutSkipped, ReserveDeadlineSoon, Stats, Answer,
      ReplyOnly, ReplyCopy, Reply, tickVars, connsVars, ConnStates
<1>18. CASE (\E j \in Jobs : CronDelay(j)) \/ \E t \in Tubes : CronPause(t)
  BY <1>18, QuietClosed DEF CronDelay, CronPause, tickVars, connsVars
<1>19. CASE UNCHANGED vars
  BY <1>19, QuietClosed DEF vars, tickVars, connsVars
<1>. QED BY <1>4, <1>5, <1>6, <1>7, <1>8, <1>9, <1>10, <1>11, <1>12, <1>13, <1>14, <1>15, <1>16,
            <1>17, <1>18, <1>19
         DEF Next, Continue, Command, Cron, CronTimeout, Dead

================================================================================
