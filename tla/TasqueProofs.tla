----------------------------- MODULE TasqueProofs ------------------------------
(* The safety properties of Tasque hold, and it implements JobLifecycle, for every *)
(* number of connections, tubes and jobs.                                          *)
EXTENDS TasqueRefinement, TasqueStepProofs, RecursionFacts, FiniteSetTheorems

(* No ready job and waiting connection are left unmatched.                  *)

\* No tube gets a ready job, a waiting connection or the end of its pause.
NoNewMatch ==
  /\ UNCHANGED processing
  /\ \A t \in Tubes : /\ ready_jobs'[t] \subseteq ready_jobs[t]
                      /\ waiting_conns'[t] \subseteq waiting_conns[t]
                      /\ pause[t] => pause'[t] \/ ready_jobs[t] = {}

\* Such a step leaves no match behind.
LEMMA NoNewMatchKeeps ==
  ASSUME NoMatchLeft, NoNewMatch
  PROVE  NoMatchLeft'
<1>1. CASE processing
  BY <1>1 DEF NoMatchLeft, NoNewMatch
<1>2. CASE ~ processing
  <2>1. ASSUME NEW t \in Tubes  PROVE pause'[t] \/ ready_jobs'[t] = {} \/ waiting_conns'[t] = {}
    BY <1>2 DEF NoMatchLeft, NoNewMatch
  <2>. QED BY <2>1 DEF NoMatchLeft
<1>. QED BY <1>1, <1>2

\* Nor does one that enters process_queue.
LEMMA ProcessQueueKeeps ==
  ASSUME NEW cleared, ProcessQueue(cleared)
  PROVE  NoMatchLeft'
BY DEF ProcessQueue, NoMatchLeft

\* A tube with a ready job is not freed, and so its pause is not lost.
LEMMA DropTubesKeepsPause ==
  ASSUME JobInv, NEW u, NEW w, DropTubes(u, w), NEW t \in Tubes, pause[t], ready_jobs[t] # {}
  PROVE  pause'[t]
<1>1. PICK j \in Jobs : j \in ready_jobs[t]
  BY DEF JobInv, QueueInv, TypeOK
<1>2. tube[j] = t /\ job_state[j] = "ready"
  BY <1>1 DEF JobInv, QueueInv, InPlace, ReadyInPlace
<1>3. j \in 1 .. next_job_id - 1
  <2>1. next_job_id \in Nat /\ j \in Nat /\ j >= 1
    BY BoundsAssumption DEF JobInv, QueueInv, TypeOK, Jobs
  <2>2. ~ (j >= next_job_id)
    BY <1>2 DEF JobInv, FreshInv
  <2>. QED BY <2>1, <2>2
<1>. QED BY <1>2, <1>3 DEF DropTubes, Referenced

\* Nor does one that drops references to tubes.
LEMMA DropTubesKeeps ==
  ASSUME JobInv, NoMatchLeft, NEW u, NEW w, DropTubes(u, w),
         UNCHANGED <<processing, ready_jobs, waiting_conns>>
  PROVE  NoMatchLeft'
BY DropTubesKeepsPause, NoNewMatchKeeps DEF NoNewMatch

\* A job that is enqueued is offered to the waiting connections; one that is
\* buried is not.
LEMMA EnqueueKeeps ==
  ASSUME NoMatchLeft, NEW j, waiting_conns' = waiting_conns,
         \/ EnqueueOrBury(j)
         \/ \E d \in BOOLEAN : EnqueueJob(j, d)
         \/ \E b : BuryJob(j, b) /\ UNCHANGED ready_jobs
  PROVE  NoMatchLeft'
<1>1. CASE EnqueueReady(j) \/ EnqueueDelayed(j)
  BY <1>1, ProcessQueueKeeps DEF EnqueueReady, EnqueueDelayed
<1>2. CASE \E b : BuryJob(j, b) /\ UNCHANGED ready_jobs
  BY <1>2 DEF BuryJob, NoMatchLeft
<1>. QED BY <1>1, <1>2 DEF EnqueueOrBury, EnqueueJob

\* Every step leaves process_queue running or no match behind.
LEMMA MatchStep ==
  ASSUME JobInv, NoMatchLeft, [Next]_vars
  PROVE  NoMatchLeft'
<1>. TypeOK
  BY DEF JobInv, QueueInv
<1>1. ASSUME NEW c \in Conns, NEW j \in Jobs, Deliver(j, c)  PROVE NoMatchLeft'
  <2>1. processing' = processing /\ processing
    BY <1>1 DEF Deliver, callVars
  <2>. QED BY <2>1 DEF NoMatchLeft
<1>2. CASE ProcessQueueReturns
  <2>1. Eligible = {} /\ UNCHANGED <<pause, ready_jobs, waiting_conns>>
    BY <1>2 DEF ProcessQueueReturns, queueVars, waitVars
  <2>2. ASSUME NEW t \in Tubes  PROVE pause[t] \/ ready_jobs[t] = {} \/ waiting_conns[t] = {}
    BY <2>1 DEF Eligible
  <2>. QED BY <2>1, <2>2 DEF NoMatchLeft
<1>3. ASSUME NEW c \in Conns, NEW j \in Jobs, CloseRequeue(c, j) \/ TimeoutExpire(c, j)
      PROVE  NoMatchLeft'
  BY <1>3, EnqueueKeeps DEF CloseRequeue, TimeoutExpire, waitVars
<1>4. CASE KickBuried \/ KickBuriedFails \/ (\E j \in Jobs : KickDelayed(j)) \/ KickDelayedFails
  <2>1. CASE KickBuried
    BY <2>1, ProcessQueueKeeps DEF KickBuried, EnqueueReady
  <2>2. CASE KickBuriedFails
    BY <2>2, EnqueueKeeps DEF KickBuriedFails, waitVars
  <2>3. CASE \E j \in Jobs : KickDelayed(j)
    BY <2>3, ProcessQueueKeeps DEF KickDelayed, EnqueueReady
  <2>4. CASE KickDelayedFails
    BY <2>4, ProcessQueueKeeps DEF KickDelayedFails
  <2>. QED BY <1>4, <2>1, <2>2, <2>3, <2>4
<1>5. ASSUME NEW j \in Jobs, CronDelay(j)  PROVE NoMatchLeft'
  BY <1>5, EnqueueKeeps DEF CronDelay, waitVars
<1>6. ASSUME NEW t \in Tubes, CronPause(t)  PROVE NoMatchLeft'
  BY <1>6, ProcessQueueKeeps DEF CronPause
<1>7. ASSUME NEW c \in Conns, NEW j \in Jobs, Delete(c, j)  PROVE NoMatchLeft'
  <2>1. UNCHANGED <<processing, pause, waiting_conns>>
    BY <1>7 DEF Delete, callVars, waitVars
  <2>2. ready_jobs' = ready_jobs \/ ready_jobs' = [ready_jobs EXCEPT ![tube[j]] = @ \ {j}]
    BY <1>7 DEF Delete
  <2>3. \A t \in Tubes : ready_jobs'[t] \subseteq ready_jobs[t]
    BY <2>2, ZenonT(20) DEF TypeOK
  <2>. QED BY <2>1, <2>3, NoNewMatchKeeps DEF NoNewMatch
<1>8. ASSUME NEW c \in Conns, NEW j \in Jobs, NEW p \in Pris,
             Bury(c, j, p) \/ \E d \in BOOLEAN : Release(c, j, p, d)
      PROVE  NoMatchLeft'
  BY <1>8, EnqueueKeeps DEF Bury, Release, waitVars
<1>9. ASSUME NEW c \in Conns, \E d \in BOOLEAN : PutBody(c, d)  PROVE NoMatchLeft'
  BY <1>9, EnqueueKeeps DEF PutBody, waitVars
<1>10. ASSUME NEW c \in Conns, NEW timeout \in BOOLEAN, Reserve(c, timeout)  PROVE NoMatchLeft'
  BY <1>10, ProcessQueueKeeps DEF Reserve
<1>11. ASSUME NEW c \in Conns, NEW t \in Tubes, Use(c, t) \/ Ignore(c, t)  PROVE NoMatchLeft'
  BY <1>11, DropTubesKeeps DEF Use, Ignore, callVars, queueVars, waitVars
<1>12. ASSUME NEW c \in Conns, CloseEnds(c)  PROVE NoMatchLeft'
  BY <1>12, DropTubesKeeps DEF CloseEnds, queueVars, waitVars
<1>13. ASSUME NEW c \in Conns, Close(c) \/ TimeoutEnds(c)  PROVE NoMatchLeft'
  <2>1. UNCHANGED <<processing, ready_jobs, pause>>
    BY <1>13 DEF Close, TimeoutEnds, queueVars
  <2>2. waiting_conns' = waiting_conns \/ RemoveWaiting(c, {})
    BY <1>13 DEF Close, TimeoutEnds, waitVars
  <2>3. \A t \in Tubes : waiting_conns'[t] \subseteq waiting_conns[t]
    BY <2>2 DEF RemoveWaiting
  <2>. QED BY <2>1, <2>3, NoNewMatchKeeps DEF NoNewMatch
<1>14. ASSUME NEW c \in Conns, NEW t \in Tubes, PauseTube(c, t)  PROVE NoMatchLeft'
  BY <1>14, NoNewMatchKeeps DEF PauseTube, NoNewMatch, callVars, queueVars, waitVars, TypeOK
<1>15. ASSUME UNCHANGED <<processing, pause, ready_jobs, waiting_conns>>  PROVE NoMatchLeft'
  BY <1>15, NoNewMatchKeeps DEF NoNewMatch
<1>16. CASE KickBuriedNone \/ KickEnds
  BY <1>15, <1>16 DEF KickBuriedNone, KickEnds, queueVars, waitVars
<1>17. ASSUME NEW c \in Conns,
              Accept(c) \/ ReplySent(c) \/ BucketFull(c) \/ PutBodyRefused(c) \/ PutSkipped(c)
       PROVE  NoMatchLeft'
  BY <1>15, <1>17
  DEF Accept, ReplySent, BucketFull, PutBodyRefused, PutSkipped, ReplyOnly, callVars, queueVars,
      waitVars
<1>18. ASSUME NEW c \in Conns, NEW j \in Jobs,
              PeekJob(c, j) \/ PeekReady(c, j) \/ PeekDelayed(c, j) \/ PeekBuried(c, j)
       PROVE  NoMatchLeft'
  BY <1>15, <1>18
  DEF PeekJob, PeekReady, PeekDelayed, PeekBuried, ReplyCopy, callVars, queueVars, waitVars
<1>19. ASSUME NEW c \in Conns,
              \/ \E p \in Pris : Put(c, p)
              \/ \E t \in Tubes : Watch(c, t)
              \/ \E n \in KickBounds : Kick(c, n)
              \/ ReserveDeadlineSoon(c) \/ Stats(c) \/ Answer(c) \/ CronTimeout(c)
       PROVE  NoMatchLeft'
  BY <1>15, <1>19
  DEF Put, Watch, Kick, ReserveDeadlineSoon, Stats, Answer, CronTimeout, Timeout, ReplyOnly,
      ReplyCopy, callVars, queueVars, waitVars
<1>20. CASE UNCHANGED vars
  BY <1>15, <1>20 DEF vars, callVars, queueVars, waitVars
<1>. QED BY <1>1, <1>2, <1>3, <1>4, <1>5, <1>6, <1>7, <1>8, <1>9, <1>10, <1>11, <1>12, <1>13,
            <1>14, <1>16, <1>17, <1>18, <1>19, <1>20
         DEF Next, Continue, Input, Command, Cron, Dead

(* The records of jobs.                                                     *)

\* A job that is enqueued or buried loses its reserver.
LEMMA EnqueueRecords ==
  ASSUME TypeOK, RecordInv, NEW j \in Jobs,
         EnqueueReady(j) \/ EnqueueDelayed(j) \/ \E b : BuryJob(j, b),
         \/ pri' = pri /\ job_state[j] # "none"
         \/ \E p \in Pris : pri' = [pri EXCEPT ![j] = p]
  PROVE  RecordInv'
<1>1. /\ reserver' = [reserver EXCEPT ![j] = NoConn]
      /\ \A k \in Jobs : k # j => job_state'[k] = job_state[k]
  BY DEF EnqueueReady, EnqueueDelayed, BuryJob, TypeOK
<1>2. pri'[j] \in Pris /\ \A k \in Jobs : k # j => pri'[k] = pri[k]
  <2>1. CASE pri' = pri /\ job_state[j] # "none"
    BY <2>1 DEF RecordInv
  <2>2. ASSUME NEW p \in Pris, pri' = [pri EXCEPT ![j] = p]
        PROVE  pri'[j] \in Pris /\ \A k \in Jobs : k # j => pri'[k] = pri[k]
    BY <2>2 DEF TypeOK
  <2>. QED BY <2>1, <2>2
<1>3. reserver'[j] = NoConn /\ \A k \in Jobs : k # j => reserver'[k] = reserver[k]
  BY <1>1 DEF TypeOK
<1>. QED BY <1>1, <1>2, <1>3 DEF RecordInv

\* A job that is freed has neither reserver nor priority.
LEMMA FreeRecords ==
  ASSUME TypeOK, RecordInv, NEW j \in Jobs, FreeJob(j),
         \/ reserver' = [reserver EXCEPT ![j] = NoConn]
         \/ reserver' = reserver /\ job_state[j] # "reserved"
  PROVE  RecordInv'
BY DEF RecordInv, FreeJob, TypeOK

\* Where no record changes there is nothing to show.
LEMMA SameRecords ==
  ASSUME RecordInv, UNCHANGED <<job_state, reserver, pri>>
  PROVE  RecordInv'
BY DEF RecordInv

\* Every step keeps the records.
LEMMA RecordStep ==
  ASSUME JobInv, CallInv, StateInv, RecordInv, [Next]_vars
  PROVE  RecordInv'
<1>. QueueInv /\ TypeOK
  BY DEF JobInv, QueueInv
<1>1. ASSUME NEW c \in Conns, NEW j \in Jobs, Deliver(j, c)  PROVE RecordInv'
  <2>1. job_state[j] = "ready"
    BY <1>1 DEF QueueInv, InPlace, ReadyInPlace, Deliver, IsNext, Eligible
  <2>2. /\ pri' = pri /\ job_state'[j] = "reserved"
        /\ \A k \in Jobs : k # j => job_state'[k] = job_state[k] /\ reserver'[k] = reserver[k]
    BY <1>1 DEF Deliver, TypeOK
  <2>. QED BY <2>1, <2>2 DEF RecordInv
<1>2. ASSUME NEW c \in Conns, NEW j \in Jobs, CloseRequeue(c, j) \/ TimeoutExpire(c, j)
      PROVE  RecordInv'
  <2>1. job_state[j] # "none"
    BY <1>2 DEF CloseRequeue, TimeoutExpire, TimingOut, Running, HoldsJob, CallInv, QueueInv,
                InPlace, ReservedInPlace
  <2>. QED BY <1>2, <2>1, EnqueueRecords DEF CloseRequeue, TimeoutExpire, EnqueueOrBury
<1>3. CASE KickBuried \/ KickBuriedFails
  <2>. DEFINE j == Head(buried_jobs[KickedTube])
  <2>1. KickedTube \in Tubes /\ buried_jobs[KickedTube] # <<>>
    BY <1>3 DEF TypeOK, CallInv, KickBuried, KickBuriedFails, KickGoesOn, Running, KickedTube
  <2>2. j \in Jobs /\ job_state[j] = "buried"
    BY <2>1, TakeBuried
  <2>3. pri' = pri /\ (EnqueueReady(j) \/ BuryJob(j, PopBuried(KickedTube)))
    BY <1>3 DEF KickBuried, KickBuriedFails
  <2>. HIDE DEF j
  <2>. QED BY <2>2, <2>3, EnqueueRecords
<1>4. ASSUME NEW j \in Jobs, KickDelayed(j)  PROVE RecordInv'
  BY <1>4, KickDelayedShifts, EnqueueRecords DEF Shift, KickDelayed
<1>5. ASSUME NEW j \in Jobs, CronDelay(j)  PROVE RecordInv'
  BY <1>5, CronDelayShifts, EnqueueRecords DEF Shift, CronDelay, EnqueueOrBury
<1>6. ASSUME NEW c \in Conns, NEW j \in Jobs, Delete(c, j)  PROVE RecordInv'
  <2>1. FreeDeleted(c, j) \/ UNCHANGED <<job_state, reserver, pri>> \/ PopsAnother(j)
    BY <1>6 DEF Delete, PopsAnother, ioVars
  <2>2. CASE PopsAnother(j)
    <3>. DEFINE k == Head(buried_jobs[tube[j]])
    <3>1. k \in Jobs /\ job_state[k] = "buried"
      BY <2>2, TakeBuried DEF PopsAnother, TypeOK
    <3>2. job_state' = [job_state EXCEPT ![k] = "lost", ![j] = "none"] /\ j # k
          /\ pri' = [pri EXCEPT ![j] = 0] /\ reserver' = [reserver EXCEPT ![j] = NoConn]
      BY <2>2 DEF PopsAnother
    <3>. HIDE DEF k
    <3>. QED BY <3>1, <3>2 DEF RecordInv, TypeOK
  <2>. QED BY <2>1, <2>2, FreeRecords, SameRecords DEF FreeDeleted
<1>7. ASSUME NEW c \in Conns, NEW j \in Jobs, NEW p \in Pris,
             Bury(c, j, p) \/ \E d \in BOOLEAN : Release(c, j, p, d)
      PROVE  RecordInv'
  BY <1>7, EnqueueRecords DEF Bury, Release, EnqueueJob
<1>8. ASSUME NEW c \in Conns, NEW p \in Pris, Put(c, p)  PROVE RecordInv'
  <2>1. next_job_id \in Jobs /\ job_state[next_job_id] = "none"
    BY <1>8 DEF Put, JobInv, QueueInv, TypeOK, FreshInv, Jobs
  <2>. QED BY <1>8, <2>1 DEF Put, RecordInv, TypeOK
<1>9. ASSUME NEW c \in Conns, in_job[c] # NoJob
      PROVE  in_job[c] \in Jobs /\ job_state[in_job[c]] = "invalid"
  BY <1>9 DEF JobInv, QueueInv, TypeOK, ReadByOne, NoJob
<1>10. ASSUME NEW c \in Conns, \E d \in BOOLEAN : PutBody(c, d)  PROVE RecordInv'
  <2>1. in_job[c] # NoJob
    BY <1>10 DEF PutBody, Idle, NoCall, StateInv
  <2>. QED BY <1>9, <1>10, <2>1, EnqueueRecords DEF PutBody, EnqueueJob
<1>11. ASSUME NEW c \in Conns, PutBodyRefused(c) \/ Close(c)  PROVE RecordInv'
  <2>1. /\ reserver' = reserver
        /\ \/ in_job[c] # NoJob /\ FreeJob(in_job[c])
           \/ UNCHANGED <<job_state, pri>>
    BY <1>11 DEF PutBodyRefused, Close, Idle, NoCall, StateInv
  <2>. QED BY <1>9, <2>1, FreeRecords, SameRecords
<1>12. CASE ProcessQueueReturns \/ KickBuriedNone \/ KickDelayedFails \/ KickEnds
  BY <1>12, SameRecords
  DEF ProcessQueueReturns, KickBuriedNone, KickDelayedFails, KickEnds, jobVars
<1>13. ASSUME NEW c \in Conns,
              CloseEnds(c) \/ TimeoutEnds(c) \/ Accept(c) \/ ReplySent(c) \/ BucketFull(c)
       PROVE  RecordInv'
  BY <1>13, SameRecords
  DEF CloseEnds, TimeoutEnds, Accept, ReplySent, BucketFull, ReplyOnly, jobVars
<1>14. ASSUME NEW c \in Conns, NEW j \in Jobs,
              PeekJob(c, j) \/ PeekReady(c, j) \/ PeekDelayed(c, j) \/ PeekBuried(c, j)
       PROVE  RecordInv'
  BY <1>14, SameRecords
  DEF PeekJob, PeekReady, PeekDelayed, PeekBuried, ReplyCopy, jobVars
<1>15. ASSUME NEW c \in Conns,
              \/ \E t \in Tubes : Use(c, t) \/ Watch(c, t) \/ Ignore(c, t) \/ PauseTube(c, t)
              \/ \E timeout \in BOOLEAN : Reserve(c, timeout)
              \/ \E n \in KickBounds : Kick(c, n)
              \/ PutSkipped(c) \/ ReserveDeadlineSoon(c) \/ Stats(c) \/ Answer(c)
       PROVE  RecordInv'
  BY <1>15, SameRecords
  DEF Use, Watch, Ignore, PauseTube, Reserve, Kick, PutSkipped, ReserveDeadlineSoon, Stats, Answer,
      ReplyOnly, ReplyCopy, jobVars
<1>16. CASE \/ \E t \in Tubes : CronPause(t)
            \/ \E c \in Conns : CronTimeout(c)
  BY <1>16, SameRecords DEF CronPause, CronTimeout, Timeout, jobVars
<1>17. CASE UNCHANGED vars
  BY <1>17, SameRecords DEF vars, jobVars
<1>. QED BY <1>1, <1>2, <1>3, <1>4, <1>5, <1>6, <1>7, <1>8, <1>10, <1>11, <1>12, <1>13, <1>14,
            <1>15, <1>16, <1>17
         DEF Next, Continue, Input, Command, Cron, Dead

(* The theorems.                                                            *)

\* The initial state satisfies the inductive invariant.
LEMMA InitIndInv == Init => IndInv
<1>. SUFFICES ASSUME Init PROVE IndInv
  OBVIOUS
<1>1. TypeOK
  <2>1. call \in CallType
    BY CallTyped DEF Init
  <2>2. next_job_id \in 1 .. MaxJobs + 1
    BY BoundsAssumption DEF Init
  <2>3. buried_jobs \in [Tubes -> Seq(Jobs)]
    BY DEF Init
  <2>. QED BY <2>1, <2>2, <2>3, TubesAssumption DEF Init, TicksInit, TypeOK, ConnStates, JobStates,
                                                    NoJob
<1>2. ConnInv
  BY BoundsAssumption DEF Init, ConnInv, CallInv, StateInv, WaitingInPlace, SentJobIsHeld,
                          ClosedEmpty, NoCall, NoJob, Jobs
<1>3. JobInPlace /\ BuriedOnce
  BY DEF Init, JobInPlace, InPlace, ReadyInPlace, DelayedInPlace, BuriedInPlace, ReservedInPlace,
         BuriedOnce, ToSet, IsInjective
<1>4. FreshInv /\ ReadByOne /\ NoMatchLeft
  BY DEF Init, FreshInv, ReadByOne, NoMatchLeft, NoJob, Jobs
<1>5. RecordInv
  BY DEF Init, RecordInv
<1>6. TickInv /\ ClosedTick
  BY DEF Init, TicksInit, TickInv, HandlerInv, WaitersTick, ClosedTick, NoCall
<1>. QED BY <1>1, <1>2, <1>3, <1>4, <1>5, <1>6, ClosedParts DEF IndInv, ConnInv, TickInv

\* Every step keeps the inductive invariant.
LEMMA StepIndInv == IndInv /\ [Next]_vars => IndInv'
<1>. SUFFICES ASSUME IndInv, [Next]_vars PROVE IndInv'
  OBVIOUS
<1>1. TypeOK /\ CallInv /\ StateInv /\ ConnInv /\ NoMatchLeft /\ RecordInv /\ TickInv
      /\ ClosedTick
  BY ClosedParts DEF IndInv, ConnInv, TickInv
<1>2. TypeOK'
  BY <1>1, TypeStep
<1>3. ConnInv'
  BY <1>1, ConnStep
<1>4. TickInv'
  BY <1>1, TickStep
<1>5. ClosedTick'
  BY <1>1, ClosedTickStep
<1>6. JobInPlace' /\ BuriedOnce' /\ FreshInv' /\ ReadByOne' /\ NoMatchLeft' /\ RecordInv'
  <2>1. CASE health = "ok"
    <3>1. JobInv
      BY <2>1 DEF IndInv, JobInv, QueueInv, JobInPlace
    <3>2. NoMatchLeft' /\ RecordInv'
      BY <1>1, <3>1, MatchStep, RecordStep
    <3>. QED BY <1>1, <3>1, <3>2, JobStep DEF JobInvNext
  <2>2. CASE health # "ok"
    <3>1. UNCHANGED <<health, tube, job_state, pri, reserver, reserved_jobs, next_job_id, in_job,
                      ready_jobs, delay_jobs, buried_jobs, processing, pause, waiting_conns>>
      BY <2>2, DeadStays DEF vars, callVars, waitVars, ioVars, jobVars, queueVars
    <3>2. JobInPlace' /\ ReadByOne'
      BY <2>2, <3>1 DEF JobInPlace, ReadByOne
    <3>3. BuriedOnce' /\ FreshInv' /\ NoMatchLeft' /\ RecordInv'
      BY <3>1 DEF IndInv, BuriedOnce, FreshInv, NoMatchLeft, RecordInv
    <3>. QED BY <3>2, <3>3
  <2>. QED BY <2>1, <2>2
<1>7. ClosedHoldsNothing'
  BY <1>3, <1>5 DEF ConnInv, ClosedHoldsNothing, ClosedEmpty, ClosedTick
<1>. QED BY <1>2, <1>3, <1>4, <1>6, <1>7 DEF IndInv, ConnInv, TickInv

\* The inductive invariant holds in every reachable state.
THEOREM Invariance == Spec => []IndInv
BY InitIndInv, StepIndInv, PTL DEF Spec

\* Every variable of the server has its type.
THEOREM TypeCorrect == Spec => []TypeOK
<1>1. IndInv => TypeOK
  BY DEF IndInv
<1>. QED BY <1>1, Invariance, PTL

\* A job is in exactly the queue its state names, as long as the server is defined.
THEOREM JobsInPlace == Spec => []JobInPlace
<1>1. IndInv => JobInPlace
  BY DEF IndInv
<1>. QED BY <1>1, Invariance, PTL

\* No job is twice on a buried list.
THEOREM JobsBuriedOnce == Spec => []BuriedOnce
<1>1. IndInv => BuriedOnce
  BY DEF IndInv
<1>. QED BY <1>1, Invariance, PTL

\* A body that is read belongs to one connection.
THEOREM BodiesReadByOne == Spec => []ReadByOne
<1>1. IndInv => ReadByOne
  BY DEF IndInv
<1>. QED BY <1>1, Invariance, PTL

\* process_queue leaves no ready job and waiting connection unmatched.
THEOREM MatchesMade == Spec => []NoMatchLeft
<1>1. IndInv => NoMatchLeft
  BY DEF IndInv
<1>. QED BY <1>1, Invariance, PTL

\* The waiting sets hold the waiting connections and nobody else.
THEOREM WaitersInPlace == Spec => []WaitingInPlace
<1>1. IndInv => WaitingInPlace
  BY DEF IndInv
<1>. QED BY <1>1, Invariance, PTL

\* What is written to a client is its own copy or a job it holds.
THEOREM SentJobsHeld == Spec => []SentJobIsHeld
<1>1. IndInv => SentJobIsHeld
  BY DEF IndInv
<1>. QED BY <1>1, Invariance, PTL

\* A connection that is gone has left nothing behind in a server that is defined.
THEOREM ClosedClean == Spec => []ClosedHoldsNothing
<1>1. IndInv => ClosedHoldsNothing
  BY DEF IndInv
<1>. QED BY <1>1, Invariance, PTL

\* A waiting client that is to be woken has its tick in srv->conns, unless a
\* heap_remove has displaced somebody or memory may run out.
THEOREM WaitersHaveTicks == Spec => []WaitersTick
<1>1. IndInv => WaitersTick
  BY DEF IndInv
<1>. QED BY <1>1, Invariance, PTL

\* What a step may do to the reservations of c.
RightfulEnd(c) ==
  reserved_jobs'[c] \subseteq reserved_jobs[c] /\ reserved_jobs'[c] # reserved_jobs[c] =>
    \/ call = NoCall /\ state[c] = "wantcommand"
    \/ call.op \in {"timeout", "close"} /\ call.conn = c

\* A list of reservations shrinks only by a step of its holder, of its timeout or
\* of its end.
LEMMA RightfulStep ==
  ASSUME TypeOK, [Next]_vars, NEW c \in Conns
  PROVE  RightfulEnd(c)
<1>1. ASSUME NEW d \in Conns, NEW j \in Jobs, Deliver(j, d)  PROVE RightfulEnd(c)
  <2>1. reserved_jobs[c] \subseteq reserved_jobs'[c]
    BY <1>1 DEF Deliver, TypeOK
  <2>. QED BY <2>1 DEF RightfulEnd
<1>2. ASSUME NEW d \in Conns, NEW j, RemoveReserved(d, j),
             \/ call = NoCall /\ state[d] = "wantcommand"
             \/ call.op \in {"timeout", "close"} /\ call.conn = d
      PROVE  RightfulEnd(c)
  BY <1>2 DEF RemoveReserved, RightfulEnd, TypeOK
<1>3. ASSUME reserved_jobs' = reserved_jobs  PROVE RightfulEnd(c)
  BY <1>3 DEF RightfulEnd
<1>4. ASSUME NEW d \in Conns, NEW j \in Jobs, CloseRequeue(d, j) \/ TimeoutExpire(d, j)
      PROVE  RightfulEnd(c)
  BY <1>2, <1>4 DEF CloseRequeue, TimeoutExpire, Closing, TimingOut, Running
<1>5. ASSUME NEW d \in Conns, NEW j \in Jobs, Delete(d, j)  PROVE RightfulEnd(c)
  BY <1>2, <1>3, <1>5 DEF Delete, Commanding, Idle
<1>6. ASSUME NEW d \in Conns, NEW j \in Jobs, NEW p \in Pris,
             Bury(d, j, p) \/ \E delayed \in BOOLEAN : Release(d, j, p, delayed)
      PROVE  RightfulEnd(c)
  BY <1>2, <1>6 DEF Bury, Release, Commanding, Idle
<1>7. CASE \/ KickBuried \/ KickBuriedNone \/ KickBuriedFails
           \/ \E j \in Jobs : KickDelayed(j)
           \/ KickDelayedFails \/ KickEnds \/ ProcessQueueReturns
  BY <1>3, <1>7
  DEF KickBuried, KickBuriedNone, KickBuriedFails, KickDelayed, KickDelayedFails, KickEnds,
      ProcessQueueReturns, jobVars
<1>8. ASSUME NEW d \in Conns, CloseEnds(d) \/ TimeoutEnds(d) \/ Input(d)  PROVE RightfulEnd(c)
  BY <1>3, <1>8
  DEF CloseEnds, TimeoutEnds, Input, Accept, Close, ReplySent, BucketFull, PutBody, PutBodyRefused,
      ReplyOnly, jobVars
<1>9. ASSUME NEW d \in Conns, NEW j \in Jobs,
             PeekJob(d, j) \/ PeekReady(d, j) \/ PeekDelayed(d, j) \/ PeekBuried(d, j)
      PROVE  RightfulEnd(c)
  BY <1>3, <1>9 DEF PeekJob, PeekReady, PeekDelayed, PeekBuried, ReplyCopy, jobVars
<1>10. ASSUME NEW d \in Conns,
              \/ \E p \in Pris : Put(d, p)
              \/ \E timeout \in BOOLEAN : Reserve(d, timeout)
              \/ \E t \in Tubes : Use(d, t) \/ Watch(d, t) \/ Ignore(d, t) \/ PauseTube(d, t)
              \/ \E n \in KickBounds : Kick(d, n)
              \/ PutSkipped(d) \/ ReserveDeadlineSoon(d) \/ Stats(d) \/ Answer(d)
       PROVE  RightfulEnd(c)
  BY <1>3, <1>10
  DEF Put, Reserve, Use, Watch, Ignore, PauseTube, Kick, PutSkipped, ReserveDeadlineSoon, Stats,
      Answer, ReplyOnly, ReplyCopy, jobVars
<1>11. CASE Cron
  BY <1>3, <1>11 DEF Cron, CronDelay, CronPause, CronTimeout, Timeout, jobVars
<1>12. CASE UNCHANGED vars
  BY <1>3, <1>12 DEF vars, jobVars
<1>. QED BY <1>1, <1>4, <1>5, <1>6, <1>7, <1>8, <1>9, <1>10, <1>11, <1>12
         DEF Next, Continue, Command, Dead

\* A reservation is ended by its holder, its deadline or the end of its holder.
THEOREM ReservationsRespected == Spec => OnlyHolderOrTimeoutEndsReservation
<1>1. TypeOK /\ [Next]_vars => [\A c \in Conns : RightfulEnd(c)]_vars
  BY RightfulStep
<1>2. Spec => [][\A c \in Conns : RightfulEnd(c)]_vars
  BY <1>1, TypeCorrect, PTL DEF Spec
<1>. QED BY <1>2 DEF RightfulEnd, OnlyHolderOrTimeoutEndsReservation

\* The job that c gets is the most urgent one c could have got.
MostUrgent(c) ==
  \A j \in Jobs : j \in reserved_jobs'[c] \ reserved_jobs[c] =>
    \A t \in watch[c] : ~ pause[t] =>
      \A k \in ready_jobs[t] \ {j} : pri[j] < pri[k] \/ (pri[j] = pri[k] /\ j < k)

\* Jobs are reserved by deliveries only, and a delivery takes the least of the
\* ready jobs of all tubes that have a waiting connection, so of all the tubes
\* the receiver watches.
LEMMA UrgentStep ==
  ASSUME TypeOK, WaitingInPlace, [Next]_vars, NEW c \in Conns
  PROVE  MostUrgent(c)
<1>1. ASSUME NEW d \in Conns, NEW j \in Jobs, Deliver(j, d)  PROVE MostUrgent(c)
  <2>1. \A i \in Jobs : i \in reserved_jobs'[c] \ reserved_jobs[c] => c = d /\ i = j
    BY <1>1 DEF Deliver, TypeOK
  <2>2. tube[j] \in Tubes /\ d \in waiting_conns[tube[j]]
    BY <1>1 DEF Deliver, TypeOK
  <2>3. \A t \in watch[d] : t \in Tubes /\ d \in waiting_conns[t]
    BY <2>2 DEF WaitingInPlace, TypeOK
  <2>4. \A t \in watch[d] : ~ pause[t] => ready_jobs[t] \subseteq Eligible
    BY <2>3 DEF Eligible
  <2>5. \A k \in Eligible \ {j} : JobPriLess(j, k)
    BY <1>1 DEF Deliver, IsNext
  <2>. QED BY <2>1, <2>4, <2>5 DEF MostUrgent, JobPriLess
<1>2. ASSUME reserved_jobs'[c] \subseteq reserved_jobs[c]  PROVE MostUrgent(c)
  BY <1>2 DEF MostUrgent
<1>3. ASSUME NEW d, NEW j, RemoveReserved(d, j)  PROVE MostUrgent(c)
  <2>1. reserved_jobs'[c] \subseteq reserved_jobs[c]
    BY <1>3 DEF RemoveReserved, TypeOK
  <2>. QED BY <1>2, <2>1
<1>4. ASSUME NEW d \in Conns, NEW j \in Jobs,
             CloseRequeue(d, j) \/ TimeoutExpire(d, j) \/ Delete(d, j)
      PROVE  MostUrgent(c)
  BY <1>2, <1>3, <1>4 DEF CloseRequeue, TimeoutExpire, Delete
<1>5. ASSUME NEW d \in Conns, NEW j \in Jobs, NEW p \in Pris,
             Bury(d, j, p) \/ \E delayed \in BOOLEAN : Release(d, j, p, delayed)
      PROVE  MostUrgent(c)
  BY <1>3, <1>5 DEF Bury, Release
<1>6. CASE \/ KickBuried \/ KickBuriedNone \/ KickBuriedFails
           \/ \E j \in Jobs : KickDelayed(j)
           \/ KickDelayedFails \/ KickEnds \/ ProcessQueueReturns
  BY <1>2, <1>6
  DEF KickBuried, KickBuriedNone, KickBuriedFails, KickDelayed, KickDelayedFails, KickEnds,
      ProcessQueueReturns, jobVars
<1>7. ASSUME NEW d \in Conns, CloseEnds(d) \/ TimeoutEnds(d) \/ Input(d)  PROVE MostUrgent(c)
  BY <1>2, <1>7
  DEF CloseEnds, TimeoutEnds, Input, Accept, Close, ReplySent, BucketFull, PutBody, PutBodyRefused,
      ReplyOnly, jobVars
<1>8. ASSUME NEW d \in Conns, NEW j \in Jobs,
             PeekJob(d, j) \/ PeekReady(d, j) \/ PeekDelayed(d, j) \/ PeekBuried(d, j)
      PROVE  MostUrgent(c)
  BY <1>2, <1>8 DEF PeekJob, PeekReady, PeekDelayed, PeekBuried, ReplyCopy, jobVars
<1>9. ASSUME NEW d \in Conns,
             \/ \E p \in Pris : Put(d, p)
             \/ \E timeout \in BOOLEAN : Reserve(d, timeout)
             \/ \E t \in Tubes : Use(d, t) \/ Watch(d, t) \/ Ignore(d, t) \/ PauseTube(d, t)
             \/ \E n \in KickBounds : Kick(d, n)
             \/ PutSkipped(d) \/ ReserveDeadlineSoon(d) \/ Stats(d) \/ Answer(d)
      PROVE  MostUrgent(c)
  BY <1>2, <1>9
  DEF Put, Reserve, Use, Watch, Ignore, PauseTube, Kick, PutSkipped, ReserveDeadlineSoon, Stats,
      Answer, ReplyOnly, ReplyCopy, jobVars
<1>10. CASE Cron
  BY <1>2, <1>10 DEF Cron, CronDelay, CronPause, CronTimeout, Timeout, jobVars
<1>11. CASE UNCHANGED vars
  BY <1>2, <1>11 DEF vars, jobVars
<1>. QED BY <1>1, <1>4, <1>5, <1>6, <1>7, <1>8, <1>9, <1>10, <1>11
         DEF Next, Continue, Command, Dead

\* A client gets the most urgent ready job of the tubes it watches.
THEOREM UrgentFirst == Spec => ServesMostUrgent
<1>. DEFINE Urgent ==
       \A c \in Conns, j \in Jobs : j \in reserved_jobs'[c] \ reserved_jobs[c] =>
         \A t \in watch[c] : ~ pause[t] =>
           \A k \in ready_jobs[t] \ {j} : pri[j] < pri[k] \/ (pri[j] = pri[k] /\ j < k)
<1>1. TypeOK /\ WaitingInPlace /\ [Next]_vars => [Urgent]_vars
  BY UrgentStep DEF MostUrgent
<1>2. Spec => [][Urgent]_vars
  BY <1>1, TypeCorrect, WaitersInPlace, PTL DEF Spec
<1>. QED BY <1>2 DEF ServesMostUrgent

\* What a step may do to the wait of c.
Answered(c) ==
  waiting[c] /\ ~ waiting'[c] =>
    \/ state'[c] = "sendjob" /\ out_job'[c] \in reserved_jobs'[c] \ reserved_jobs[c]
    \/ state'[c] = "sendword"
    \/ call'.op = "close" /\ call'.conn = c

\* conn_remove_waiting is called by process_queue, which hands out a job that is
\* on no list of reservations, by conn_timeout, which replies, and by conn_free.
LEMMA AnsweredStep ==
  ASSUME TypeOK, JobInPlace, [Next]_vars, NEW c \in Conns
  PROVE  Answered(c)
<1>1. ASSUME NEW d \in Conns, NEW taken, RemoveWaiting(d, taken), waiting[c], ~ waiting'[c]
      PROVE  c = d
  BY <1>1 DEF RemoveWaiting, TypeOK
<1>2. ASSUME NEW d \in Conns, NEW j \in Jobs, Deliver(j, d)  PROVE Answered(c)
  <2>1. SUFFICES ASSUME c = d  PROVE Answered(c)
    BY <1>1, <1>2 DEF Deliver, Answered
  <2>2. state'[c] = "sendjob" /\ out_job'[c] = j /\ j \in reserved_jobs'[c]
    BY <1>2, <2>1 DEF Deliver, TypeOK
  <2>3. j \notin reserved_jobs[c]
    BY <1>2 DEF Deliver, IsNext, Eligible, JobInPlace, InPlace, ReadyInPlace, ReservedInPlace
  <2>. QED BY <2>2, <2>3 DEF Answered
<1>3. ASSUME waiting' = waiting  PROVE Answered(c)
  BY <1>3 DEF Answered
<1>4. ASSUME NEW d \in Conns, TimeoutEnds(d)  PROVE Answered(c)
  <2>1. CASE UNCHANGED waitVars
    BY <1>3, <2>1 DEF waitVars
  <2>2. CASE RemoveWaiting(d, {}) /\ Reply(d)
    <3>1. state'[d] = "sendword"
      BY <2>2 DEF Reply, TypeOK
    <3>. QED BY <1>1, <2>2, <3>1 DEF Answered
  <2>. QED BY <1>4, <2>1, <2>2 DEF TimeoutEnds
<1>5. ASSUME NEW d \in Conns, Close(d)  PROVE Answered(c)
  <2>1. call'.op = "close" /\ call'.conn = d /\ RemoveWaiting(d, {})
    BY <1>5 DEF Close, Call, NoCall
  <2>. QED BY <1>1, <2>1 DEF Answered
<1>6. ASSUME NEW d \in Conns, NEW timeout \in BOOLEAN, Reserve(d, timeout)  PROVE Answered(c)
  BY <1>6 DEF Reserve, Answered, TypeOK
<1>7. ASSUME NEW d \in Conns, NEW j \in Jobs,
             \/ CloseRequeue(d, j) \/ TimeoutExpire(d, j) \/ Delete(d, j)
             \/ PeekJob(d, j) \/ PeekReady(d, j) \/ PeekDelayed(d, j) \/ PeekBuried(d, j)
             \/ \E p \in Pris : Bury(d, j, p) \/ \E delayed \in BOOLEAN : Release(d, j, p, delayed)
      PROVE  Answered(c)
  BY <1>3, <1>7
  DEF CloseRequeue, TimeoutExpire, Delete, PeekJob, PeekReady, PeekDelayed, PeekBuried, ReplyCopy,
      Bury, Release, waitVars
<1>8. CASE \/ KickBuried \/ KickBuriedNone \/ KickBuriedFails
           \/ \E j \in Jobs : KickDelayed(j)
           \/ KickDelayedFails \/ KickEnds \/ ProcessQueueReturns
  BY <1>3, <1>8
  DEF KickBuried, KickBuriedNone, KickBuriedFails, KickDelayed, KickDelayedFails, KickEnds,
      ProcessQueueReturns, waitVars
<1>9. ASSUME NEW d \in Conns,
             \/ CloseEnds(d) \/ Accept(d) \/ ReplySent(d) \/ BucketFull(d) \/ PutBodyRefused(d)
             \/ \E delayed \in BOOLEAN : PutBody(d, delayed)
      PROVE  Answered(c)
  BY <1>3, <1>9
  DEF CloseEnds, Accept, ReplySent, BucketFull, PutBody, PutBodyRefused, ReplyOnly, waitVars
<1>10. ASSUME NEW d \in Conns,
              \/ \E p \in Pris : Put(d, p)
              \/ \E t \in Tubes : Use(d, t) \/ Watch(d, t) \/ Ignore(d, t) \/ PauseTube(d, t)
              \/ \E n \in KickBounds : Kick(d, n)
              \/ PutSkipped(d) \/ ReserveDeadlineSoon(d) \/ Stats(d) \/ Answer(d)
       PROVE  Answered(c)
  BY <1>3, <1>10
  DEF Put, Use, Watch, Ignore, PauseTube, Kick, PutSkipped, ReserveDeadlineSoon, Stats, Answer,
      ReplyOnly, ReplyCopy, waitVars
<1>11. CASE Cron
  BY <1>3, <1>11 DEF Cron, CronDelay, CronPause, CronTimeout, Timeout, waitVars
<1>12. CASE UNCHANGED vars
  BY <1>3, <1>12 DEF vars, waitVars
<1>. QED BY <1>2, <1>4, <1>5, <1>6, <1>7, <1>8, <1>9, <1>10, <1>11, <1>12
         DEF Next, Continue, Input, Command, Dead

\* No client is taken off the waiting sets without a job, a reply or its end.
THEOREM WaitsAnswered == Spec => WaitEndsInAnswer
<1>1. TypeOK /\ JobInPlace /\ [Next]_vars => [\A c \in Conns : Answered(c)]_vars
  BY AnsweredStep
<1>2. Spec => [][\A c \in Conns : Answered(c)]_vars
  BY <1>1, TypeCorrect, JobsInPlace, PTL DEF Spec
<1>. QED BY <1>2 DEF Answered, WaitEndsInAnswer

(* Each step of the server is one step of JobLifecycle, or shows nothing of it.     *)

\* A step of the life cycle, or one that does not show.
Shows == [Lifecycle!Next]_(Lifecycle!lcVars)

\* The variables of JobLifecycle, as Lifecycle sees them.
Phases    == [j \in Jobs |-> Phase(j)]
Homes     == [j \in Jobs |-> IF There(j) THEN tube[j] ELSE NoConn]
Urgencies == [j \in Jobs |-> IF There(j) THEN pri[j] ELSE 0]
Present   == {c \in Conns : state[c] # "closed"}

\* What the steps below rely on.
RefineInv == TypeOK /\ FreshInv /\ RecordInv

\* A server that is defined.
Alive == IndInv /\ health = "ok"

(* What shows of the job records.                                           *)

\* The phase of a job whose id is handed out is read off its state.
LEMMA PhaseOfState ==
  ASSUME RefineInv, NEW j \in Jobs
  PROVE  /\ job_state[j] \notin {"none", "invalid"} => Phase(j) = job_state[j] /\ There(j)
         /\ job_state[j] = "invalid" => Phase(j) = "unborn" /\ ~ There(j)
         /\ job_state[j] = "none" => ~ There(j)
         /\ j < next_job_id /\ job_state[j] = "none" => Phase(j) = "gone"
         /\ job_state[j] # "none" => j < next_job_id
<1>1. next_job_id \in Nat /\ j \in Nat
  BY BoundsAssumption DEF RefineInv, TypeOK, Jobs
<1>2. j >= next_job_id <=> ~ (j < next_job_id)
  BY <1>1
<1>3. job_state[j] # "none" => ~ (j >= next_job_id)
  BY DEF RefineInv, FreshInv
<1>4. CASE job_state[j] \notin {"none", "invalid"}
  <2>1. job_state[j] \in JobStates
    BY DEF RefineInv, TypeOK
  <2>2. Phase(j) = job_state[j]
    BY <1>3, <1>4 DEF Phase
  <2>. QED BY <1>2, <1>3, <1>4, <2>1, <2>2 DEF There, JobStates
<1>5. CASE job_state[j] = "invalid"
  BY <1>2, <1>3, <1>5 DEF Phase, There
<1>6. CASE job_state[j] = "none"
  BY <1>2, <1>6 DEF Phase, There
<1>. QED BY <1>4, <1>5, <1>6

\* A job that moves from one state to another, both of which show.
LEMMA Moves ==
  ASSUME RefineInv, RefineInv', NEW j \in Jobs,
         NEW s \in {"ready", "delayed", "reserved", "buried", "lost"},
         job_state[j] \notin {"none", "invalid"},
         job_state' = [job_state EXCEPT ![j] = s], UNCHANGED <<tube, next_job_id>>
  PROVE  /\ Phases[j] = job_state[j] /\ There(j) /\ There(j)'
         /\ Phases' = [Phases EXCEPT ![j] = s] /\ Homes' = Homes
         /\ \A k \in Jobs : There(k)' <=> There(k)
<1>1. \A k \in Jobs : k # j => job_state'[k] = job_state[k]
  BY DEF RefineInv, TypeOK
<1>2. job_state'[j] = s
  BY DEF RefineInv, TypeOK
<1>3. Phase(j) = job_state[j] /\ There(j)
  BY PhaseOfState
<1>4. Phase(j)' = s /\ There(j)'
  <2>1. ~ (j >= next_job_id)'
    BY <1>2 DEF RefineInv, FreshInv
  <2>. QED BY <1>2, <2>1 DEF Phase, There
<1>5. \A k \in Jobs : k # j => Phase(k)' = Phase(k)
  BY <1>1 DEF Phase
<1>6. \A k \in Jobs : There(k)' <=> There(k)
  BY <1>3, <1>4, <1>5 DEF There
<1>7. Phases' = [Phases EXCEPT ![j] = s]
  BY <1>4, <1>5 DEF Phases
<1>8. Homes' = Homes
  BY <1>6 DEF Homes
<1>. QED BY <1>3, <1>4, <1>6, <1>7, <1>8 DEF Phases

\* A step that keeps the records of jobs and who is connected shows nothing.
LEMMA NothingShows ==
  ASSUME UNCHANGED <<health, job_state, next_job_id, tube, pri, reserver>>, Present' = Present
  PROVE  Shows
<1>1. UNCHANGED <<Phases, Homes, Urgencies>>
  BY DEF Phases, Homes, Urgencies, There, Phase
<1>. QED BY <1>1 DEF Shows, Lifecycle!lcVars, Phases, Homes, Urgencies, Present

(* The steps of the life cycle, by what they do to a job record.            *)

\* The steps of JobLifecycle in the words of this module.
LEMMA ShowsStep ==
  ASSUME health = "ok", health' = "ok"
  PROVE  /\ \A j \in Jobs, t \in Tubes, p \in Pris : Lifecycle!Put(j, t, p) => Shows
         /\ \A j \in Jobs, c \in Conns : Lifecycle!Reserve(j, c) => Shows
         /\ \A j \in Jobs, p \in Pris : Lifecycle!GiveBack(j, p) => Shows
         /\ \A j \in Jobs :
              Lifecycle!Wake(j) \/ Lifecycle!WakeFails(j) \/ Lifecycle!Vanish(j) => Shows
         /\ \A c \in Conns : Lifecycle!Arrive(c) \/ Lifecycle!Depart(c) => Shows
<1>1. health = "ok" /\ (health = "ok")' = (health = "ok")
  OBVIOUS
<1>2. Lifecycle!Promised => Shows
  BY <1>1 DEF Shows, Lifecycle!Next
<1>. QED BY <1>2 DEF Lifecycle!Promised

\* A reserved job goes back to a queue, or is lost, with the priority p.
LEMMA GiveBackShows ==
  ASSUME Alive, Alive', NEW j \in Jobs, NEW s \in {"ready", "delayed", "buried", "lost"},
         s = "lost" => AllocMayFail,
         NEW p \in Pris, job_state[j] = "reserved",
         job_state' = [job_state EXCEPT ![j] = s], reserver' = [reserver EXCEPT ![j] = NoConn],
         pri' = [pri EXCEPT ![j] = p], UNCHANGED <<tube, next_job_id>>, Present' = Present
  PROVE  Shows
<1>. RefineInv /\ RefineInv'
  BY DEF Alive, IndInv, RefineInv
<1>1. /\ Phases[j] = "reserved" /\ There(j)
      /\ Phases' = [Phases EXCEPT ![j] = s] /\ Homes' = Homes
      /\ \A k \in Jobs : There(k)' <=> There(k)
  BY Moves
<1>2. Urgencies' = [Urgencies EXCEPT ![j] = p]
  BY <1>1 DEF Urgencies, RefineInv, TypeOK
<1>3. s \in {"ready", "delayed", "buried"} \union Lifecycle!Losses
  BY DEF Lifecycle!Losses
<1>4. Lifecycle!GiveBack(j, p)
  BY <1>1, <1>2, <1>3 DEF Lifecycle!GiveBack, Phases, Homes, Urgencies, Present
<1>. QED BY <1>4, ShowsStep DEF Alive

\* A buried or delayed job is made ready, or for want of memory buried or lost.
LEMMA WakeShows ==
  ASSUME Alive, Alive', NEW j \in Jobs, NEW s \in {"ready", "buried", "lost"},
         job_state[j] \in {"buried", "delayed"}, s # "ready" => AllocMayFail,
         job_state' = [job_state EXCEPT ![j] = s], reserver' = [reserver EXCEPT ![j] = NoConn],
         UNCHANGED <<pri, tube, next_job_id>>, Present' = Present
  PROVE  Shows
<1>. RefineInv /\ RefineInv'
  BY DEF Alive, IndInv, RefineInv
<1>1. /\ Phases[j] = job_state[j]
      /\ Phases' = [Phases EXCEPT ![j] = s] /\ Homes' = Homes
      /\ \A k \in Jobs : There(k)' <=> There(k)
  BY Moves
<1>2. reserver' = reserver
  BY DEF RefineInv, RecordInv, TypeOK
<1>3. Urgencies' = Urgencies
  BY <1>1 DEF Urgencies
<1>4. Lifecycle!Wake(j) \/ Lifecycle!WakeFails(j)
  BY <1>1, <1>2, <1>3
  DEF Lifecycle!Wake, Lifecycle!WakeFails, Phases, Homes, Urgencies, Present
<1>. QED BY <1>4, ShowsStep DEF Alive

\* A job whose body is complete is put.
LEMMA PutShows ==
  ASSUME Alive, Alive', NEW j \in Jobs, NEW s \in {"ready", "delayed"},
         job_state[j] = "invalid",
         job_state' = [job_state EXCEPT ![j] = s], reserver' = [reserver EXCEPT ![j] = NoConn],
         UNCHANGED <<pri, tube, next_job_id>>, Present' = Present
  PROVE  Shows
<1>. RefineInv /\ RefineInv'
  BY DEF Alive, IndInv, RefineInv
<1>1. Phase(j) = "unborn" /\ ~ There(j)
  BY PhaseOfState
<1>2. job_state'[j] = s /\ ~ (j >= next_job_id)'
  BY DEF RefineInv, FreshInv, TypeOK
<1>3. Phase(j)' = s /\ There(j)'
  BY <1>2 DEF Phase, There
<1>4. \A k \in Jobs : k # j => Phase(k)' = Phase(k) /\ (There(k)' <=> There(k))
  BY DEF Phase, There, RefineInv, TypeOK
<1>5. reserver' = reserver /\ tube[j] \in Tubes /\ pri[j] \in Pris
  BY DEF RefineInv, RecordInv, TypeOK
<1>6. /\ Phases[j] = "unborn"
      /\ Phases' = [Phases EXCEPT ![j] = s]
      /\ Homes' = [Homes EXCEPT ![j] = tube[j]]
      /\ Urgencies' = [Urgencies EXCEPT ![j] = pri[j]]
  BY <1>1, <1>3, <1>4 DEF Phases, Homes, Urgencies
<1>7. PICK t \in Tubes, p \in Pris : t = tube[j] /\ p = pri[j]
  BY <1>5
<1>8. Lifecycle!Put(j, t, p)
  BY <1>5, <1>6, <1>7 DEF Lifecycle!Put, Phases, Homes, Urgencies, Present
<1>. QED BY <1>8, ShowsStep DEF Alive

\* A job that was deleted or refused is gone.
LEMMA VanishShows ==
  ASSUME Alive, Alive', NEW j \in Jobs, FreeJob(j),
         job_state[j] \in {"invalid", "ready", "reserved", "buried"},
         \/ reserver' = [reserver EXCEPT ![j] = NoConn]
         \/ reserver' = reserver /\ job_state[j] = "invalid",
         UNCHANGED <<tube, next_job_id>>, Present' = Present
  PROVE  Shows
<1>. RefineInv /\ RefineInv'
  BY DEF Alive, IndInv, RefineInv
<1>1. Phase(j) \in {"unborn", "ready", "reserved", "buried"} /\ ~ (j >= next_job_id)
  BY PhaseOfState DEF RefineInv, FreshInv
<1>2. job_state'[j] = "none"
  BY DEF FreeJob, RefineInv, TypeOK
<1>3. Phase(j)' = "gone" /\ ~ There(j)'
  BY <1>1, <1>2 DEF Phase, There
<1>4. \A k \in Jobs : k # j => job_state'[k] = job_state[k] /\ pri'[k] = pri[k]
  BY DEF FreeJob, RefineInv, TypeOK
<1>5. \A k \in Jobs : k # j => Phase(k)' = Phase(k) /\ (There(k)' <=> There(k))
  BY <1>4 DEF Phase, There
<1>6. reserver' = [reserver EXCEPT ![j] = NoConn]
  BY DEF RefineInv, RecordInv, TypeOK
<1>7. /\ Phases[j] \in {"unborn", "ready", "reserved", "buried"}
      /\ Phases' = [Phases EXCEPT ![j] = "gone"]
      /\ Homes' = [Homes EXCEPT ![j] = NoConn]
      /\ Urgencies' = [Urgencies EXCEPT ![j] = 0]
  BY <1>1, <1>3, <1>4, <1>5 DEF Phases, Homes, Urgencies
<1>8. Lifecycle!Vanish(j)
  BY <1>6, <1>7 DEF Lifecycle!Vanish, Phases, Homes, Urgencies, Present
<1>. QED BY <1>8, ShowsStep DEF Alive

\* A lost job is deleted, and the job k that was buried first is lost in its turn.
LEMMA VanishTwoShows ==
  ASSUME Alive, Alive', NEW j \in Jobs, NEW k \in Jobs, job_state[j] = "lost",
         job_state[k] = "buried", tube[k] = tube[j],
         job_state' = [job_state EXCEPT ![k] = "lost", ![j] = "none"],
         pri' = [pri EXCEPT ![j] = 0], reserver' = [reserver EXCEPT ![j] = NoConn],
         UNCHANGED <<tube, next_job_id>>, Present' = Present
  PROVE  Shows
<1>. RefineInv /\ RefineInv'
  BY DEF Alive, IndInv, RefineInv
<1>1. /\ Phase(j) = "lost" /\ There(j) /\ Phase(k) = "buried" /\ There(k) /\ j # k
      /\ ~ (j >= next_job_id) /\ ~ (k >= next_job_id)
  BY PhaseOfState DEF RefineInv, FreshInv
<1>2. job_state'[j] = "none" /\ job_state'[k] = "lost"
  BY <1>1 DEF RefineInv, TypeOK
<1>3. Phase(j)' = "gone" /\ ~ There(j)' /\ Phase(k)' = "lost" /\ There(k)'
  BY <1>1, <1>2 DEF Phase, There
<1>4. \A i \in Jobs : i # j => pri'[i] = pri[i] /\ (i # k => job_state'[i] = job_state[i])
  BY DEF RefineInv, TypeOK
<1>5. \A i \in Jobs : i # j => (There(i)' <=> There(i))
  BY <1>1, <1>3, <1>4 DEF Phase, There
<1>6. \A i \in Jobs : i # j /\ i # k => Phase(i)' = Phase(i)
  BY <1>4 DEF Phase
<1>7. /\ Phases[j] = "lost" /\ Phases[k] = "buried" /\ Homes[k] = Homes[j]
      /\ Phases' = [Phases EXCEPT ![j] = "gone", ![k] = "lost"]
  <2>1. Phases[j] = "lost" /\ Phases[k] = "buried" /\ Homes[k] = Homes[j]
    BY <1>1 DEF Phases, Homes
  <2>2. \A i \in Jobs : Phase(i)' = IF i = j THEN "gone" ELSE IF i = k THEN "lost" ELSE Phase(i)
    BY <1>1, <1>3, <1>6
  <2>. QED BY <1>1, <2>1, <2>2 DEF Phases
<1>8. Homes' = [Homes EXCEPT ![j] = NoConn] /\ Urgencies' = [Urgencies EXCEPT ![j] = 0]
  BY <1>3, <1>4, <1>5 DEF Homes, Urgencies
<1>9. Lifecycle!Vanish(j)
  BY <1>7, <1>8 DEF Lifecycle!Vanish, Phases, Homes, Urgencies, Present
<1>. QED BY <1>9, ShowsStep DEF Alive

\* The reply to a client that is there changes nothing in who is there.
LEMMA StillPresent ==
  ASSUME TypeOK, NEW c \in Conns, state[c] # "closed", NEW s, s # "closed",
         state' = [state EXCEPT ![c] = s]
  PROVE  Present' = Present
BY DEF Present, TypeOK

(* The steps of the server.                                                 *)

\* A delivery reserves the first ready job of a tube for a client that waits.
LEMMA DeliverShows ==
  ASSUME Alive, Alive', NEW j \in Jobs, NEW c \in Conns, Deliver(j, c)
  PROVE  Shows
<1>. RefineInv /\ RefineInv'
  BY DEF Alive, IndInv, RefineInv
<1>1. job_state[j] = "ready" /\ j \in Eligible
  BY DEF Deliver, IsNext, Eligible, Alive, IndInv, JobInPlace, InPlace, ReadyInPlace
<1>2. state[c] = "wait" /\ tube[j] \in Tubes
  BY DEF Deliver, Alive, IndInv, WaitingInPlace, StateInv, TypeOK
<1>3. Present' = Present /\ c \in Present
  BY <1>2, StillPresent DEF Deliver, Present, Alive, IndInv
<1>4. /\ Phases[j] = "ready" /\ There(j)
      /\ Phases' = [Phases EXCEPT ![j] = "reserved"] /\ Homes' = Homes
      /\ \A k \in Jobs : There(k)' <=> There(k)
  BY <1>1, Moves DEF Deliver
<1>5. Urgencies' = Urgencies
  BY <1>4 DEF Deliver, Urgencies
<1>6. ASSUME NEW k \in Jobs \ {j}, Phases[k] = "ready", Homes[k] = Homes[j]
      PROVE  Urgencies[j] < Urgencies[k] \/ (Urgencies[j] = Urgencies[k] /\ j < k)
  <2>1. There(k) /\ job_state[k] = "ready"
    BY <1>6 DEF Phases, Phase, There
  <2>2. tube[k] = tube[j]
    BY <1>4, <1>6, <2>1 DEF Homes
  <2>3. \A i \in Jobs : i \in ready_jobs[tube[j]] <=> job_state[i] = "ready" /\ tube[i] = tube[j]
    BY <1>2 DEF Alive, IndInv, JobInPlace, InPlace, ReadyInPlace
  <2>4. PICK u \in Tubes : ~ pause[u] /\ waiting_conns[u] # {} /\ j \in ready_jobs[u]
    BY <1>1 DEF Eligible
  <2>5. u = tube[j]
    BY <2>4 DEF Alive, IndInv, JobInPlace, InPlace, ReadyInPlace
  <2>6. k \in Eligible
    BY <2>1, <2>2, <2>3, <2>4, <2>5 DEF Eligible
  <2>7. JobPriLess(j, k)
    BY <1>6, <2>6 DEF Deliver, IsNext
  <2>. QED BY <1>4, <2>1, <2>7 DEF JobPriLess, Urgencies
<1>7. reserver' = [reserver EXCEPT ![j] = c]
  BY DEF Deliver
<1>8. Lifecycle!Reserve(j, c)
  BY <1>3, <1>4, <1>5, <1>6, <1>7
  DEF Lifecycle!Reserve, Lifecycle!Before, Phases, Homes, Urgencies, Present
<1>. QED BY <1>8, ShowsStep DEF Alive

\* A job that its holder releases, buries, or loses goes back.
LEMMA GivingBackShows ==
  ASSUME Alive, Alive', NEW j \in Jobs, NEW c \in Conns,
         \/ CloseRequeue(c, j) \/ TimeoutExpire(c, j)
         \/ \E p \in Pris : Bury(c, j, p) \/ \E d \in BOOLEAN : Release(c, j, p, d)
  PROVE  Shows
<1>. RefineInv /\ RefineInv'
  BY DEF Alive, IndInv, RefineInv
<1>1. job_state[j] = "reserved"
  BY DEF CloseRequeue, TimeoutExpire, TimingOut, Running, Bury, Release, HoldsJob, Alive, IndInv,
         CallInv, JobInPlace, InPlace, ReservedInPlace
<1>2. pri[j] \in Pris /\ pri = [pri EXCEPT ![j] = pri[j]]
  BY <1>1 DEF Alive, IndInv, RecordInv, TypeOK
<1>3. \E p \in Pris : pri' = [pri EXCEPT ![j] = p]
  <2>1. CASE CloseRequeue(c, j) \/ TimeoutExpire(c, j)
    BY <1>1, <1>2, <2>1 DEF CloseRequeue, TimeoutExpire
  <2>2. CASE \E p \in Pris : Bury(c, j, p) \/ \E d \in BOOLEAN : Release(c, j, p, d)
    BY <2>2 DEF Bury, Release
  <2>. QED BY <2>1, <2>2
<1>4. \E s \in {"ready", "delayed", "buried", "lost"} :
        job_state' = [job_state EXCEPT ![j] = s] /\ (s = "lost" => AllocMayFail)
  BY DEF Allocations, CloseRequeue, TimeoutExpire, Bury, Release, EnqueueOrBury, EnqueueJob,
         EnqueueReady, EnqueueDelayed, BuryJob
<1>5. reserver' = [reserver EXCEPT ![j] = NoConn]
  BY DEF CloseRequeue, TimeoutExpire, Bury, Release, EnqueueOrBury, EnqueueJob, EnqueueReady,
         EnqueueDelayed, BuryJob
<1>6. UNCHANGED <<tube, next_job_id>>
  BY DEF CloseRequeue, TimeoutExpire, Bury, Release
<1>7. Present' = Present
  <2>1. CASE \E p \in Pris : Bury(c, j, p)
    BY <2>1, StillPresent DEF Bury, Commanding, Reply, Alive, IndInv
  <2>2. CASE state' = state
    BY <2>2 DEF Present
  <2>. QED BY <2>1, <2>2 DEF CloseRequeue, TimeoutExpire, Release
<1>. QED BY <1>1, <1>3, <1>4, <1>5, <1>6, <1>7, GiveBackShows

\* A job is kicked, or its delay ends.
LEMMA WakingShows ==
  ASSUME Alive, Alive', NEW j \in Jobs, KickDelayed(j) \/ CronDelay(j)
  PROVE  Shows
<1>. RefineInv /\ RefineInv'
  BY DEF Alive, IndInv, RefineInv
<1>1. job_state[j] = "delayed"
  <2>1. KickDelayed(j) => KickedTube \in Tubes
    BY DEF KickDelayed, KickGoesOn, Running, KickedTube, Alive, IndInv, CallInv, TypeOK
  <2>2. tube[j] \in Tubes
    BY DEF Alive, IndInv, TypeOK
  <2>. QED BY <2>1, <2>2
           DEF KickDelayed, CronDelay, MayBeDue, Alive, IndInv, JobInPlace, InPlace, DelayedInPlace
<1>2. FALSE \in Allocations => AllocMayFail
  BY DEF Allocations
<1>3. \/ EnqueueReady(j)
      \/ BuryJob(j, buried_jobs) /\ AllocMayFail
  BY <1>2 DEF KickDelayed, CronDelay, EnqueueOrBury
<1>4. UNCHANGED <<pri, tube, next_job_id>> /\ Present' = Present
  BY DEF KickDelayed, CronDelay, Present
<1>. QED BY <1>1, <1>2, <1>3, <1>4, WakeShows DEF EnqueueReady, BuryJob

\* kick takes the head of a buried list.
LEMMA KickBuriedShows ==
  ASSUME Alive, Alive', KickBuried \/ KickBuriedFails
  PROVE  Shows
<1>. RefineInv /\ RefineInv' /\ QueueInv
  BY DEF Alive, IndInv, RefineInv, QueueInv, JobInPlace
<1>. DEFINE j == Head(buried_jobs[KickedTube])
<1>1. KickedTube \in Tubes /\ buried_jobs[KickedTube] # <<>>
  BY DEF KickBuried, KickBuriedFails, KickGoesOn, Running, KickedTube, Alive, IndInv, CallInv,
         TypeOK
<1>2. j \in Jobs /\ job_state[j] = "buried"
  BY <1>1, TakeBuried
<1>3. EnqueueReady(j) \/ (BuryJob(j, PopBuried(KickedTube)) /\ AllocMayFail)
  BY DEF KickBuried, KickBuriedFails, Allocations
<1>4. UNCHANGED <<pri, tube, next_job_id>> /\ Present' = Present
  BY DEF KickBuried, KickBuriedFails, Present
<1>. HIDE DEF j
<1>. QED BY <1>2, <1>3, <1>4, WakeShows DEF EnqueueReady, BuryJob

\* A job that a connection reads is unborn.
LEMMA ReadIsInvalid ==
  ASSUME Alive, Alive', NEW c \in Conns, in_job[c] # NoJob
  PROVE  in_job[c] \in Jobs /\ job_state[in_job[c]] = "invalid"
BY DEF Alive, IndInv, TypeOK, ReadByOne, NoJob

\* put: the job shows from the moment its body is complete.
LEMMA PutBodyShows ==
  ASSUME Alive, Alive', NEW c \in Conns, NEW d \in BOOLEAN, PutBody(c, d)
  PROVE  Shows
<1>. RefineInv /\ RefineInv'
  BY DEF Alive, IndInv, RefineInv
<1>1. in_job[c] \in Jobs /\ job_state[in_job[c]] = "invalid"
  BY ReadIsInvalid DEF PutBody, Idle, NoCall, Alive, IndInv, StateInv
<1>2. EnqueueReady(in_job[c]) \/ EnqueueDelayed(in_job[c])
  BY DEF PutBody, EnqueueJob
<1>3. UNCHANGED <<pri, tube, next_job_id>> /\ Present' = Present
  BY DEF PutBody, Present
<1>. QED BY <1>1, <1>2, <1>3, PutShows DEF EnqueueReady, EnqueueDelayed

\* The body is refused, or the connection ends before it is complete.
LEMMA RefusedShows ==
  ASSUME Alive, Alive', NEW c \in Conns, PutBodyRefused(c) \/ Close(c)
  PROVE  Shows
<1>. RefineInv /\ RefineInv'
  BY DEF Alive, IndInv, RefineInv
<1>1. UNCHANGED <<reserver, tube, next_job_id>>
  BY DEF PutBodyRefused, Close
<1>2. Present' = Present
  <2>1. CASE PutBodyRefused(c)
    BY <2>1, StillPresent DEF PutBodyRefused, Reply, Alive, IndInv
  <2>2. CASE Close(c)
    BY <2>2 DEF Close, Present
  <2>. QED BY <2>1, <2>2
<1>3. \/ in_job[c] # NoJob /\ FreeJob(in_job[c])
      \/ UNCHANGED <<job_state, pri>>
  BY DEF PutBodyRefused, Close, Idle, NoCall, Alive, IndInv, StateInv
<1>. QED BY <1>1, <1>2, <1>3, ReadIsInvalid, VanishShows, NothingShows DEF Alive

\* delete: a job that the client holds, a ready job, or the head of the buried
\* list is gone, or a lost job is and the head is lost, or nothing has changed.
LEMMA DeleteShows ==
  ASSUME Alive, Alive', NEW c \in Conns, NEW j \in Jobs, Delete(c, j)
  PROVE  Shows
<1>. RefineInv /\ RefineInv' /\ QueueInv
  BY DEF Alive, IndInv, RefineInv, QueueInv, JobInPlace
<1>1. UNCHANGED <<tube, next_job_id>> /\ state[c] = "wantcommand"
  BY DEF Delete, Commanding
<1>2. HoldsJob(c, j) => job_state[j] = "reserved"
  BY DEF HoldsJob, Alive, IndInv, JobInPlace, InPlace, ReservedInPlace
<1>3. buried_jobs[tube[j]] # <<>> /\ Head(buried_jobs[tube[j]]) = j => job_state[j] = "buried"
  BY TakeBuried, ZenonT(20) DEF Alive, IndInv, TypeOK
<1>4. CASE FreeDeleted(c, j) /\ job_state[j] \in {"ready", "reserved", "buried"}
  <2>1. Present' = Present
    BY <1>1, <1>4, StillPresent DEF FreeDeleted, Reply, Alive, IndInv
  <2>. QED BY <1>1, <1>4, <2>1, VanishShows DEF FreeDeleted
<1>5. CASE UNCHANGED <<state, job_state, reserver, pri>>
  BY <1>1, <1>5, NothingShows DEF Present, Alive
<1>6. CASE PopsAnother(j) /\ Reply(c)
  <2>. DEFINE k == Head(buried_jobs[tube[j]])
  <2>1. tube[j] \in Tubes
    BY DEF RefineInv, TypeOK
  <2>2. k \in Jobs /\ job_state[k] = "buried" /\ tube[k] = tube[j]
    BY <1>6, <2>1, TakeBuried DEF PopsAnother
  <2>3. job_state[j] = "lost"
    BY <1>6 DEF PopsAnother, Alive
  <2>4. Present' = Present
    BY <1>1, <1>6, StillPresent DEF Reply, Alive, IndInv
  <2>5. /\ job_state' = [job_state EXCEPT ![k] = "lost", ![j] = "none"]
        /\ pri' = [pri EXCEPT ![j] = 0] /\ reserver' = [reserver EXCEPT ![j] = NoConn]
    BY <1>6 DEF PopsAnother
  <2>. HIDE DEF k
  <2>. QED BY <1>1, <2>2, <2>3, <2>4, <2>5, VanishTwoShows
<1>7. CASE Reply(c) /\ UNCHANGED <<job_state, reserver, pri>>
  <2>1. Present' = Present
    BY <1>1, <1>7, StillPresent DEF Reply, Alive, IndInv
  <2>. QED BY <1>1, <1>7, <2>1, NothingShows DEF Alive
<1>. QED BY <1>4, <1>5, <1>7, <1>6, <1>2, <1>3 DEF Delete, PopsAnother, ioVars

\* put with its body still to come creates the record of an unborn job.
LEMMA CreateShows ==
  ASSUME Alive, Alive', NEW c \in Conns, NEW p \in Pris, Put(c, p)
  PROVE  Shows
<1>1. PICK j \in Jobs : j = next_job_id
  BY DEF Put
<1>2. next_job_id = j /\ next_job_id' = j + 1 /\ j \in Nat /\ Jobs \subseteq Nat
  BY <1>1, BoundsAssumption DEF Put, TakeJobId, Jobs
<1>3. job_state[j] = "none" /\ job_state'[j] = "invalid"
  BY <1>2 DEF Put, Alive, IndInv, TypeOK, FreshInv
<1>4. \A k \in Jobs : k # j => /\ job_state'[k] = job_state[k] /\ tube'[k] = tube[k]
                               /\ pri'[k] = pri[k]
  BY <1>2 DEF Put, Alive, IndInv, TypeOK
<1>5. \A k \in Jobs : k # j => (k >= next_job_id <=> k >= next_job_id')
  BY <1>2
<1>6. Phase(j) = "unborn" /\ Phase(j)' = "unborn"
  BY <1>2, <1>3 DEF Phase
<1>7. \A k \in Jobs : Phase(k)' = Phase(k) /\ (There(k)' <=> There(k)) /\ (There(k) => k # j)
  <2>1. ASSUME NEW k \in Jobs, k # j  PROVE Phase(k)' = Phase(k)
    <3>1. job_state'[k] = job_state[k]
      BY <1>4, <2>1
    <3>2. k >= next_job_id <=> k >= next_job_id'
      BY <1>5, <2>1
    <3>. QED BY <3>1, <3>2 DEF Phase
  <2>2. \A k \in Jobs : Phase(k)' = Phase(k)
    BY <1>6, <2>1
  <2>. QED BY <1>6, <2>2 DEF There
<1>8. UNCHANGED <<Phases, Homes, Urgencies>>
  BY <1>4, <1>7 DEF Phases, Homes, Urgencies
<1>9. Present' = Present /\ reserver' = reserver
  BY StillPresent DEF Put, Commanding, Alive, IndInv
<1>. QED BY <1>8, <1>9 DEF Alive, Shows, Lifecycle!lcVars, Phases, Homes, Urgencies, Present

\* Connections come, and go without leaving a job reserved.
LEMMA ComeAndGoShows ==
  ASSUME Alive, Alive', NEW c \in Conns, Accept(c) \/ CloseEnds(c)
  PROVE  Shows
<1>1. UNCHANGED <<job_state, next_job_id, tube, pri, reserver>>
  BY DEF Accept, CloseEnds, jobVars
<1>2. UNCHANGED <<Phases, Homes, Urgencies>>
  BY <1>1 DEF Phases, Homes, Urgencies, There, Phase
<1>3. CASE Accept(c)
  <2>1. c \notin Present /\ Present' = Present \union {c}
    BY <1>3 DEF Accept, Present, Alive, IndInv, TypeOK
  <2>2. Lifecycle!Arrive(c)
    BY <1>1, <1>2, <2>1 DEF Lifecycle!Arrive, Phases, Homes, Urgencies, Present
  <2>. QED BY <2>2, ShowsStep DEF Alive
<1>4. CASE CloseEnds(c)
  <2>1. c \in Present /\ Present' = Present \ {c}
    BY <1>4 DEF CloseEnds, Closing, Running, Present, Alive, IndInv, CallInv, TypeOK
  <2>2. \A j \in Jobs : reserver[j] # c
    BY <1>4, ConnsAssumption
    DEF CloseEnds, Alive, IndInv, RecordInv, JobInPlace, InPlace, ReservedInPlace
  <2>3. Lifecycle!Depart(c)
    BY <1>1, <1>2, <2>1, <2>2 DEF Lifecycle!Depart, Phases, Homes, Urgencies, Present
  <2>. QED BY <2>3, ShowsStep DEF Alive
<1>. QED BY <1>3, <1>4

\* A step that leaves the records of jobs alone and only moves a connection that
\* is there from one state to another shows nothing.
LEMMA ConnMoves ==
  ASSUME Alive, Alive', NEW c \in Conns, state[c] # "closed",
         state' = state \/ \E s \in ConnStates \ {"closed"} : state' = [state EXCEPT ![c] = s],
         UNCHANGED <<job_state, next_job_id, tube, pri, reserver>>
  PROVE  Shows
<1>1. Present' = Present
  <2>1. CASE state' = state
    BY <2>1 DEF Present
  <2>2. CASE \E s \in ConnStates \ {"closed"} : state' = [state EXCEPT ![c] = s]
    BY <2>2, StillPresent DEF Alive, IndInv
  <2>. QED BY <2>1, <2>2
<1>. QED BY <1>1, NothingShows DEF Alive

\* The other steps of the running handler.
LEMMA ContinueShows ==
  ASSUME Alive, Alive', ProcessQueueReturns \/ KickBuriedNone \/ KickDelayedFails \/ KickEnds
  PROVE  Shows
<1>1. UNCHANGED <<job_state, next_job_id, tube, pri, reserver>>
  BY DEF ProcessQueueReturns, KickBuriedNone, KickDelayedFails, KickEnds, jobVars
<1>2. CASE state' = state
  BY <1>1, <1>2, NothingShows DEF Present, Alive
<1>3. CASE Reply(call.conn) /\ call.op \in {"put", "release", "kick_buried", "kick_delayed"}
  <2>1. call.conn \in Conns /\ state[call.conn] # "closed"
    BY <1>3 DEF Alive, IndInv, CallInv
  <2>. QED BY <1>1, <1>3, <2>1, ConnMoves DEF Reply, ConnStates
<1>. QED BY <1>2, <1>3
         DEF ProcessQueueReturns, KickBuriedNone, KickDelayedFails, KickEnds, Running

\* The other steps of connections and commands.
LEMMA CommandShows ==
  ASSUME Alive, Alive', NEW c \in Conns,
         \/ TimeoutEnds(c) \/ ReplySent(c) \/ BucketFull(c)
         \/ \E j \in Jobs : PeekJob(c, j) \/ PeekReady(c, j) \/ PeekDelayed(c, j) \/ PeekBuried(c, j)
         \/ \E t \in Tubes : Use(c, t) \/ Watch(c, t) \/ Ignore(c, t) \/ PauseTube(c, t)
         \/ \E timeout \in BOOLEAN : Reserve(c, timeout)
         \/ \E n \in KickBounds : Kick(c, n)
         \/ PutSkipped(c) \/ ReserveDeadlineSoon(c) \/ Stats(c) \/ Answer(c)
  PROVE  Shows
<1>1. UNCHANGED <<job_state, next_job_id, tube, pri, reserver>>
  BY DEF TimeoutEnds, ReplySent, BucketFull, PeekJob, PeekReady, PeekDelayed, PeekBuried, Use,
         Watch, Ignore, PauseTube, Reserve, Kick, PutSkipped, ReserveDeadlineSoon, Stats, Answer,
         ReplyOnly, ReplyCopy, jobVars
<1>2. state[c] # "closed"
  BY DEF TimeoutEnds, TimingOut, Running, Alive, IndInv, CallInv, ReplySent, BucketFull, PeekJob,
         PeekReady, PeekDelayed, PeekBuried, Use, Watch, Ignore, PauseTube, Reserve, Kick,
         PutSkipped, ReserveDeadlineSoon, Stats, Answer, Commanding
<1>3. state' = state \/ \E s \in ConnStates \ {"closed"} : state' = [state EXCEPT ![c] = s]
  BY DEF TimeoutEnds, ReplySent, BucketFull, PeekJob, PeekReady, PeekDelayed, PeekBuried, Use,
         Watch, Ignore, PauseTube, Reserve, Kick, PutSkipped, ReserveDeadlineSoon, Stats, Answer,
         ReplyOnly, ReplyCopy, Reply, ConnStates
<1>. QED BY <1>1, <1>2, <1>3, ConnMoves

\* The other callbacks of the clock.
LEMMA CronShows ==
  ASSUME Alive, Alive', (\E t \in Tubes : CronPause(t)) \/ (\E c \in Conns : CronTimeout(c))
  PROVE  Shows
<1>1. UNCHANGED <<job_state, next_job_id, tube, pri, reserver, state>>
  BY DEF CronPause, CronTimeout, Timeout, jobVars
<1>. QED BY <1>1, NothingShows DEF Present, Alive

\* Every step of the server shows a step of the life cycle or nothing.
LEMMA StepShows == IndInv /\ IndInv' /\ [Next]_vars => Shows
<1>. SUFFICES ASSUME IndInv, IndInv', [Next]_vars PROVE Shows
  OBVIOUS
<1>1. CASE health # "ok" \/ UNCHANGED vars
  BY <1>1, DeadStays, NothingShows DEF vars, jobVars, Present
<1>2. CASE health' # "ok"
  BY <1>2 DEF Shows, Lifecycle!Next
<1>3. CASE Alive /\ Alive' /\ Next
  <2>1. CASE Continue
    BY <1>3, <2>1, DeliverShows, GivingBackShows, ComeAndGoShows, CommandShows, ContinueShows,
       KickBuriedShows, WakingShows DEF Continue
  <2>2. ASSUME NEW c \in Conns, Input(c)  PROVE Shows
    BY <1>3, <2>2, ComeAndGoShows, RefusedShows, CommandShows, PutBodyShows DEF Input
  <2>3. ASSUME NEW c \in Conns, Command(c)  PROVE Shows
    BY <1>3, <2>3, DeleteShows, CreateShows, GivingBackShows, CommandShows DEF Command
  <2>4. CASE Cron
    BY <1>3, <2>4, WakingShows, CronShows DEF Cron
  <2>. QED BY <1>1, <1>3, <2>1, <2>2, <2>3, <2>4 DEF Next, Dead
<1>. QED BY <1>1, <1>2, <1>3 DEF Alive

\* Before the first connection no job is born.
LEMMA InitShows == Init => Lifecycle!Init
<1>. SUFFICES ASSUME Init PROVE Lifecycle!Init
  OBVIOUS
<1>1. \A j \in Jobs : Phase(j) = "unborn"
  BY DEF Init, Phase, Jobs
<1>. QED BY <1>1 DEF Init, Lifecycle!Init, There

\* The queue engine implements the life cycle of jobs.
THEOREM LifecycleImplemented == Spec => ImplementsLifecycle
<1>1. IndInv /\ IndInv' /\ [Next]_vars => [Lifecycle!Next]_(Lifecycle!lcVars)
  BY StepShows DEF Shows
<1>. QED BY <1>1, InitShows, Invariance, PTL DEF Spec, ImplementsLifecycle, Lifecycle!Spec

(* Handlers come to their end.                                              *)

\* Some step of the running handler is possible: process_queue finds a job and a
\* client or returns, and the loops of kick, conn_free and conn_timeout take
\* another turn or end.
GoesOn ==
  \/ processing /\ Eligible = {}
  \/ processing /\ \E j \in Jobs, c \in Conns : IsNext(j) /\ c \in waiting_conns[tube[j]]
  \/ Running("kick_buried") \/ Running("kick_delayed")
  \/ \E c \in Conns : Closing(c) \/ TimingOut(c)

\* Of the eligible jobs one is the first.
LEMMA NextJob ==
  ASSUME TypeOK, Eligible # {}
  PROVE  \E j \in Eligible : IsNext(j)
<1>1. Eligible \subseteq Jobs /\ Jobs \subseteq Nat
  BY BoundsAssumption DEF Eligible, Jobs, TypeOK
<1>2. \A j \in Eligible : pri[j] \in Nat
  BY <1>1 DEF TypeOK
<1>3. PICK j \in Eligible : \A k \in Eligible : pri[j] <= pri[k]
  <2>. DEFINE P == {pri[k] : k \in Eligible}
  <2>1. P \in SUBSET Nat /\ P # {}
    BY <1>2
  <2>2. PICK m \in P : \A n \in P : m <= n
    BY <2>1, LeastOf
  <2>. QED BY <2>2
<1>4. PICK i \in Eligible : pri[i] = pri[j] /\ \A k \in Eligible : pri[k] = pri[j] => i <= k
  <2>. DEFINE S == {k \in Eligible : pri[k] = pri[j]}
  <2>1. S \in SUBSET Nat /\ S # {}
    BY <1>1, <1>3
  <2>2. PICK i \in S : \A k \in S : i <= k
    BY <2>1, LeastOf
  <2>. QED BY <2>2
<1>5. ASSUME NEW k \in Eligible \ {i}  PROVE JobPriLess(i, k)
  <2>1. i \in Nat /\ k \in Nat /\ pri[i] \in Nat /\ pri[k] \in Nat
    BY <1>1, <1>2
  <2>2. pri[i] <= pri[k] /\ (pri[k] = pri[i] => i <= k)
    BY <1>3, <1>4
  <2>. QED BY <2>1, <2>2 DEF JobPriLess
<1>. QED BY <1>4, <1>5 DEF IsNext

\* No handler is stuck.
LEMMA GoesOnHolds ==
  ASSUME IndInv, health = "ok", call # NoCall
  PROVE  GoesOn
<1>1. CASE processing /\ Eligible # {}
  <2>1. PICK j \in Eligible : IsNext(j)
    BY <1>1, NextJob DEF IndInv
  <2>2. PICK t \in Tubes : j \in ready_jobs[t] /\ waiting_conns[t] # {}
    BY DEF Eligible
  <2>3. j \in Jobs /\ tube[j] = t
    BY <2>2 DEF IndInv, JobInPlace, InPlace, ReadyInPlace, TypeOK
  <2>. QED BY <1>1, <2>1, <2>2, <2>3 DEF GoesOn, IndInv, TypeOK
<1>2. CASE ~ processing
  <2>1. call.op \in {"kick_buried", "kick_delayed", "close", "timeout"}
    BY <1>2 DEF IndInv, HandlerInv, TypeOK, CallType, Ops
  <2>2. call.op \in {"close", "timeout"} => call.conn \in Conns
    BY DEF IndInv, CallInv
  <2>. QED BY <1>2, <2>1, <2>2 DEF GoesOn, Running, Closing, TimingOut
<1>. QED BY <1>1, <1>2 DEF GoesOn

\* The handler that is running is never stuck: in a server that lives, a handler
\* that has not ended has a step it can take.
THEOREM HandlersGoOn == Spec => [](health = "ok" /\ call # NoCall => GoesOn)
<1>1. IndInv => (health = "ok" /\ call # NoCall => GoesOn)
  BY GoesOnHolds
<1>. QED BY <1>1, Invariance, PTL

\* The turns the loop of the running handler still has to take.
TurnsLeft ==
  CASE call.op = "close" -> Cardinality(reserved_jobs[call.conn])
    [] call.op = "timeout" -> Cardinality(call.jobs)
    [] call.op \in {"kick_buried", "kick_delayed"} -> call.left
    [] OTHER -> 0

\* The clients process_queue may find.
Waiters == {c \in Conns : waiting[c]}

\* The turns process_queue still may take, its return among them.
MatchesLeft == IF processing THEN 1 + Cardinality(Waiters) ELSE 0

\* A step ends the running handler or brings it nearer to its end.
Shrinks ==
  call # NoCall =>
    \/ call' = NoCall
    \/ /\ call'.op = call.op /\ call'.conn = call.conn
       /\ \/ TurnsLeft' < TurnsLeft
          \/ TurnsLeft' = TurnsLeft /\ MatchesLeft' < MatchesLeft

\* Job ids are bounded, and so are the lists of a connection.
LEMMA FiniteJobs ==
  ASSUME NEW S \in SUBSET Jobs
  PROVE  IsFiniteSet(S) /\ Cardinality(S) \in Nat
<1>1. IsFiniteSet(Jobs)
  BY BoundsAssumption, FS_Interval DEF Jobs
<1>2. IsFiniteSet(S)
  BY <1>1, FS_Subset
<1>. QED BY <1>2, FS_CardinalityType

\* The loops of a handler have finitely many turns.
LEMMA FiniteLoops ==
  ASSUME TypeOK, CallInv
  PROVE  /\ IsFiniteSet(Waiters) /\ Cardinality(Waiters) \in Nat
         /\ TurnsLeft \in Nat /\ MatchesLeft \in Nat
<1>1. IsFiniteSet(Waiters) /\ Cardinality(Waiters) \in Nat
  BY ConnsAssumption, FS_Subset, FS_CardinalityType DEF Waiters
<1>2. call.op = "close" => reserved_jobs[call.conn] \in SUBSET Jobs
  BY DEF CallInv, TypeOK
<1>3. call.jobs \in SUBSET Jobs /\ call.left \in Nat
  BY DEF TypeOK, CallType
<1>4. TurnsLeft \in Nat
  BY <1>2, <1>3, FiniteJobs DEF TurnsLeft
<1>. QED BY <1>1, <1>4 DEF MatchesLeft

\* A turn of a loop takes a job from a set.
LEMMA TakenFrom ==
  ASSUME NEW S \in SUBSET Jobs, NEW j \in S
  PROVE  Cardinality(S \ {j}) < Cardinality(S)
<1>1. IsFiniteSet(S) /\ Cardinality(S) \in Nat
  BY FiniteJobs
<1>2. Cardinality(S \ {j}) = Cardinality(S) - 1
  BY <1>1, FS_RemoveElement
<1>. QED BY <1>1, <1>2

\* Handlers are the only steps while one is running, and each uses up a turn.
LEMMA ShrinksStep ==
  ASSUME IndInv, Next
  PROVE  Shrinks \/ UNCHANGED vars
<1>. SUFFICES ASSUME call # NoCall  PROVE Shrinks \/ UNCHANGED vars
  BY DEF Shrinks
<1>1. TypeOK /\ CallInv
  BY DEF IndInv
<1>2. ASSUME NEW c \in Conns, NEW j \in Jobs, Deliver(j, c)  PROVE Shrinks
  <2>1. UNCHANGED <<call, processing>> /\ processing
    BY <1>2 DEF Deliver, callVars
  <2>2. waiting[c] /\ waiting' = [waiting EXCEPT ![c] = FALSE]
    BY <1>2 DEF Deliver, RemoveWaiting, IndInv, WaitingInPlace, IsNext, Eligible, TypeOK
  <2>3. Waiters' = Waiters \ {c} /\ c \in Waiters
    BY <2>2, <1>1 DEF Waiters, TypeOK
  <2>4. MatchesLeft' < MatchesLeft
    <3>1. Cardinality(Waiters') = Cardinality(Waiters) - 1
      BY <2>3, <1>1, FiniteLoops, FS_RemoveElement
    <3>. QED BY <2>1, <3>1, <1>1, FiniteLoops DEF MatchesLeft
  <2>5. call.op = "close" => reserved_jobs'[call.conn] = reserved_jobs[call.conn]
    <3>1. call.op = "close" => call.conn # c /\ call.conn \in Conns
      BY <2>2, <1>1 DEF CallInv
    <3>. QED BY <1>2, <3>1, <1>1 DEF Deliver, TypeOK
  <2>6. TurnsLeft' = TurnsLeft
    BY <2>1, <2>5 DEF TurnsLeft
  <2>. QED BY <2>1, <2>4, <2>6 DEF Shrinks
<1>3. CASE ProcessQueueReturns
  <2>1. processing /\ ~ processing' /\ UNCHANGED reserved_jobs
    BY <1>3 DEF ProcessQueueReturns, jobVars
  <2>2. CASE call' = call
    <3>1. TurnsLeft' = TurnsLeft
      BY <2>1, <2>2 DEF TurnsLeft
    <3>2. MatchesLeft' < MatchesLeft
      BY <2>1, <1>1, FiniteLoops DEF MatchesLeft
    <3>. QED BY <2>2, <3>1, <3>2 DEF Shrinks
  <2>. QED BY <1>3, <2>2 DEF ProcessQueueReturns, Shrinks
<1>4. ASSUME NEW c \in Conns, NEW j \in Jobs, CloseRequeue(c, j)  PROVE Shrinks
  <2>1. call' = call /\ call.op = "close" /\ call.conn = c
    BY <1>4 DEF CloseRequeue, Closing, Running
  <2>2. j \in reserved_jobs[c] /\ reserved_jobs'[c] = reserved_jobs[c] \ {j}
    BY <1>4, <1>1 DEF CloseRequeue, HoldsJob, RemoveReserved, TypeOK
  <2>3. TurnsLeft' < TurnsLeft
    BY <2>1, <2>2, <1>1, TakenFrom DEF TurnsLeft, TypeOK
  <2>. QED BY <2>1, <2>3 DEF Shrinks
<1>5. ASSUME NEW c \in Conns, NEW j \in Jobs, TimeoutExpire(c, j)  PROVE Shrinks
  <2>1. call.op = "timeout" /\ call.conn = c /\ call'.op = "timeout" /\ call'.conn = c
        /\ j \in call.jobs /\ call'.jobs = call.jobs \ {j} /\ call.jobs \in SUBSET Jobs
    BY <1>5, <1>1 DEF TimeoutExpire, TimingOut, Running, TypeOK, CallType
  <2>2. TurnsLeft' < TurnsLeft
    BY <2>1, TakenFrom DEF TurnsLeft
  <2>. QED BY <2>1, <2>2 DEF Shrinks
<1>6. ASSUME NEW op \in {"kick_buried", "kick_delayed"}, KickGoesOn(op),
             \/ call' = [call EXCEPT !.left = @ - 1]
             \/ call' = [call EXCEPT !.left = 0]
      PROVE  Shrinks
  <2>1. call.op = op /\ call.left > 0 /\ call.left \in Nat
    BY <1>6, <1>1 DEF KickGoesOn, Running, TypeOK, CallType
  <2>2. call'.op = call.op /\ call'.conn = call.conn /\ call'.left < call.left
    BY <1>6, <2>1, <1>1 DEF TypeOK, CallType
  <2>3. TurnsLeft' < TurnsLeft
    BY <2>1, <2>2 DEF TurnsLeft
  <2>. QED BY <2>2, <2>3 DEF Shrinks
<1>7. CASE KickBuried \/ KickBuriedNone \/ KickBuriedFails
           \/ (\E j \in Jobs : KickDelayed(j)) \/ KickDelayedFails
  BY <1>6, <1>7 DEF KickBuried, KickBuriedNone, KickBuriedFails, KickDelayed, KickDelayedFails
<1>8. CASE KickEnds \/ \E c \in Conns : CloseEnds(c) \/ TimeoutEnds(c)
  BY <1>8 DEF KickEnds, CloseEnds, TimeoutEnds, Shrinks
<1>9. ASSUME NEW c \in Conns, Input(c) \/ Command(c)  PROVE FALSE
  BY <1>9
  DEF Input, Accept, Close, ReplySent, BucketFull, PutBody, PutBodyRefused, Command, Delete,
      PeekJob, PeekReady, PeekDelayed, PeekBuried, Put, Reserve, Bury, Release, Use, Watch, Ignore,
      PauseTube, Kick, PutSkipped, ReserveDeadlineSoon, Stats, Answer, Commanding, Idle
<1>10. ~ Cron
  BY DEF Cron, CronDelay, CronPause, CronTimeout, Timeout, Idle
<1>. QED BY <1>2, <1>3, <1>4, <1>5, <1>7, <1>8, <1>9, <1>10 DEF Next, Continue, Dead

\* Every step of a handler ends it or leaves fewer turns: the jobs it has still to
\* take back, the bound of kick and, below these, the clients that wait while
\* process_queue is at work.
THEOREM HandlersShrink ==
  Spec => [](TurnsLeft \in Nat /\ MatchesLeft \in Nat) /\ [][Shrinks]_vars
<1>1. IndInv => TurnsLeft \in Nat /\ MatchesLeft \in Nat
  BY FiniteLoops DEF IndInv
<1>2. IndInv /\ [Next]_vars => [Shrinks]_vars
  BY ShrinksStep
<1>. QED BY <1>1, <1>2, Invariance, PTL DEF Spec

================================================================================
