---------------------------- MODULE TimeoutsProofs ----------------------------
(* The clock, the ticks and the soonest_job cache of Timeouts, for every number *)
(* of connections and jobs and all times.                                        *)
EXTENDS Timeouts, TLAPS

\* The types of what a job and its delivery change.
JobTypes ==
  /\ job_state \in [Jobs -> {"none", "ready", "reserved", "delayed"}]
  /\ deadline_at \in [Jobs -> Nat]
  /\ reserved_jobs \in [Conns -> SUBSET Jobs]
  /\ soonest_job \in [Conns -> Jobs \union {NoJob}]
  /\ waiting \in [Conns -> BOOLEAN]
  /\ telling \in [Conns -> Jobs \union {NoJob}]
  /\ until \in [Conns -> Nat]

\* held and cache are lists and caches of jobs that are all reserved, without j.
Free(j, held, cache) ==
  /\ held \in [Conns -> SUBSET Jobs] /\ cache \in [Conns -> Jobs \union {NoJob}]
  /\ \A c \in Conns : held[c] \subseteq reserved_jobs[c] /\ j \notin held[c]
  /\ \A c \in Conns : cache[c] # NoJob =>
       /\ cache[c] \in held[c]
       /\ \A k \in held[c] : deadline_at[cache[c]] <= deadline_at[k]

\* The constants and the clock are numbers, and a reservation lasts for Margin at
\* least.
LEMMA Numbers ==
  ASSUME IndInv
  PROVE  /\ now \in Nat /\ now >= 1 /\ Margin \in Nat /\ Margin >= 1 /\ Lag \in Nat /\ Lag >= 1
         /\ \A j \in Jobs : ttr[j] \in Nat /\ ttr[j] >= Margin
<1>1. now \in 1 .. MaxTime /\ MaxTime \in Nat
  BY TimesAssumption DEF IndInv, TypeOK
<1>2. /\ Margin \in Nat \ {0} /\ Lag \in Nat \ {0}
      /\ \A t \in Ttrs : t \in Nat /\ t >= Margin
  BY TimesAssumption
<1>3. ttr \in [Jobs -> Ttrs]
  BY DEF IndInv, TypeOK
<1>. QED BY <1>1, <1>2, <1>3

-----------------------------------------------------------------------------
(* The operators. *)

\* conn_soonest_reserved_job answers no job only when there is none, and else a
\* job with the least deadline.
LEMMA SoonestLeast ==
  ASSUME IndInv, NEW c \in Conns, NEW s \in Soonest(c)
  PROVE  /\ s \in Jobs \union {NoJob}
         /\ s = NoJob => reserved_jobs[c] = {}
         /\ s # NoJob => /\ s \in reserved_jobs[c]
                         /\ \A j \in reserved_jobs[c] : deadline_at[s] <= deadline_at[j]
BY NullsAssumption DEF IndInv, TypeOK, SoonestExact, Soonest

\* The least of one or two numbers.
LEMMA MinOfTwo ==
  ASSUME NEW a \in Int, NEW b \in Int
  PROVE  /\ Min({a}) = a
         /\ Min({a, b}) \in {a, b} /\ Min({a, b}) <= a /\ Min({a, b}) <= b
<1>1. Min({a}) = a
  BY DEF Min
<1>2. \E x \in {a, b} : \A y \in {a, b} : x <= y
  <2>1. CASE a <= b  BY <2>1
  <2>2. CASE b <= a  BY <2>2
  <2>. QED BY <2>1, <2>2
<1>3. Min({a, b}) \in {a, b} /\ \A y \in {a, b} : Min({a, b}) <= y
  BY <1>2 DEF Min
<1>. QED BY <1>1, <1>3

\* conn_tickat answers a number, and for a connection that waits the first of the
\* two times it looks at.
LEMMA TickAtFirst ==
  ASSUME IndInv, NEW s \in Jobs \union {NoJob}, NEW waits \in BOOLEAN,
         NEW timeout \in Nat \union {NoTimeout},
         s # NoJob => deadline_at[s] >= Margin,
         NEW tick, tick = TickAt(s, waits, timeout)
  PROVE  /\ tick \in Nat
         /\ waits =>
              /\ s # NoJob => tick <= deadline_at[s] - Margin
              /\ timeout # NoTimeout => tick <= now + timeout
              /\ \/ tick = NoTick /\ s = NoJob /\ timeout = NoTimeout
                 \/ s # NoJob /\ tick = deadline_at[s] - Margin
                 \/ timeout # NoTimeout /\ tick = now + timeout
<1>. DEFINE margin == IF waits THEN Margin ELSE 0
            left == deadline_at[s] - now - margin
            spans == {deadline_at[k] - now - margin : k \in {s} \ {NoJob}}
                     \union ({timeout} \ {NoTimeout})
<1>1. tick = IF spans = {} THEN NoTick ELSE now + Min(spans)
  BY DEF TickAt
<1>2. now \in Nat /\ margin \in Nat /\ (s # NoJob => deadline_at[s] \in Nat)
  BY TimesAssumption DEF IndInv, TypeOK
<1>3. NoTimeout \notin Nat /\ NoTick \in Nat
  BY DEF NoTimeout, NoTick
<1>4. CASE s = NoJob /\ timeout = NoTimeout
  <2>1. spans = {}  BY <1>4
  <2>. QED BY <1>1, <1>3, <1>4, <2>1
<1>5. CASE s = NoJob /\ timeout # NoTimeout
  <2>1. spans = {timeout}  BY <1>5
  <2>2. Min(spans) = timeout
    <3>1. timeout \in Int  BY <1>5
    <3>2. Min({timeout}) = timeout  BY <3>1, MinOfTwo
    <3>. QED BY <2>1, <3>2
  <2>. QED BY <1>1, <1>2, <1>5, <2>1, <2>2
<1>6. CASE s # NoJob /\ timeout = NoTimeout
  <2>1. spans = {left}  BY <1>6
  <2>2. Min(spans) = left  BY <1>2, <1>6, <2>1, MinOfTwo
  <2>3. tick = now + left  BY <1>1, <2>1, <2>2
  <2>. QED BY <1>2, <1>6, <2>3, TimesAssumption
<1>7. CASE s # NoJob /\ timeout # NoTimeout
  <2>1. spans = {left, timeout}  BY <1>7
  <2>2. left \in Int /\ timeout \in Int  BY <1>2, <1>7
  <2>3. Min(spans) \in {left, timeout} /\ Min(spans) <= left /\ Min(spans) <= timeout
    <3>. HIDE DEF left, spans
    <3>1. /\ Min({left, timeout}) \in {left, timeout}
          /\ Min({left, timeout}) <= left /\ Min({left, timeout}) <= timeout
      BY <2>2, MinOfTwo, Zenon
    <3>. QED BY <2>1, <3>1
  <2>4. tick = now + Min(spans)  BY <1>1, <2>1
  <2>. QED BY <1>2, <1>7, <2>2, <2>3, <2>4, TimesAssumption
<1>. QED BY <1>4, <1>5, <1>6, <1>7

-----------------------------------------------------------------------------
(* A job goes to a queue or to a client. *)

\* What reserve_job leaves: lists that stay apart, an exact cache, and the other
\* clients as they were.
LEMMA ReserveJobKeeps ==
  ASSUME IndInv, NEW c \in Conns, NEW j \in Jobs, NEW held, NEW cache,
         Free(j, held, cache), ReserveJob(c, j, held, cache),
         \A d \in Conns \ {c} : j \notin held[d]
  PROVE  JobTypes' /\ HeldByOne' /\ SoonestExact'
<1>1. now \in Nat /\ now >= 1 /\ ttr[j] \in Nat /\ ttr[j] >= Margin /\ Margin \in Nat
  BY Numbers
<1>2. JobTypes
  BY DEF IndInv, TypeOK, JobTypes
<1>3. CacheReserved(c, j, cache[c]) \in Jobs \union {NoJob}
  <2>1. cache[c] \in Jobs \union {NoJob}  BY DEF Free
  <2>2. CacheReserved(c, j, cache[c]) \in {j, cache[c]}  BY DEF CacheReserved
  <2>. QED BY <2>1, <2>2
<1>4. JobTypes'
  BY <1>1, <1>2, <1>3 DEF JobTypes, ReserveJob, Free, NoTime
<1>5. /\ deadline_at'[j] = now + ttr[j] /\ job_state'[j] = "reserved"
      /\ \A k \in Jobs \ {j} : deadline_at'[k] = deadline_at[k] /\ job_state'[k] = job_state[k]
      /\ reserved_jobs'[c] = held[c] \union {j}
      /\ \A d \in Conns \ {c} : reserved_jobs'[d] = held[d]
      /\ soonest_job'[c] = CacheReserved(c, j, cache[c])
      /\ \A d \in Conns \ {c} : soonest_job'[d] = cache[d]
  BY <1>2 DEF JobTypes, ReserveJob, Free
<1>6. HeldByOne'
  BY <1>1, <1>2, <1>5 DEF IndInv, HeldByOne, Free, JobTypes
<1>7. ASSUME NEW d \in Conns, soonest_job'[d] # NoJob
      PROVE  /\ soonest_job'[d] \in reserved_jobs'[d]
             /\ \A k \in reserved_jobs'[d] : deadline_at'[soonest_job'[d]] <= deadline_at'[k]
  <2>1. CASE d # c
    BY <1>2, <1>5, <1>7, <2>1 DEF Free, JobTypes
  <2>2. CASE d = c
    BY <1>1, <1>2, <1>5, <1>7, <2>2 DEF Free, JobTypes, CacheReserved
  <2>. QED BY <2>1, <2>2
<1>. QED BY <1>4, <1>6, <1>7 DEF SoonestExact

\* What enqueue_job with process_queue leaves.
LEMMA EnqueueJobKeeps ==
  ASSUME IndInv, NEW j \in Jobs, NEW delay \in Nat, NEW held, NEW cache,
         Free(j, held, cache), EnqueueJob(j, delay, held, cache)
  PROVE  JobTypes' /\ HeldByOne' /\ SoonestExact'
<1>1. JobTypes /\ now \in Nat
  BY DEF IndInv, TypeOK, JobTypes
<1>2. CASE \E c \in Waiters : ReserveJob(c, j, held, cache)
  BY <1>2, ReserveJobKeeps DEF Waiters, Free
<1>3. CASE /\ job_state' \in {[job_state EXCEPT ![j] = "ready"], [job_state EXCEPT ![j] = "delayed"]}
           /\ \E t \in Nat : deadline_at' = [deadline_at EXCEPT ![j] = t]
           /\ reserved_jobs' = held /\ soonest_job' = cache
           /\ UNCHANGED <<telling, waitVars>>
  <2>1. JobTypes'
    BY <1>1, <1>3 DEF JobTypes, Free, waitVars
  <2>2. \A k \in Jobs \ {j} : deadline_at'[k] = deadline_at[k] /\ job_state'[k] = job_state[k]
    BY <1>1, <1>3 DEF JobTypes
  <2>3. HeldByOne'
    BY <1>1, <1>3, <2>2 DEF IndInv, HeldByOne, Free, JobTypes
  <2>4. SoonestExact'
    BY <1>1, <1>3, <2>2 DEF SoonestExact, Free, JobTypes
  <2>. QED BY <2>1, <2>3, <2>4
<1>. QED BY <1>1, <1>2, <1>3 DEF EnqueueJob, EnqueueReady, EnqueueDelayed, NoTime

\* Who is given a job waited and is told of it; for everybody else nothing changes
\* but what held says.
LEMMA EnqueueJobDelivers ==
  ASSUME IndInv, NEW j \in Jobs, NEW delay \in Nat, NEW held, NEW cache,
         Free(j, held, cache), EnqueueJob(j, delay, held, cache),
         NEW c \in Conns
  PROVE  /\ \A k \in held[c] : deadline_at'[k] = deadline_at[k]
         /\ \/ /\ reserved_jobs'[c] = held[c] /\ telling'[c] = telling[c]
               /\ waiting'[c] = waiting[c] /\ until'[c] = until[c]
            \/ /\ reserved_jobs'[c] = held[c] \union {j} /\ telling'[c] = j
               /\ waiting[c] /\ ~ waiting'[c]
<1>1. JobTypes
  BY DEF IndInv, TypeOK, JobTypes
<1>2. \A k \in Jobs \ {j} : deadline_at'[k] = deadline_at[k]
  BY <1>1 DEF JobTypes, EnqueueJob, EnqueueReady, EnqueueDelayed, ReserveJob
<1>3. \A k \in held[c] : deadline_at'[k] = deadline_at[k]
  BY <1>2 DEF Free
<1>4. CASE \E d \in Waiters : ReserveJob(d, j, held, cache)
  <2>1. PICK d \in Waiters : ReserveJob(d, j, held, cache)
    BY <1>4
  <2>2. CASE d = c
    BY <1>1, <1>3, <2>1, <2>2 DEF JobTypes, ReserveJob, Waiters, Free
  <2>3. CASE d # c
    BY <1>1, <1>3, <2>1, <2>3 DEF JobTypes, ReserveJob, Waiters, Free
  <2>. QED BY <2>2, <2>3
<1>5. CASE reserved_jobs' = held /\ UNCHANGED <<telling, waitVars>>
  BY <1>3, <1>5 DEF waitVars
<1>. QED BY <1>4, <1>5 DEF EnqueueJob, EnqueueReady, EnqueueDelayed

\* A delay starts with time left.
LEMMA EnqueueJobDelays ==
  ASSUME IndInv, NEW j \in Jobs, NEW delay \in Nat, NEW held, NEW cache,
         EnqueueJob(j, delay, held, cache), NEW k \in Jobs, job_state'[k] = "delayed"
  PROVE  \/ job_state[k] = "delayed" /\ deadline_at'[k] = deadline_at[k]
         \/ deadline_at'[k] > now
<1>1. JobTypes /\ now \in Nat
  BY DEF IndInv, TypeOK, JobTypes
<1>2. CASE k # j
  BY <1>1, <1>2 DEF JobTypes, EnqueueJob, EnqueueReady, EnqueueDelayed, ReserveJob
<1>3. CASE k = j
  BY <1>1, <1>3 DEF JobTypes, EnqueueJob, EnqueueReady, EnqueueDelayed, ReserveJob
<1>. QED BY <1>2, <1>3

\* An action that gives one job to enqueue_job keeps the invariant, when the lists
\* of those that wait on stand and who loses the job may forget it.
LEMMA EnqueueJobInv ==
  ASSUME IndInv, NEW j \in Jobs, NEW delay \in Nat, NEW held, NEW cache,
         Free(j, held, cache), EnqueueJob(j, delay, held, cache),
         \A c \in Conns : waiting[c] /\ timing # c => held[c] = reserved_jobs[c],
         UNCHANGED <<clockVars, cron, timing, soon, ttr, tickVars>>, rearm' \in BOOLEAN,
         known' \in [Conns -> SUBSET Jobs],
         \A c \in Conns : known[c] \ {j} \subseteq known'[c],
         timing # NoConn /\ soon => j \in known'[timing]
  PROVE  IndInv'
<1>1. JobTypes' /\ HeldByOne' /\ SoonestExact'
  BY EnqueueJobKeeps
<1>2. \A c \in Conns :
        /\ \A k \in held[c] : deadline_at'[k] = deadline_at[k]
        /\ \/ /\ reserved_jobs'[c] = held[c] /\ telling'[c] = telling[c]
              /\ waiting'[c] = waiting[c] /\ until'[c] = until[c]
           \/ /\ reserved_jobs'[c] = held[c] \union {j} /\ telling'[c] = j
              /\ waiting[c] /\ ~ waiting'[c]
  BY EnqueueJobDelivers
<1>3. \A c \in Conns : held[c] \subseteq reserved_jobs[c] \ {j} /\ held[c] \subseteq Jobs
  BY DEF Free
<1>4. TypeOK'
  BY <1>1 DEF IndInv, TypeOK, JobTypes, clockVars, tickVars, connsVars
<1>5. OneAtATime'
  BY <1>2 DEF IndInv, OneAtATime
<1>6. ReservationsTold'
  BY <1>2, <1>3, NullsAssumption DEF IndInv, ReservationsTold, OneAtATime
<1>7. SoonTold'
  BY <1>2, <1>3, <1>4, SMTT(40)
     DEF IndInv, TypeOK, SoonTold
<1>8. TickExact' /\ TickListed'
  BY <1>2 DEF IndInv, TickExact, TickListed, InOrder, tickVars, connsVars
<1>9. DueIsOver'
  BY <1>2, <1>3 DEF IndInv, DueIsOver, clockVars, tickVars
<1>10. NothingLeft'
  <2>1. \A k \in Jobs : job_state'[k] = "delayed" => last_cron < deadline_at'[k]
    <3>1. last_cron \in Int /\ now \in Int /\ last_cron <= now
      BY Numbers DEF IndInv, TypeOK
    <3>2. \A k \in Jobs : deadline_at'[k] \in Int
      BY <1>1 DEF JobTypes
    <3>. QED BY <3>1, <3>2, EnqueueJobDelays DEF IndInv, NothingLeft
  <2>. QED BY <1>2, <1>3, <2>1 DEF IndInv, NothingLeft, InOrder, clockVars, tickVars, connsVars
<1>. QED BY <1>1, <1>4, <1>5, <1>6, <1>7, <1>8, <1>9, <1>10 DEF IndInv

-----------------------------------------------------------------------------
(* Commands. *)

\* A connection that commands does not wait, and conn_timeout does not run.
LEMMA CommandingAlone ==
  ASSUME IndInv, ~ cron
  PROVE  timing = NoConn /\ \A c \in Conns : timing # c
BY NullsAssumption DEF IndInv, OneAtATime

\* A job that is on a list comes off it: what remains is exact.
LEMMA ReleasedFree ==
  ASSUME IndInv, NEW c \in Conns, NEW j \in reserved_jobs[c]
  PROVE  /\ j \in Jobs /\ Free(j, Released(c, j), CacheCleared(c))
         /\ \A d \in Conns \ {c} : Released(c, j)[d] = reserved_jobs[d]
<1>1. JobTypes
  BY DEF IndInv, TypeOK, JobTypes
<1>2. /\ Released(c, j) \in [Conns -> SUBSET Jobs]
      /\ \A d \in Conns \ {c} : Released(c, j)[d] = reserved_jobs[d]
      /\ Released(c, j)[c] = reserved_jobs[c] \ {j}
  BY <1>1 DEF Released, JobTypes
<1>3. /\ CacheCleared(c) \in [Conns -> Jobs \union {NoJob}]
      /\ \A d \in Conns \ {c} : CacheCleared(c)[d] = soonest_job[d]
      /\ CacheCleared(c)[c] = NoJob
  BY <1>1 DEF CacheCleared, JobTypes
<1>4. \A d \in Conns \ {c} : j \notin reserved_jobs[d]
  BY DEF IndInv, HeldByOne
<1>5. \A d \in Conns : CacheCleared(c)[d] # NoJob =>
        /\ CacheCleared(c)[d] \in Released(c, j)[d]
        /\ \A k \in Released(c, j)[d] : deadline_at[CacheCleared(c)[d]] <= deadline_at[k]
  BY <1>2, <1>3 DEF IndInv, SoonestExact
<1>. QED BY <1>1, <1>2, <1>3, <1>4, <1>5 DEF Free, JobTypes

\* A job that nobody holds.
LEMMA UnheldFree ==
  ASSUME IndInv, NEW j \in Jobs, job_state[j] # "reserved"
  PROVE  Free(j, reserved_jobs, soonest_job) /\ \A c \in Conns : j \notin reserved_jobs[c]
BY DEF IndInv, TypeOK, HeldByOne, SoonestExact, Free

LEMMA PutKeeps ==
  ASSUME IndInv, NEW j \in Jobs, NEW delay \in Delays, Put(j, delay)
  PROVE  IndInv'
<1>1. delay \in Nat
  BY TimesAssumption
<1>2. Free(j, reserved_jobs, soonest_job)
  BY UnheldFree DEF Put
<1>3. known' \in [Conns -> SUBSET Jobs] /\ \A c \in Conns : known[c] \ {j} \subseteq known'[c]
  BY DEF Put, IndInv, TypeOK
<1>4. rearm' \in BOOLEAN /\ UNCHANGED <<clockVars, cron, timing, soon, ttr, tickVars>>
  BY DEF Put, cronVars, IndInv, TypeOK
<1>5. timing = NoConn /\ EnqueueJob(j, delay, reserved_jobs, soonest_job)
  BY CommandingAlone DEF Put
<1>. QED BY <1>1, <1>2, <1>3, <1>4, <1>5, EnqueueJobInv

LEMMA ReleaseKeeps ==
  ASSUME IndInv, NEW c \in Conns, NEW j \in Jobs, NEW delay \in Delays, Release(c, j, delay)
  PROVE  IndInv'
<1>1. delay \in Nat
  BY TimesAssumption
<1>2. /\ Free(j, Released(c, j), CacheCleared(c))
      /\ \A d \in Conns \ {c} : Released(c, j)[d] = reserved_jobs[d]
  BY ReleasedFree DEF Release
<1>3. known' \in [Conns -> SUBSET Jobs] /\ \A d \in Conns : known[d] \ {j} \subseteq known'[d]
  BY DEF Release, IndInv, TypeOK
<1>4. rearm' \in BOOLEAN /\ UNCHANGED <<clockVars, cron, timing, soon, ttr, tickVars>>
  BY DEF Release, cronVars, IndInv, TypeOK
<1>5. timing = NoConn /\ ~ waiting[c] /\ EnqueueJob(j, delay, Released(c, j), CacheCleared(c))
  BY CommandingAlone DEF Release, Commanding
<1>. QED BY <1>1, <1>2, <1>3, <1>4, <1>5, EnqueueJobInv

\* touch and delete change a job of a connection that does not wait.
LEMMA HeldJobKeeps ==
  ASSUME IndInv, NEW c \in Conns, NEW j \in reserved_jobs[c], ~ cron, ~ waiting[c],
         TypeOK', HeldByOne', SoonestExact', ReservationsTold',
         \A d \in Conns \ {c} : reserved_jobs'[d] = reserved_jobs[d],
         \A k \in Jobs \ {j} : deadline_at'[k] = deadline_at[k] /\ job_state'[k] = job_state[k],
         job_state'[j] # "delayed",
         UNCHANGED <<clockVars, cronVars, waitVars, tickVars, telling>>
  PROVE  IndInv'
<1>1. timing = NoConn /\ \A d \in Conns : timing # d
  BY CommandingAlone
<1>2. \A d \in Conns \ {c} : \A k \in reserved_jobs'[d] :
        k \in reserved_jobs[d] /\ deadline_at'[k] = deadline_at[k]
  BY DEF IndInv, TypeOK, HeldByOne
<1>3. OneAtATime' /\ SoonTold' /\ DueIsOver'
  BY <1>1 DEF IndInv, OneAtATime, SoonTold, DueIsOver, cronVars, waitVars
<1>4. TickExact'
  BY <1>1, <1>2 DEF IndInv, TickExact, cronVars, waitVars, tickVars
<1>5. NothingLeft' /\ TickListed'
  BY <1>2 DEF IndInv, NothingLeft, TickListed, InOrder, clockVars, cronVars, waitVars, tickVars,
              connsVars
<1>. QED BY <1>3, <1>4, <1>5 DEF IndInv

LEMMA TouchKeeps ==
  ASSUME IndInv, NEW c \in Conns, NEW j \in Jobs, Touch(c, j)
  PROVE  IndInv'
<1>1. now \in Nat /\ Margin \in Nat /\ ttr[j] \in Nat /\ ttr[j] >= Margin
  BY Numbers
<1>2. JobTypes /\ j \in reserved_jobs[c]
  BY DEF Touch, IndInv, TypeOK, JobTypes
<1>3. /\ deadline_at'[j] = now + ttr[j]
      /\ \A k \in Jobs \ {j} : deadline_at'[k] = deadline_at[k]
      /\ soonest_job'[c] = NoJob
      /\ \A d \in Conns \ {c} : soonest_job'[d] = soonest_job[d]
      /\ UNCHANGED <<job_state, reserved_jobs>>
  BY <1>2 DEF Touch, TouchJob, CacheCleared, JobTypes
<1>4. deadline_at' \in [Jobs -> Nat] /\ soonest_job' \in [Conns -> Jobs \union {NoJob}]
  BY <1>1, <1>2 DEF Touch, TouchJob, CacheCleared, JobTypes
<1>5. TypeOK'
  BY <1>4 DEF Touch, IndInv, TypeOK, clockVars, cronVars, waitVars, tickVars, connsVars
<1>6. HeldByOne'
  BY <1>1, <1>2, <1>3 DEF IndInv, HeldByOne, JobTypes
<1>7. SoonestExact'
  BY <1>2, <1>3 DEF IndInv, SoonestExact, HeldByOne, JobTypes
<1>8. ReservationsTold'
  BY <1>3 DEF Touch, IndInv, ReservationsTold
<1>9. job_state'[j] # "delayed"
  BY <1>2, <1>3 DEF IndInv, HeldByOne
<1>. QED
  BY <1>2, <1>3, <1>5, <1>6, <1>7, <1>8, <1>9, HeldJobKeeps DEF Touch, Commanding

LEMMA DeleteKeeps ==
  ASSUME IndInv, NEW c \in Conns, NEW j \in Jobs, Delete(c, j)
  PROVE  IndInv'
<1>1. JobTypes /\ j \in reserved_jobs[c]
  BY DEF Delete, IndInv, TypeOK, JobTypes
<1>2. /\ Free(j, Released(c, j), CacheCleared(c))
      /\ \A d \in Conns \ {c} : Released(c, j)[d] = reserved_jobs[d]
  BY <1>1, ReleasedFree
<1>3. /\ reserved_jobs' = Released(c, j) /\ soonest_job' = CacheCleared(c)
      /\ job_state'[j] = "none"
      /\ \A k \in Jobs \ {j} : deadline_at'[k] = deadline_at[k] /\ job_state'[k] = job_state[k]
  BY <1>1 DEF Delete, JobTypes
<1>4. TypeOK'
  BY <1>2, <1>3 DEF Delete, Free, IndInv, TypeOK, NoTime, clockVars, cronVars, waitVars, tickVars,
                    connsVars
<1>5. HeldByOne' /\ SoonestExact'
  BY <1>1, <1>2, <1>3 DEF IndInv, HeldByOne, SoonestExact, Free, JobTypes
<1>6. ReservationsTold'
  BY <1>2, <1>3 DEF Delete, Free, IndInv, TypeOK, ReservationsTold
<1>. QED BY <1>1, <1>2, <1>3, <1>4, <1>5, <1>6, HeldJobKeeps DEF Delete, Commanding

LEMMA ReplySentKeeps ==
  ASSUME IndInv, NEW c \in Conns, ReplySent(c)
  PROVE  IndInv'
<1>1. timing = NoConn
  BY CommandingAlone DEF ReplySent
<1>2. /\ telling[c] \in Jobs
      /\ known' = [known EXCEPT ![c] = @ \union {telling[c]}]
      /\ telling' = [telling EXCEPT ![c] = NoJob]
      /\ known \in [Conns -> SUBSET Jobs] /\ telling \in [Conns -> Jobs \union {NoJob}]
  BY DEF ReplySent, IndInv, TypeOK
<1>3. known' \in [Conns -> SUBSET Jobs] /\ telling' \in [Conns -> Jobs \union {NoJob}]
  BY <1>2
<1>4. TypeOK'
  BY <1>3 DEF ReplySent, IndInv, TypeOK, clockVars, cronVars, jobVars, heldVars, waitVars,
              tickVars, connsVars
<1>5. ReservationsTold' /\ OneAtATime' /\ SoonTold'
  BY <1>1, <1>2 DEF ReplySent, IndInv, ReservationsTold, OneAtATime, SoonTold, cronVars, heldVars,
                    waitVars
<1>6. HeldByOne' /\ SoonestExact' /\ TickExact' /\ TickListed' /\ DueIsOver' /\ NothingLeft'
  BY DEF ReplySent, IndInv, HeldByOne, SoonestExact, TickExact, TickListed, InOrder, DueIsOver,
         NothingLeft, clockVars, cronVars, jobVars, heldVars, waitVars, tickVars, connsVars
<1>. QED BY <1>4, <1>5, <1>6 DEF IndInv

\* The answer of conn_soonest_reserved_job is as good a cache as the one before.
LEMMA CachedFree ==
  ASSUME IndInv, NEW c \in Conns, NEW s \in Soonest(c)
  PROVE  /\ Cached(c, s) \in [Conns -> Jobs \union {NoJob}]
         /\ \A d \in Conns : Cached(c, s)[d] # NoJob =>
              /\ Cached(c, s)[d] \in reserved_jobs[d]
              /\ \A k \in reserved_jobs[d] : deadline_at[Cached(c, s)[d]] <= deadline_at[k]
<1>1. soonest_job \in [Conns -> Jobs \union {NoJob}] /\ s \in Jobs \union {NoJob}
  BY SoonestLeast DEF IndInv, TypeOK
<1>2. Cached(c, s)[c] = s /\ \A d \in Conns \ {c} : Cached(c, s)[d] = soonest_job[d]
  BY <1>1 DEF Cached
<1>3. Cached(c, s) \in [Conns -> Jobs \union {NoJob}]
  BY <1>1 DEF Cached
<1>. QED BY <1>2, <1>3, SoonestLeast DEF IndInv, SoonestExact

\* Asking for the soonest job changes nothing but the cache.
LEMMA CachedKeeps ==
  ASSUME IndInv, NEW c \in Conns, NEW s \in Soonest(c), soonest_job' = Cached(c, s),
         UNCHANGED <<deadline_at, reserved_jobs>>
  PROVE  SoonestExact' /\ soonest_job' \in [Conns -> Jobs \union {NoJob}]
BY CachedFree DEF SoonestExact

\* What the move of c in srv->conns does while srv->conns is in order.
LEMMA MoveTickExact ==
  ASSUME TypeOK, NEW c \in Conns, NEW needs \in BOOLEAN, NEW later, MoveTick(c, needs, later)
  PROVE  /\ ticking' \in [Conns -> BOOLEAN] /\ displaced' \in BOOLEAN
         /\ InOrder' => /\ InOrder /\ ticking'[c] = needs
                        /\ \A d \in Conns \ {c} : ticking'[d] = ticking[d]
<1>. ticking \in [Conns -> BOOLEAN] /\ displaced \in BOOLEAN
  BY DEF TypeOK
<1>1. CASE /\ ~ displaced
           /\ \E stored \in Allocations : ticking' = [ticking EXCEPT ![c] = needs /\ stored]
           /\ UNCHANGED displaced
  <2>1. PICK stored \in Allocations : ticking' = [ticking EXCEPT ![c] = needs /\ stored]
    BY <1>1
  <2>2. (stored \/ AllocMayFail) /\ stored \in BOOLEAN
    BY DEF Allocations
  <2>. QED BY <1>1, <2>1, <2>2 DEF InOrder
<1>2. CASE /\ ~ displaced /\ ticking[c]
           /\ \E d \in later \ {c} : ticking[d] /\ ticking' = [ticking EXCEPT ![d] = FALSE]
           /\ displaced' = TRUE
  BY <1>2 DEF InOrder
<1>3. CASE displaced /\ Scramble(c) /\ UNCHANGED displaced
  BY <1>3 DEF Scramble, InOrder
<1>. QED BY <1>1, <1>2, <1>3 DEF MoveTick

\* The tick that wait_for_job or conn_timeout sets is a number, and moves nobody
\* else while srv->conns is in order.
LEMMA TickTyped ==
  ASSUME IndInv, NEW c \in Conns, NEW s \in Soonest(c), NEW waits \in BOOLEAN,
         NEW timeout \in Nat \union {NoTimeout}, SetTick(c, TickAt(s, waits, timeout))
  PROVE  /\ tickat' \in [Conns -> Nat] /\ tickat'[c] = TickAt(s, waits, timeout)
         /\ \A d \in Conns \ {c} : tickat'[d] = tickat[d]
         /\ ticking' \in [Conns -> BOOLEAN] /\ displaced' \in BOOLEAN
         /\ InOrder' => /\ InOrder /\ (ticking'[c] <=> tickat'[c] # NoTick)
                        /\ \A d \in Conns \ {c} : ticking'[d] = ticking[d]
<1>1. tickat \in [Conns -> Nat] /\ TypeOK
  BY DEF IndInv, TypeOK
<1>2. s \in Jobs \union {NoJob} /\ (s # NoJob => deadline_at[s] >= Margin)
  BY SoonestLeast DEF IndInv, HeldByOne
<1>3. TickAt(s, waits, timeout) \in Nat
  BY <1>2, TickAtFirst
<1>4. /\ tickat' = [tickat EXCEPT ![c] = TickAt(s, waits, timeout)]
      /\ \E later : MoveTick(c, TickAt(s, waits, timeout) # NoTick, later)
  BY DEF SetTick
<1>5. tickat'[c] = TickAt(s, waits, timeout)
  BY <1>1, <1>4
<1>6. PICK later : MoveTick(c, TickAt(s, waits, timeout) # NoTick, later)
  BY <1>4
<1>7. /\ ticking' \in [Conns -> BOOLEAN] /\ displaced' \in BOOLEAN
      /\ InOrder' => /\ InOrder /\ ticking'[c] = (TickAt(s, waits, timeout) # NoTick)
                     /\ \A d \in Conns \ {c} : ticking'[d] = ticking[d]
  BY <1>1, <1>6, MoveTickExact
<1>. QED BY <1>1, <1>3, <1>4, <1>5, <1>6, <1>7

LEMMA ReserveKeeps ==
  ASSUME IndInv, NEW c \in Conns, NEW timeout \in Waits, Reserve(c, timeout)
  PROVE  IndInv'
<1>1. /\ timing = NoConn /\ (\A d \in Conns : timing # d)
      /\ ~ waiting[c] /\ telling[c] = NoJob /\ UNCHANGED <<clockVars, cronVars, known>>
  BY CommandingAlone DEF Reserve, Commanding
<1>2. timeout \in Nat \union {NoTimeout} /\ NoTimeout \notin Nat
  BY TimesAssumption DEF NoTimeout
<1>3. PICK s \in Soonest(c) :
       \/ /\ DeadlineSoon(s) /\ Ready = {}
          /\ soonest_job' = Cached(c, s)
          /\ UNCHANGED <<jobVars, reserved_jobs, waitVars, tickVars, telling>>
       \/ /\ ~ DeadlineSoon(s) \/ Ready # {}
          /\ pending_timeout' = [pending_timeout EXCEPT ![c] = timeout]
          /\ SetTick(c, TickAt(s, TRUE, timeout))
          /\ \/ \E j \in Ready : ReserveJob(c, j, reserved_jobs, Cached(c, s))
             \/ /\ Ready = {}
                /\ waiting' = [waiting EXCEPT ![c] = TRUE]
                /\ until' = [until EXCEPT ![c] =
                               IF timeout = NoTimeout THEN NoTime ELSE now + timeout]
                /\ soonest_job' = Cached(c, s)
                /\ UNCHANGED <<job_state, deadline_at, reserved_jobs, telling>>
          /\ UNCHANGED ttr
  BY DEF Reserve
<1>4. SoonTold' /\ DueIsOver'
  BY <1>1 DEF SoonTold, DueIsOver, cronVars, IndInv
<1>5. CASE /\ soonest_job' = Cached(c, s)
           /\ UNCHANGED <<jobVars, reserved_jobs, waitVars, tickVars, telling>>
  <2>1. SoonestExact' /\ soonest_job' \in [Conns -> Jobs \union {NoJob}]
    BY <1>5, CachedKeeps DEF jobVars
  <2>2. TypeOK'
    BY <1>1, <1>5, <2>1 DEF IndInv, TypeOK, clockVars, cronVars, jobVars, waitVars, tickVars,
                            connsVars
  <2>3. HeldByOne' /\ OneAtATime' /\ ReservationsTold' /\ TickExact' /\ TickListed' /\ NothingLeft'
    BY <1>1, <1>5 DEF IndInv, HeldByOne, OneAtATime, ReservationsTold, TickExact, TickListed,
         InOrder, NothingLeft, clockVars, cronVars, jobVars, waitVars, tickVars, connsVars
  <2>. QED BY <1>4, <2>1, <2>2, <2>3 DEF IndInv
<1>6. ASSUME pending_timeout' = [pending_timeout EXCEPT ![c] = timeout],
             SetTick(c, TickAt(s, TRUE, timeout)), UNCHANGED ttr,
             NEW j \in Ready, ReserveJob(c, j, reserved_jobs, Cached(c, s))
      PROVE  IndInv'
  <2>1. j \in Jobs /\ Free(j, reserved_jobs, Cached(c, s))
    BY UnheldFree, CachedFree DEF Ready, Free
  <2>2. JobTypes' /\ HeldByOne' /\ SoonestExact'
    BY <1>6, <2>1, ReserveJobKeeps DEF Free
  <2>3. /\ tickat' \in [Conns -> Nat]
        /\ \A d \in Conns \ {c} : tickat'[d] = tickat[d] /\ pending_timeout'[d] = pending_timeout[d]
        /\ pending_timeout' \in [Conns -> Nat \union {NoTimeout}]
        /\ ticking' \in [Conns -> BOOLEAN] /\ displaced' \in BOOLEAN
        /\ InOrder' => InOrder /\ \A d \in Conns \ {c} : ticking'[d] = ticking[d]
    BY <1>2, <1>6, TickTyped DEF IndInv, TypeOK
  <2>4. TypeOK'
    BY <1>1, <1>6, <2>2, <2>3 DEF IndInv, TypeOK, JobTypes, clockVars, cronVars
  <2>5. /\ ~ waiting'[c] /\ reserved_jobs'[c] = reserved_jobs[c] \union {j} /\ telling'[c] = j
        /\ \A d \in Conns \ {c} :
             /\ waiting'[d] = waiting[d] /\ until'[d] = until[d] /\ telling'[d] = telling[d]
             /\ reserved_jobs'[d] = reserved_jobs[d]
             /\ \A k \in reserved_jobs[d] : k # j /\ k \in Jobs
        /\ \A k \in Jobs \ {j} : deadline_at'[k] = deadline_at[k] /\ job_state'[k] = job_state[k]
        /\ job_state'[j] = "reserved"
    BY <1>6, <2>1 DEF ReserveJob, Free, IndInv, TypeOK
  <2>6. OneAtATime' /\ ReservationsTold'
    <3>1. reserved_jobs[c] \subseteq known[c]
      BY <1>1, NullsAssumption DEF IndInv, TypeOK, ReservationsTold
    <3>2. ReservationsTold'
      BY <1>1, <2>5, <3>1 DEF IndInv, ReservationsTold
    <3>3. OneAtATime'
      BY <1>1, <2>5 DEF IndInv, OneAtATime, cronVars
    <3>. QED BY <3>2, <3>3
  <2>7. TickExact' /\ TickListed'
    BY <1>1, <2>3, <2>5 DEF IndInv, TickExact, TickListed, cronVars
  <2>8. NothingLeft'
    BY <1>1, <2>3, <2>5 DEF IndInv, NothingLeft, clockVars
  <2>. QED BY <1>4, <2>2, <2>4, <2>6, <2>7, <2>8 DEF IndInv
<1>7. CASE /\ ~ DeadlineSoon(s)
           /\ pending_timeout' = [pending_timeout EXCEPT ![c] = timeout]
           /\ SetTick(c, TickAt(s, TRUE, timeout)) /\ UNCHANGED ttr
           /\ waiting' = [waiting EXCEPT ![c] = TRUE]
           /\ until' = [until EXCEPT ![c] = IF timeout = NoTimeout THEN NoTime ELSE now + timeout]
           /\ soonest_job' = Cached(c, s)
           /\ UNCHANGED <<job_state, deadline_at, reserved_jobs, telling>>
  <2>1. SoonestExact' /\ soonest_job' \in [Conns -> Jobs \union {NoJob}]
    BY <1>7, CachedKeeps
  <2>2. /\ tickat' \in [Conns -> Nat] /\ tickat'[c] = TickAt(s, TRUE, timeout)
        /\ \A d \in Conns \ {c} : tickat'[d] = tickat[d]
        /\ ticking' \in [Conns -> BOOLEAN] /\ displaced' \in BOOLEAN
        /\ InOrder' => /\ InOrder /\ (ticking'[c] <=> tickat'[c] # NoTick)
                       /\ \A d \in Conns \ {c} : ticking'[d] = ticking[d]
    BY <1>2, <1>7, TickTyped
  <2>3. /\ pending_timeout' \in [Conns -> Nat \union {NoTimeout}] /\ pending_timeout'[c] = timeout
        /\ until' \in [Conns -> Nat] /\ (timeout # NoTimeout => until'[c] = now + timeout)
        /\ waiting' \in [Conns -> BOOLEAN]
        /\ \A d \in Conns \ {c} :
             /\ pending_timeout'[d] = pending_timeout[d] /\ until'[d] = until[d]
             /\ waiting'[d] = waiting[d]
    BY <1>2, <1>7, Numbers DEF IndInv, TypeOK, NoTime
  <2>4. TypeOK'
    BY <1>1, <1>7, <2>1, <2>2, <2>3 DEF IndInv, TypeOK, clockVars, cronVars
  <2>5. /\ HeldByOne' /\ ReservationsTold' /\ OneAtATime'
    BY <1>1, <1>7, <2>3 DEF IndInv, HeldByOne, ReservationsTold, OneAtATime, cronVars
  <2>6. /\ s = NoJob => reserved_jobs[c] = {}
        /\ s # NoJob => /\ s \in reserved_jobs[c] /\ now < deadline_at[s] - Margin
                        /\ deadline_at[s] \in Nat /\ deadline_at[s] >= Margin
        /\ \A j \in reserved_jobs[c] : deadline_at[j] \in Nat /\ deadline_at[s] <= deadline_at[j]
    BY <1>7, SoonestLeast, Numbers DEF DeadlineSoon, IndInv, TypeOK, HeldByOne
  <2>7. \A j \in reserved_jobs[c] : now < deadline_at[j] - Margin
    BY <2>6, Numbers
  <2>8. /\ s # NoJob => tickat'[c] <= deadline_at[s] - Margin
        /\ timeout # NoTimeout => tickat'[c] <= now + timeout
        /\ \/ tickat'[c] = NoTick /\ s = NoJob /\ timeout = NoTimeout
           \/ s # NoJob /\ tickat'[c] = deadline_at[s] - Margin
           \/ timeout # NoTimeout /\ tickat'[c] = now + timeout
    <3>1. s \in Jobs \union {NoJob}
      BY SoonestLeast
    <3>2. s # NoJob => deadline_at[s] >= Margin
      BY <2>6
    <3>. QED BY <1>2, <2>2, <3>1, <3>2, TickAtFirst
  <2>9. s # NoJob \/ timeout # NoTimeout => tickat'[c] # NoTick
    <3>1. now \in Nat /\ now >= 1 /\ Margin \in Nat
      BY Numbers
    <3>2. CASE s # NoJob /\ tickat'[c] = deadline_at[s] - Margin
      BY <2>6, <3>1, <3>2 DEF NoTick
    <3>3. CASE timeout # NoTimeout /\ tickat'[c] = now + timeout
      BY <1>2, <3>1, <3>3 DEF NoTick
    <3>. QED BY <2>8, <3>2, <3>3
  <2>10. TickExact'
    <3>1. ASSUME NEW d \in Conns \ {c}, waiting'[d]
          PROVE  /\ \A j \in reserved_jobs'[d] :
                      tickat'[d] # NoTick /\ tickat'[d] <= deadline_at'[j] - Margin
                 /\ pending_timeout'[d] # NoTimeout => tickat'[d] # NoTick /\ tickat'[d] <= until'[d]
                 /\ \/ pending_timeout'[d] = NoTimeout /\ reserved_jobs'[d] = {}
                    \/ pending_timeout'[d] # NoTimeout /\ tickat'[d] = until'[d]
                    \/ \E j \in reserved_jobs'[d] : tickat'[d] = deadline_at'[j] - Margin
      BY <1>1, <1>7, <2>2, <2>3, <3>1 DEF IndInv, TickExact
    <3>2. ASSUME NEW j \in reserved_jobs[c]
          PROVE  tickat'[c] # NoTick /\ tickat'[c] <= deadline_at[j] - Margin
      <4>1. s # NoJob
        BY <2>6
      <4>2. tickat'[c] \in Int /\ Margin \in Int
        <5>1. tickat'[c] \in Nat  BY <2>2
        <5>2. Margin \in Nat  BY Numbers
        <5>. QED BY <5>1, <5>2
      <4>3. deadline_at[s] \in Int /\ deadline_at[j] \in Int /\ deadline_at[s] <= deadline_at[j]
        BY <2>6, <4>1
      <4>4. tickat'[c] <= deadline_at[s] - Margin
        BY <2>8, <4>1
      <4>. QED BY <2>9, <4>1, <4>2, <4>3, <4>4
    <3>3. /\ timeout # NoTimeout => tickat'[c] # NoTick /\ tickat'[c] <= until'[c]
          /\ \/ timeout = NoTimeout /\ reserved_jobs[c] = {}
             \/ timeout # NoTimeout /\ tickat'[c] = until'[c]
             \/ \E j \in reserved_jobs[c] : tickat'[c] = deadline_at[j] - Margin
      BY <2>3, <2>6, <2>8, <2>9
    <3>. QED BY <1>7, <2>3, <3>1, <3>2, <3>3 DEF TickExact
  <2>11. NothingLeft'
    <3>1. last_cron \in Int /\ now \in Int /\ last_cron <= now /\ Margin \in Int
      BY Numbers DEF IndInv, TypeOK
    <3>2. \A j \in reserved_jobs[c] : last_cron < deadline_at[j] - Margin
      BY <2>6, <2>7, <3>1
    <3>. QED BY <1>1, <1>7, <2>2, <2>3, <3>2 DEF IndInv, NothingLeft, clockVars
  <2>12. TickListed'
    BY <1>1, <1>7, <2>2, <2>3, <2>6, <2>9 DEF IndInv, TickListed, cronVars
  <2>. QED BY <1>4, <2>1, <2>4, <2>5, <2>10, <2>11, <2>12 DEF IndInv
<1>. QED BY <1>3, <1>5, <1>6, <1>7

-----------------------------------------------------------------------------
(* conn_cron and the clock. *)

LEMMA CronStartsKeeps ==
  ASSUME IndInv, CronStarts
  PROVE  IndInv'
<1>1. TypeOK'
  BY DEF CronStarts, IndInv, TypeOK, clockVars, jobVars, heldVars, waitVars, tickVars, connsVars
<1>2. /\ HeldByOne' /\ SoonestExact' /\ OneAtATime' /\ ReservationsTold' /\ SoonTold'
      /\ TickExact' /\ TickListed' /\ DueIsOver' /\ NothingLeft'
  BY DEF CronStarts, IndInv, HeldByOne, SoonestExact, OneAtATime, ReservationsTold, SoonTold,
         TickExact, TickListed, InOrder, DueIsOver, NothingLeft, clockVars, jobVars, heldVars,
         waitVars, tickVars, connsVars
<1>. QED BY <1>1, <1>2 DEF IndInv

LEMMA CronDelayedKeeps ==
  ASSUME IndInv, CronDelayed
  PROVE  IndInv'
<1>1. PICK j \in Overdue : EnqueueReady(j, reserved_jobs, soonest_job)
  BY DEF CronDelayed
<1>2. j \in Jobs /\ Free(j, reserved_jobs, soonest_job)
  BY UnheldFree DEF Overdue
<1>3. EnqueueJob(j, 0, reserved_jobs, soonest_job) /\ 0 \in Nat
  BY <1>1 DEF EnqueueJob
<1>4. /\ timing = NoConn /\ known' = known /\ known \in [Conns -> SUBSET Jobs] /\ rearm' \in BOOLEAN
      /\ UNCHANGED <<clockVars, cron, timing, soon, ttr, tickVars>>
  BY DEF CronDelayed, cronVars, IndInv, TypeOK
<1>. QED BY <1>2, <1>3, <1>4, EnqueueJobInv

LEMMA CronTickKeeps ==
  ASSUME IndInv, NEW c \in Conns, CronTick(c)
  PROVE  IndInv'
<1>1. /\ cron /\ timing = NoConn /\ timing' = c /\ c \in Due
      /\ tickat' = [tickat EXCEPT ![c] = NoTick]
      /\ UNCHANGED <<clockVars, cron, rearm, jobVars, reserved_jobs, waitVars, pending_timeout,
                     telling, known>>
  BY DEF CronTick
<1>2. /\ tickat' \in [Conns -> Nat]
      /\ \A d \in Conns \ {c} : tickat'[d] = tickat[d]
  BY <1>1 DEF IndInv, TypeOK, NoTick
<1>3. /\ SoonestExact' /\ soonest_job' \in [Conns -> Jobs \union {NoJob}] /\ soon' \in BOOLEAN
      /\ soon' => waiting[c]
      /\ waiting[c] => \E s \in Soonest(c) : soon' = DeadlineSoon(s)
  <2>1. CASE waiting[c] /\ \E s \in Soonest(c) : soon' = DeadlineSoon(s) /\ soonest_job' = Cached(c, s)
    <3>1. PICK s \in Soonest(c) : soon' = DeadlineSoon(s) /\ soonest_job' = Cached(c, s)
      BY <2>1
    <3>2. SoonestExact' /\ soonest_job' \in [Conns -> Jobs \union {NoJob}]
      BY <1>1, <3>1, CachedKeeps DEF jobVars
    <3>3. soon' \in BOOLEAN
      BY <3>1 DEF DeadlineSoon
    <3>. QED BY <2>1, <3>1, <3>2, <3>3
  <2>2. CASE ~ waiting[c] /\ soon' = FALSE /\ UNCHANGED soonest_job
    BY <1>1, <2>2 DEF IndInv, TypeOK, SoonestExact, jobVars
  <2>. QED BY <2>1, <2>2 DEF CronTick
<1>4. TypeOK'
  <2>1. ticking' \in [Conns -> BOOLEAN] /\ displaced' \in BOOLEAN
    BY DEF CronTick, PopTick, IndInv, TypeOK
  <2>. QED BY <1>1, <1>2, <1>3, <2>1 DEF IndInv, TypeOK, clockVars, jobVars, waitVars
<1>5. /\ HeldByOne' /\ OneAtATime' /\ ReservationsTold' /\ NothingLeft'
      /\ InOrder' => /\ InOrder
                     /\ \A d \in Conns \ {c} : ticking'[d] = ticking[d]
  <2>1. InOrder' => InOrder /\ \A d \in Conns \ {c} : ticking'[d] = ticking[d]
    BY DEF CronTick, PopTick, InOrder, IndInv, TypeOK
  <2>. QED BY <1>1, <2>1 DEF IndInv, HeldByOne, OneAtATime, ReservationsTold, NothingLeft,
                             clockVars, jobVars, waitVars
<1>6. SoonTold'
  BY <1>1, <1>3, NullsAssumption DEF IndInv, SoonTold, OneAtATime, ReservationsTold, TypeOK
<1>7. TickExact' /\ TickListed'
  BY <1>1, <1>2, <1>5, NullsAssumption DEF IndInv, TickExact, TickListed, jobVars, waitVars
<1>8. ASSUME waiting[c], ~ soon'
      PROVE  /\ IF pending_timeout[c] = NoTimeout THEN reserved_jobs[c] = {} ELSE until[c] <= now
             /\ \A j \in reserved_jobs[c] : now < deadline_at[j] - Margin
  <2>1. PICK s \in Soonest(c) : ~ DeadlineSoon(s)
    BY <1>3, <1>8
  <2>2. now \in Nat /\ Margin \in Nat /\ \A j \in Jobs : deadline_at[j] \in Nat
    BY Numbers DEF IndInv, TypeOK
  <2>3. ASSUME NEW j \in reserved_jobs[c]
        PROVE  now < deadline_at[j] - Margin
    <3>1. s # NoJob /\ s \in reserved_jobs[c] /\ deadline_at[s] <= deadline_at[j]
      BY SoonestLeast
    <3>2. s \in Jobs /\ j \in Jobs
      BY <3>1 DEF IndInv, TypeOK
    <3>. QED BY <2>1, <2>2, <3>1, <3>2 DEF DeadlineSoon
  <2>4. tickat[c] <= now
    BY <1>1 DEF Due
  <2>5. timing # c
    BY <1>1, NullsAssumption
  <2>6. IF pending_timeout[c] = NoTimeout THEN reserved_jobs[c] = {} ELSE tickat[c] = until[c]
    <3>1. \A j \in reserved_jobs[c] : tickat[c] # deadline_at[j] - Margin
      <4>1. ASSUME NEW j \in reserved_jobs[c]
            PROVE  tickat[c] # deadline_at[j] - Margin
        <5>1. tickat[c] \in Nat /\ j \in Jobs
          BY DEF IndInv, TypeOK
        <5>. QED BY <2>2, <2>3, <2>4, <5>1
      <4>. QED BY <4>1
    <3>. QED BY <1>8, <2>4, <2>5, <3>1 DEF IndInv, TickExact
  <2>. QED BY <2>3, <2>4, <2>6
<1>9. DueIsOver'
  BY <1>1, <1>8 DEF DueIsOver, clockVars, jobVars, waitVars
<1>. QED BY <1>3, <1>4, <1>5, <1>6, <1>7, <1>9 DEF IndInv

LEMMA TimeoutJobKeeps ==
  ASSUME IndInv, NEW c \in Conns, TimeoutJob(c)
  PROVE  IndInv'
<1>1. PICK j \in Soonest(c) : Over(j) /\ EnqueueReady(j, Released(c, j), CacheCleared(c))
  BY DEF TimeoutJob
<1>2. j \in reserved_jobs[c]
  BY <1>1, SoonestLeast DEF Over
<1>3. /\ j \in Jobs /\ Free(j, Released(c, j), CacheCleared(c))
      /\ \A d \in Conns \ {c} : Released(c, j)[d] = reserved_jobs[d]
  BY <1>2, ReleasedFree
<1>4. EnqueueJob(j, 0, Released(c, j), CacheCleared(c)) /\ 0 \in Nat
  BY <1>1 DEF EnqueueJob
<1>5. /\ timing = c /\ known' = known /\ known \in [Conns -> SUBSET Jobs] /\ rearm' \in BOOLEAN
      /\ UNCHANGED <<clockVars, cron, timing, soon, ttr, tickVars>>
  BY DEF TimeoutJob, IndInv, TypeOK
<1>6. timing # NoConn /\ soon => j \in known'[timing]
  BY <1>2, <1>5 DEF IndInv, SoonTold
<1>. QED BY <1>3, <1>4, <1>5, <1>6, EnqueueJobInv

LEMMA TimeoutRearmKeeps ==
  ASSUME IndInv, NEW c \in Conns, TimeoutRearm(c)
  PROVE  IndInv'
<1>1. PICK s \in Soonest(c) :
        SetTick(c, TickAt(s, waiting[c], pending_timeout[c])) /\ soonest_job' = Cached(c, s)
  BY DEF TimeoutRearm
<1>2. /\ timing = c /\ rearm' = FALSE
      /\ UNCHANGED <<clockVars, cron, timing, soon, jobVars, reserved_jobs, waitVars,
                     pending_timeout, telling, known>>
  BY DEF TimeoutRearm
<1>3. SoonestExact' /\ soonest_job' \in [Conns -> Jobs \union {NoJob}]
  BY <1>1, <1>2, CachedKeeps DEF jobVars
<1>4. waiting[c] \in BOOLEAN /\ pending_timeout[c] \in Nat \union {NoTimeout}
  BY DEF IndInv, TypeOK
<1>5. /\ tickat' \in [Conns -> Nat] /\ \A d \in Conns \ {c} : tickat'[d] = tickat[d]
      /\ ticking' \in [Conns -> BOOLEAN] /\ displaced' \in BOOLEAN
      /\ InOrder' => InOrder /\ \A d \in Conns \ {c} : ticking'[d] = ticking[d]
  BY <1>1, <1>4, TickTyped
<1>6. TypeOK'
  BY <1>2, <1>3, <1>5 DEF IndInv, TypeOK, clockVars, jobVars, waitVars
<1>7. HeldByOne' /\ OneAtATime' /\ ReservationsTold' /\ SoonTold' /\ DueIsOver' /\ NothingLeft'
  BY <1>2, <1>5 DEF IndInv, HeldByOne, OneAtATime, ReservationsTold, SoonTold, DueIsOver,
                    NothingLeft, clockVars, jobVars, waitVars
<1>8. TickExact' /\ TickListed'
  BY <1>2, <1>5 DEF IndInv, TickExact, TickListed, jobVars, waitVars
<1>. QED BY <1>3, <1>6, <1>7, <1>8 DEF IndInv

LEMMA TimeoutEndsKeeps ==
  ASSUME IndInv, NEW c \in Conns, TimeoutEnds(c)
  PROVE  IndInv'
<1>1. PICK s \in Soonest(c) : soonest_job' = Cached(c, s)
  BY DEF TimeoutEnds
<1>2. /\ timing = c /\ timing' = NoConn /\ soon' = FALSE /\ Answer(c)
      /\ UNCHANGED <<clockVars, cron, rearm, jobVars, reserved_jobs, tickat, connsVars, known>>
  BY DEF TimeoutEnds
<1>3. SoonestExact' /\ soonest_job' \in [Conns -> Jobs \union {NoJob}]
  BY <1>1, <1>2, CachedKeeps DEF jobVars
<1>4. JobTypes /\ pending_timeout \in [Conns -> Nat \union {NoTimeout}]
  BY DEF IndInv, TypeOK, JobTypes
<1>5. /\ waiting' \in [Conns -> BOOLEAN] /\ until' \in [Conns -> Nat]
      /\ telling' \in [Conns -> Jobs \union {NoJob}]
      /\ pending_timeout' \in [Conns -> Nat \union {NoTimeout}]
      /\ \A d \in Conns \ {c} : /\ waiting'[d] = waiting[d] /\ until'[d] = until[d]
                              /\ telling'[d] = telling[d] /\ pending_timeout'[d] = pending_timeout[d]
      /\ waiting'[c] => /\ waiting[c] /\ reserved_jobs[c] = {} /\ telling'[c] = telling[c]
                        /\ pending_timeout'[c] = NoTimeout
      /\ telling'[c] = telling[c] \/ (soon /\ telling'[c] = NoJob)
  <2>1. CASE /\ soon
             /\ waiting' = [waiting EXCEPT ![c] = FALSE] /\ until' = [until EXCEPT ![c] = NoTime]
             /\ telling' = [telling EXCEPT ![c] = NoJob]
             /\ UNCHANGED pending_timeout
    <3>1. telling'[c] = NoJob
      BY <1>4, <2>1 DEF JobTypes
    <3>. QED BY <1>4, <2>1, <3>1 DEF JobTypes, NoTime
  <2>2. CASE /\ waiting' = [waiting EXCEPT ![c] = FALSE] /\ until' = [until EXCEPT ![c] = NoTime]
             /\ pending_timeout' = [pending_timeout EXCEPT ![c] = NoTimeout]
             /\ UNCHANGED telling
    <3>1. telling'[c] = telling[c]
      BY <2>2
    <3>. QED BY <1>4, <2>2, <3>1 DEF JobTypes, NoTime
  <2>3. CASE /\ ~ soon /\ ~ (waiting[c] /\ pending_timeout[c] # NoTimeout)
             /\ UNCHANGED <<waitVars, pending_timeout, telling>>
    <3>1. telling'[c] = telling[c] /\ pending_timeout'[c] = pending_timeout[c]
          /\ (waiting[c] => reserved_jobs[c] = {} /\ pending_timeout[c] = NoTimeout)
      BY <1>2, <2>3 DEF IndInv, DueIsOver
    <3>. QED BY <1>4, <2>3, <3>1 DEF JobTypes, waitVars
  <2>. QED BY <1>2, <2>1, <2>2, <2>3 DEF Answer
<1>6. TypeOK'
  BY <1>2, <1>3, <1>5 DEF IndInv, TypeOK, clockVars, jobVars, connsVars
<1>7. HeldByOne' /\ SoonTold' /\ DueIsOver'
  BY <1>2, NullsAssumption DEF IndInv, HeldByOne, SoonTold, DueIsOver, jobVars
<1>8. OneAtATime'
  BY <1>2, <1>5 DEF IndInv, OneAtATime
<1>9. ReservationsTold'
  BY <1>2, <1>5, NullsAssumption DEF IndInv, ReservationsTold, SoonTold
<1>10. TickExact' /\ TickListed'
  BY <1>2, <1>5 DEF IndInv, TickExact, TickListed, InOrder, jobVars, connsVars
<1>11. NothingLeft'
  BY <1>2, <1>5 DEF IndInv, NothingLeft, InOrder, clockVars, jobVars, connsVars
<1>. QED BY <1>3, <1>6, <1>7, <1>8, <1>9, <1>10, <1>11 DEF IndInv

\* When conn_cron ends, no tick of a client that waits has come.
LEMMA NoTickDue ==
  ASSUME IndInv, InOrder, CronEnds, NEW c \in Conns, waiting[c]
  PROVE  /\ \A j \in reserved_jobs[c] : now < deadline_at[j] - Margin
         /\ pending_timeout[c] # NoTimeout => now < until[c]
<1>1. /\ \A j \in reserved_jobs[c] : tickat[c] # NoTick /\ tickat[c] <= deadline_at[j] - Margin
      /\ pending_timeout[c] # NoTimeout => tickat[c] # NoTick /\ tickat[c] <= until[c]
  BY NullsAssumption DEF CronEnds, IndInv, TickExact
<1>2. reserved_jobs[c] # {} \/ pending_timeout[c] # NoTimeout => tickat[c] > now
  <2>1. c \notin Due /\ tickat[c] \in Nat /\ now \in Nat
    BY Numbers DEF CronEnds, InOrder, IndInv, TypeOK
  <2>2. reserved_jobs[c] # {} \/ pending_timeout[c] # NoTimeout => ticking[c]
    BY NullsAssumption DEF CronEnds, IndInv, TickListed
  <2>. QED BY <2>1, <2>2 DEF Due
<1>3. now \in Nat /\ tickat[c] \in Nat /\ until[c] \in Nat /\ Margin \in Nat
  BY Numbers DEF IndInv, TypeOK
<1>4. \A j \in reserved_jobs[c] : deadline_at[j] \in Nat
  BY DEF IndInv, TypeOK
<1>. QED BY <1>1, <1>2, <1>3, <1>4

LEMMA CronEndsKeeps ==
  ASSUME IndInv, CronEnds
  PROVE  IndInv'
<1>1. now \in 1 .. MaxTime /\ now' = now /\ last_cron' \in 1 .. now'
  BY Numbers DEF CronEnds, IndInv, TypeOK
<1>2. TypeOK'
  BY <1>1 DEF CronEnds, IndInv, TypeOK, jobVars, heldVars, waitVars, tickVars, connsVars
<1>3. /\ HeldByOne' /\ SoonestExact' /\ OneAtATime' /\ ReservationsTold' /\ SoonTold'
      /\ TickExact' /\ TickListed' /\ DueIsOver'
  BY DEF CronEnds, IndInv, HeldByOne, SoonestExact, OneAtATime, ReservationsTold, SoonTold,
         TickExact, TickListed, InOrder, DueIsOver, jobVars, heldVars, waitVars, tickVars, connsVars
<1>4. NothingLeft'
  <2>1. \A j \in Jobs : job_state[j] = "delayed" => now < deadline_at[j]
    BY Numbers DEF CronEnds, Overdue, IndInv, TypeOK
  <2>2. now <= now + Lag
    BY Numbers
  <2>. QED BY <2>1, <2>2, NoTickDue
           DEF CronEnds, NothingLeft, InOrder, jobVars, heldVars, waitVars, tickVars, connsVars
<1>. QED BY <1>2, <1>3, <1>4 DEF IndInv

LEMMA AdvanceKeeps ==
  ASSUME IndInv, Advance
  PROVE  IndInv'
<1>1. timing = NoConn
  BY CommandingAlone DEF Advance
<1>2. /\ now \in 1 .. MaxTime /\ last_cron \in 1 .. now /\ MaxTime \in Nat /\ Lag \in Nat
      /\ now < MaxTime /\ now < last_cron + Lag
      /\ now' = now + 1 /\ last_cron' = last_cron
  BY TimesAssumption DEF Advance, IndInv, TypeOK
<1>3. now' \in 1 .. MaxTime /\ last_cron' \in 1 .. now' /\ now' <= last_cron' + Lag
  BY <1>2
<1>4. TypeOK'
  BY <1>3 DEF Advance, IndInv, TypeOK, cronVars, jobVars, heldVars, waitVars, tickVars, connsVars
<1>5. /\ HeldByOne' /\ SoonestExact' /\ OneAtATime' /\ ReservationsTold' /\ SoonTold'
      /\ TickExact' /\ TickListed'
  BY DEF Advance, IndInv, HeldByOne, SoonestExact, OneAtATime, ReservationsTold, SoonTold,
         TickExact, TickListed, InOrder, cronVars, jobVars, heldVars, waitVars, tickVars, connsVars
<1>6. DueIsOver'
  BY <1>1, NullsAssumption DEF Advance, DueIsOver, cronVars
<1>7. NothingLeft'
  BY <1>2, <1>3 DEF Advance, IndInv, NothingLeft, InOrder, jobVars, heldVars, waitVars, tickVars,
                    connsVars
<1>. QED BY <1>4, <1>5, <1>6, <1>7 DEF IndInv

-----------------------------------------------------------------------------
(* The invariant. *)

LEMMA InitInv ==
  ASSUME Init
  PROVE  IndInv
<1>1. MaxTime \in Nat /\ Lag \in Nat /\ 1 \in 1 .. MaxTime
  BY TimesAssumption
<1>2. TypeOK
  <2>1. now \in 1 .. MaxTime /\ last_cron \in 1 .. now
    BY <1>1 DEF Init
  <2>2. deadline_at \in [Jobs -> Nat] /\ tickat \in [Conns -> Nat] /\ until \in [Conns -> Nat]
    BY DEF Init, NoTime, NoTick
  <2>. QED BY <2>1, <2>2 DEF Init, TicksInit, TypeOK
<1>3. NothingLeft
  BY <1>1 DEF Init, NothingLeft
<1>4. /\ HeldByOne /\ SoonestExact /\ OneAtATime /\ ReservationsTold /\ SoonTold
      /\ TickExact /\ TickListed /\ DueIsOver
  BY DEF Init, HeldByOne, SoonestExact, OneAtATime, ReservationsTold, SoonTold, TickExact,
         TickListed, DueIsOver
<1>. QED BY <1>2, <1>3, <1>4 DEF IndInv

\* Nothing changes.
LEMMA StutterKeeps ==
  ASSUME IndInv, UNCHANGED timeVars
  PROVE  IndInv'
BY DEF timeVars, clockVars, cronVars, jobVars, heldVars, waitVars, tickVars, connsVars, IndInv,
       TypeOK, HeldByOne, SoonestExact, OneAtATime, ReservationsTold, SoonTold, TickExact,
       TickListed, InOrder, DueIsOver, NothingLeft, Over

LEMMA NextInv ==
  ASSUME IndInv, [Next]_timeVars
  PROVE  IndInv'
<1>1. CASE \E j \in Jobs, d \in Delays : Put(j, d)
  BY <1>1, PutKeeps
<1>2. CASE \E c \in Conns : Command(c)
  <2>1. PICK c \in Conns : Command(c)
    BY <1>2
  <2>. QED
    BY <2>1, ReserveKeeps, TouchKeeps, DeleteKeeps, ReleaseKeeps, ReplySentKeeps DEF Command
<1>3. CASE Cron
  BY <1>3, CronStartsKeeps, CronDelayedKeeps, CronEndsKeeps, CronTickKeeps, TimeoutJobKeeps,
     TimeoutRearmKeeps, TimeoutEndsKeeps DEF Cron
<1>4. CASE Advance
  BY <1>4, AdvanceKeeps
<1>5. CASE UNCHANGED timeVars
  BY <1>5, StutterKeeps
<1>. QED BY <1>1, <1>2, <1>3, <1>4, <1>5 DEF Next

\* The types, the cache, the ticks and what clients know hold whatever the number
\* of connections and jobs and whatever the times, margins and delays of conn_cron.
THEOREM Invariance == Spec => []IndInv
<1>1. Init => IndInv
  BY InitInv
<1>2. IndInv /\ [Next]_timeVars => IndInv'
  BY NextInv
<1>. QED BY <1>1, <1>2, PTL DEF Spec

-----------------------------------------------------------------------------
(* What follows from it. *)

\* The numbers that the properties compare.
LEMMA Comparable ==
  ASSUME IndInv
  PROVE  /\ now \in Int /\ last_cron \in Int /\ Margin \in Int /\ Lag \in Int
         /\ \A j \in Jobs : deadline_at[j] \in Int
         /\ \A c \in Conns : reserved_jobs[c] \subseteq Jobs
BY Numbers DEF IndInv, TypeOK

\* soonest_job, when it is set, is a job of the connection that none ends before.
THEOREM SoonestTheorem == Spec => []SoonestExact
<1>1. IndInv => SoonestExact
  BY DEF IndInv
<1>. QED BY <1>1, Invariance, PTL

\* A client holds only jobs that it was told of, even when DEADLINE_SOON takes the
\* place of a RESERVED.
THEOREM ToldTheorem == Spec => []ReservationsTold
<1>1. IndInv => ReservationsTold
  BY DEF IndInv
<1>. QED BY <1>1, Invariance, PTL

\* As long as no heap_remove has pushed a client out of srv->conns and memory does
\* not run out, a client that waits is in the margin of a job of its own for less
\* than the time between two runs of conn_cron.
THEOREM MarginTheorem == Spec => []MarginKept
<1>1. IndInv => MarginKept
  BY Comparable DEF IndInv, NothingLeft, MarginKept
<1>. QED BY <1>1, Invariance, PTL

\* A delay lasts less than the time between two runs of conn_cron too long.
THEOREM DelayTheorem == Spec => []DelayInTime
<1>1. IndInv => DelayInTime
  BY Comparable DEF IndInv, NothingLeft, DelayInTime
<1>. QED BY <1>1, Invariance, PTL

\* As long as no heap_remove has pushed a client out of srv->conns and memory does
\* not run out, conn_cron ends with nobody waiting whose timeout is over.
THEOREM AnsweredTheorem == Spec => AnsweredInTime
<1>1. ASSUME IndInv, [Next]_timeVars, cron, ~ cron', InOrder, NEW c \in Conns,
             waiting[c], pending_timeout[c] # NoTimeout
      PROVE  now < until[c]
  <2>1. CronEnds
    BY <1>1 DEF Next, Command, Cron, Put, Reserve, Touch, Delete, Release, ReplySent, Commanding,
         CronStarts, CronDelayed, CronTick, TimeoutJob, TimeoutRearm, TimeoutEnds, Advance,
         cronVars, timeVars
  <2>. QED BY <1>1, <2>1, NoTickDue
<1>. DEFINE Answered == \A c \in Conns :
              waiting[c] /\ pending_timeout[c] # NoTimeout => now < until[c]
<1>2. IndInv /\ [Next]_timeVars => [cron /\ ~ cron' /\ InOrder => Answered]_timeVars
  BY <1>1
<1>. QED BY <1>2, Invariance, PTL DEF Spec, AnsweredInTime

\* conn_timeout ends with no reservation of its connection over, although it only
\* looks at the soonest job.
THEOREM ExpiredTheorem == Spec => AllExpiredReturned
<1>1. ASSUME IndInv, [Next]_timeVars, timing # NoConn, timing' = NoConn,
             NEW j \in reserved_jobs[timing]
      PROVE  ~ Over(j)
  <2>1. cron
    BY <1>1 DEF IndInv, OneAtATime
  <2>2. PICK c \in Conns : TimeoutEnds(c)
    BY <1>1, <2>1, NullsAssumption
       DEF Next, Command, Cron, Put, Reserve, Touch, Delete, Release, ReplySent, Commanding,
         CronStarts, CronDelayed, CronEnds, CronTick, TimeoutJob, TimeoutRearm, Advance,
         cronVars, timeVars
  <2>3. timing = c /\ \E s \in Soonest(c) : ~ Over(s)
    BY <2>2 DEF TimeoutEnds
  <2>4. PICK s \in Soonest(c) : ~ Over(s)
    BY <2>3
  <2>5. s # NoJob /\ s \in reserved_jobs[c] /\ deadline_at[s] <= deadline_at[j]
    BY <1>1, <2>3, SoonestLeast
  <2>6. now \in Int /\ deadline_at[s] \in Int /\ deadline_at[j] \in Int
    BY <1>1, <2>3, <2>5, Comparable
  <2>. QED BY <2>4, <2>5, <2>6 DEF Over
<1>. DEFINE Returned == \A j \in reserved_jobs[timing] : ~ Over(j)
<1>2. IndInv /\ [Next]_timeVars => [timing # NoConn /\ timing' = NoConn => Returned]_timeVars
  BY <1>1
<1>. QED BY <1>2, Invariance, PTL DEF Spec, AllExpiredReturned

\* TIMED_OUT comes when the wait that the client asked for is over and not before.
THEOREM NotEarlyTheorem == Spec => NotTimedOutEarly
<1>1. ASSUME IndInv, [Next]_timeVars, NEW c \in Conns, waiting[c],
             pending_timeout[c] # NoTimeout, pending_timeout'[c] = NoTimeout
      PROVE  now >= until[c]
  <2>1. pending_timeout' # pending_timeout
    BY <1>1
  <2>2. CASE \E d \in Conns, w \in Waits : Reserve(d, w)
    <3>1. PICK d \in Conns, w \in Waits : Reserve(d, w)
      BY <2>2
    <3>2. d # c
      BY <1>1, <3>1 DEF Reserve, Commanding
    <3>3. pending_timeout' = [pending_timeout EXCEPT ![d] = w]
      BY <2>1, <3>1 DEF Reserve, tickVars
    <3>4. pending_timeout'[c] = pending_timeout[c]
      BY <1>1, <3>2, <3>3 DEF IndInv, TypeOK
    <3>. QED BY <1>1, <3>4
  <2>3. CASE \E d \in Conns : TimeoutEnds(d)
    <3>1. PICK d \in Conns : TimeoutEnds(d)
      BY <2>3
    <3>2. ~ soon /\ pending_timeout' = [pending_timeout EXCEPT ![d] = NoTimeout]
      BY <2>1, <3>1 DEF TimeoutEnds, Answer
    <3>3. d = c
      BY <1>1, <3>2 DEF IndInv, TypeOK
    <3>4. until[c] <= now
      BY <1>1, <3>1, <3>2, <3>3 DEF TimeoutEnds, IndInv, DueIsOver
    <3>5. until[c] \in Int /\ now \in Int
      BY <1>1, Numbers DEF IndInv, TypeOK
    <3>. QED BY <3>4, <3>5
  <2>4. CASE UNCHANGED pending_timeout
    BY <2>1, <2>4
  <2>. QED
    BY <1>1, <2>2, <2>3, <2>4
       DEF Next, Command, Cron, Put, Touch, Delete, Release, ReplySent, CronStarts, CronDelayed,
         CronEnds, CronTick, TimeoutJob, TimeoutRearm, Advance, tickVars, timeVars
<1>. DEFINE NotEarly == \A c \in Conns :
              waiting[c] /\ pending_timeout[c] # NoTimeout /\ pending_timeout'[c] = NoTimeout =>
                now >= until[c]
<1>2. IndInv /\ [Next]_timeVars => [NotEarly]_timeVars
  BY <1>1
<1>. QED BY <1>2, Invariance, PTL DEF Spec, NotTimedOutEarly

=============================================================================
