------------------------------ MODULE Timeouts ------------------------------
(***************************************************************************)
(* Time in src/conn.c: deadlines of jobs, the soonest_job cache, the tick  *)
(* of a connection (conn_tickat) and what conn_cron and conn_timeout do    *)
(* when it comes.  Tasque leaves every expiry to choice; here a clock      *)
(* counts, in units of SAFETY_MARGIN or finer.                             *)
(*                                                                         *)
(* One tube that is never paused, connections that stay, and job heaps     *)
(* that grow: the rest is in Tasque.  Any ready job may be next            *)
(* (priorities are in Tasque).  srv->conns gives the least tick as long as *)
(* no connection was pushed out of it, and then any of its ticks (Ticks).  *)
(* The clock stands still while a handler runs.  Only the reply RESERVED   *)
(* is followed until it is sent; a connection that sends another one       *)
(* differs in nothing here from one that has sent it.                      *)
(***************************************************************************)
EXTENDS Integers, FiniteSets, FiniteSetsExt, Ticks

CONSTANTS
  NoConn,    \* no connection
  Jobs,      \* bound: jobs that are put
  NoJob,     \* a null job_t pointer
  Ttrs,      \* values of <ttr>; do_cmd raises anything less to one second
  Delays,    \* values of <delay>, 0 for none
  Waits,     \* timeouts of reserve-with-timeout, and NoTimeout for reserve
  Margin,    \* SAFETY_MARGIN
  Lag,       \* conn_cron runs at least once in Lag
  MaxTime    \* bound: the clock stops here

NoTimeout == -1
NoTick == 0
NoTime == 0

ASSUME NullsAssumption == NoConn \notin Conns /\ NoJob \notin Jobs
ASSUME TimesAssumption ==
  /\ MaxTime \in Nat \ {0}
  /\ Margin \in Nat \ {0} /\ Lag \in Nat \ {0}
  /\ Ttrs \subseteq {t \in Nat : t >= Margin} /\ Delays \subseteq Nat
  /\ Waits \subseteq Nat \union {NoTimeout}
  /\ AllocMayFail \in BOOLEAN

VARIABLES
  now,             \* ustime()
  last_cron,       \* when conn_cron ran last
  cron,            \* conn_cron is running
  timing,          \* the connection conn_timeout runs for
  rearm,           \* conn_timeout is about to set its tick anew
  soon,            \* should_timeout of conn_timeout
  job_state,       \* j->rec.state, "none" while there is no such job
  ttr,             \* j->rec.ttr, the same for every job put under a name
  deadline_at,     \* j->rec.deadline_at of a delay or a reservation, else NoTime
  reserved_jobs,   \* c->reserved_jobs
  soonest_job,     \* c->soonest_job
  waiting,         \* c->type & CONN_TYPE_WAITING
  pending_timeout, \* c->pending_timeout
  tickat,          \* c->tickat, NoTick also once conn_cron has found it due
  telling,         \* the job of the reply RESERVED that c has not got in full yet
  known,           \* history: the jobs the client has been told it holds
  until            \* history: when the wait of c is to end, else NoTime

clockVars == <<now, last_cron>>
cronVars  == <<cron, timing, rearm, soon>>
jobVars   == <<job_state, ttr, deadline_at>>
heldVars  == <<reserved_jobs, soonest_job>>
tickVars  == <<pending_timeout, tickat, connsVars>>
waitVars  == <<waiting, until>>
timeVars  == <<clockVars, cronVars, jobVars, heldVars, waitVars, tickVars, telling, known>>

Init ==
  /\ now = 1 /\ last_cron = 1
  /\ cron = FALSE /\ timing = NoConn /\ rearm = FALSE /\ soon = FALSE
  /\ job_state = [j \in Jobs |-> "none"]
  /\ ttr \in [Jobs -> Ttrs]
  /\ deadline_at = [j \in Jobs |-> NoTime]
  /\ reserved_jobs = [c \in Conns |-> {}]
  /\ soonest_job = [c \in Conns |-> NoJob]
  /\ waiting = [c \in Conns |-> FALSE]
  /\ pending_timeout = [c \in Conns |-> NoTimeout]
  /\ tickat = [c \in Conns |-> NoTick]
  /\ TicksInit
  /\ telling = [c \in Conns |-> NoJob]
  /\ known = [c \in Conns |-> {}]
  /\ until = [c \in Conns |-> NoTime]

-----------------------------------------------------------------------------
(* Helpers. *)

Waiters == {c \in Conns : waiting[c]}
Ready   == {j \in Jobs : job_state[j] = "ready"}

\* The cache is kept although the job may have a new deadline.
Soonest(c) ==
  IF soonest_job[c] # NoJob THEN {soonest_job[c]}
  ELSE IF reserved_jobs[c] = {} THEN {NoJob}
  ELSE {j \in reserved_jobs[c] : \A k \in reserved_jobs[c] : deadline_at[j] <= deadline_at[k]}

\* conn_deadline_soon, with what conn_soonest_reserved_job answers.
DeadlineSoon(j) == j # NoJob /\ now >= deadline_at[j] - Margin

\* A reserve counts the whole time to the deadline.
TickAt_Fault(j, waits, timeout) ==
  LET spans == {deadline_at[j] - now : k \in {j} \ {NoJob}} \union ({timeout} \ {NoTimeout})
  IN IF spans = {} THEN NoTick ELSE now + Min(spans)

\* conn_tickat, for a connection whose soonest job is j.
TickAt(j, waits, timeout) ==
  LET margin == IF waits THEN Margin ELSE 0
      spans == {deadline_at[k] - now - margin : k \in {j} \ {NoJob}}
               \union ({timeout} \ {NoTimeout})
  IN IF spans = {} THEN NoTick ELSE now + Min(spans)

\* The tick of an earlier wait stands when it comes first.
SetTick_Fault(c, at) ==
  /\ tickat' = [tickat EXCEPT ![c] = IF @ # NoTick /\ @ < at THEN @ ELSE at]
  /\ MoveTick(c, at # NoTick, {d \in Conns : tickat[d] >= at})

\* wait_for_job and conn_timeout: c->tickat is set and c moved in srv->conns.
SetTick(c, at) ==
  /\ tickat' = [tickat EXCEPT ![c] = at]
  /\ MoveTick(c, at # NoTick, {d \in Conns : tickat[d] >= at})

\* The cache stands when another job is reserved.
CacheReserved_Fault(c, j, cache) == cache

\* reserve_job: what becomes of soonest_job.
CacheReserved(c, j, cache) ==
  IF cache # NoJob /\ now + ttr[j] < deadline_at[cache] THEN j ELSE cache

\* A connection that was given a job still waits.
ReserveJob_Fault(c, j, held, cache) ==
  /\ job_state' = [job_state EXCEPT ![j] = "reserved"]
  /\ deadline_at' = [deadline_at EXCEPT ![j] = now + ttr[j]]
  /\ reserved_jobs' = [held EXCEPT ![c] = @ \union {j}]
  /\ soonest_job' = [cache EXCEPT ![c] = CacheReserved(c, j, @)]
  /\ telling' = [telling EXCEPT ![c] = j]
  /\ UNCHANGED waitVars

\* process_queue gives j to c: conn_remove_waiting and reserve_job.  held and
\* cache are the values of reserved_jobs and soonest_job before.
ReserveJob(c, j, held, cache) ==
  /\ job_state' = [job_state EXCEPT ![j] = "reserved"]
  /\ deadline_at' = [deadline_at EXCEPT ![j] = now + ttr[j]]
  /\ reserved_jobs' = [held EXCEPT ![c] = @ \union {j}]
  /\ soonest_job' = [cache EXCEPT ![c] = CacheReserved(c, j, @)]
  /\ telling' = [telling EXCEPT ![c] = j]
  /\ waiting' = [waiting EXCEPT ![c] = FALSE]
  /\ until' = [until EXCEPT ![c] = NoTime]

\* enqueue_job(j, 0) and process_queue: one that waits gets it at once.
EnqueueReady(j, held, cache) ==
  \/ /\ Waiters = {}
     /\ job_state' = [job_state EXCEPT ![j] = "ready"]
     /\ deadline_at' = [deadline_at EXCEPT ![j] = NoTime]
     /\ reserved_jobs' = held /\ soonest_job' = cache
     /\ UNCHANGED <<telling, waitVars>>
  \/ \E c \in Waiters : ReserveJob(c, j, held, cache)

\* enqueue_job(j, delay); process_queue finds nothing to do.
EnqueueDelayed(j, delay, held, cache) ==
  /\ delay > 0
  /\ job_state' = [job_state EXCEPT ![j] = "delayed"]
  /\ deadline_at' = [deadline_at EXCEPT ![j] = now + delay]
  /\ reserved_jobs' = held /\ soonest_job' = cache
  /\ UNCHANGED <<telling, waitVars>>

EnqueueJob(j, delay, held, cache) ==
  \/ delay = 0 /\ EnqueueReady(j, held, cache)
  \/ EnqueueDelayed(j, delay, held, cache)

\* remove_reserved_job: the list and the cache of c without j.
Released(c, j) == [reserved_jobs EXCEPT ![c] = @ \ {j}]
CacheCleared(c) == [soonest_job EXCEPT ![c] = NoJob]

\* soonest_job after conn_soonest_reserved_job has answered j.
Cached(c, j) == [soonest_job EXCEPT ![c] = j]

-----------------------------------------------------------------------------
(* Commands. *)

Commanding(c) == ~ cron /\ ~ waiting[c] /\ telling[c] = NoJob

\* put, by a connection that is of no interest here.  The name of a job that is
\* gone is used again once nobody is told of the old one.
Put(j, delay) ==
  /\ ~ cron /\ job_state[j] = "none"
  /\ \A c \in Conns : telling[c] # j
  /\ EnqueueJob(j, delay, reserved_jobs, soonest_job)
  /\ known' = [c \in Conns |-> known[c] \ {j}]
  /\ UNCHANGED <<clockVars, cronVars, ttr, tickVars>>

\* reserve and reserve-with-timeout: DEADLINE_SOON at once, or wait_for_job and
\* process_queue.
Reserve(c, timeout) ==
  /\ Commanding(c)
  /\ \E s \in Soonest(c) :
       \/ /\ DeadlineSoon(s) /\ Ready = {}
          /\ soonest_job' = Cached(c, s)
          /\ UNCHANGED <<jobVars, reserved_jobs, waitVars, tickVars, telling>>
       \/ /\ ~ DeadlineSoon(s) \/ Ready # {}
          /\ pending_timeout' = [pending_timeout EXCEPT ![c] = timeout]
          /\ SetTick(c, TickAt(s, TRUE, timeout))
          /\ \/ \E j \in Ready : ReserveJob(c, j, reserved_jobs, Cached(c, s))
             \/ /\ Ready = {}
                /\ waiting' = [waiting EXCEPT ![c] = TRUE]
                /\ until' = [until EXCEPT ![c] =
                               IF timeout = NoTimeout THEN NoTime ELSE now + timeout]
                /\ soonest_job' = Cached(c, s)
                /\ UNCHANGED <<job_state, deadline_at, reserved_jobs, telling>>
          /\ UNCHANGED ttr
  /\ UNCHANGED <<clockVars, cronVars, known>>

\* The new deadline is set and the cache is left alone.
TouchJob_Fault(c, j) ==
  /\ deadline_at' = [deadline_at EXCEPT ![j] = now + ttr[j]]
  /\ UNCHANGED soonest_job

\* touch_job.
TouchJob(c, j) ==
  /\ deadline_at' = [deadline_at EXCEPT ![j] = now + ttr[j]]
  /\ soonest_job' = CacheCleared(c)

Touch(c, j) ==
  /\ Commanding(c) /\ j \in reserved_jobs[c]
  /\ TouchJob(c, j)
  /\ UNCHANGED <<clockVars, cronVars, job_state, ttr, reserved_jobs, waitVars, tickVars,
                 telling, known>>

\* release by the holder.
Release(c, j, delay) ==
  /\ Commanding(c) /\ j \in reserved_jobs[c]
  /\ EnqueueJob(j, delay, Released(c, j), CacheCleared(c))
  /\ known' = [known EXCEPT ![c] = @ \ {j}]
  /\ UNCHANGED <<clockVars, cronVars, ttr, tickVars>>

\* delete by the holder.
Delete(c, j) ==
  /\ Commanding(c) /\ j \in reserved_jobs[c]
  /\ reserved_jobs' = Released(c, j) /\ soonest_job' = CacheCleared(c)
  /\ job_state' = [job_state EXCEPT ![j] = "none"]
  /\ deadline_at' = [deadline_at EXCEPT ![j] = NoTime]
  /\ known' = [d \in Conns |-> known[d] \ {j}]
  /\ UNCHANGED <<clockVars, cronVars, ttr, waitVars, tickVars, telling>>

\* The last byte of RESERVED and of the body is written, of a copy when the job
\* has timed out in the meantime.
ReplySent(c) ==
  /\ ~ cron /\ telling[c] # NoJob
  /\ known' = [known EXCEPT ![c] = @ \union {telling[c]}]
  /\ telling' = [telling EXCEPT ![c] = NoJob]
  /\ UNCHANGED <<clockVars, cronVars, jobVars, heldVars, waitVars, tickVars>>

-----------------------------------------------------------------------------
(* conn_cron. *)

\* event_loop calls the tick function once its interval is over, and a handler
\* that takes long delays it: by less than Lag.
CronStarts ==
  /\ ~ cron
  /\ cron' = TRUE
  /\ UNCHANGED <<clockVars, timing, rearm, soon, jobVars, heldVars, waitVars, tickVars,
                 telling, known>>

\* A delay is over when its time has passed.
Overdue_Fault == {j \in Jobs : job_state[j] = "delayed" /\ deadline_at[j] < now}

Overdue == {j \in Jobs : job_state[j] = "delayed" /\ deadline_at[j] <= now}

\* One turn of the first loop, with soonest_delay_job.
CronDelayed ==
  /\ cron /\ timing = NoConn
  /\ \E j \in Overdue :
       /\ \A k \in Overdue : deadline_at[j] <= deadline_at[k]
       /\ EnqueueReady(j, reserved_jobs, soonest_job)
  /\ UNCHANGED <<clockVars, cronVars, ttr, tickVars, known>>

\* A tick is due when its time has passed.
Due_Fault == {c \in Conns : ticking[c] /\ tickat[c] < now}

\* The connections in srv->conns whose tick is due.
Due == {c \in Conns : ticking[c] /\ tickat[c] <= now}

\* A turn of the last loop: c is the first in srv->conns and leaves it, and
\* conn_timeout looks first at whether a client that waits must be told
\* DEADLINE_SOON.
CronTick(c) ==
  /\ cron /\ timing = NoConn /\ Overdue = {}
  /\ c \in Due /\ (displaced \/ \A d \in Due : tickat[c] <= tickat[d])
  /\ PopTick(c)
  /\ tickat' = [tickat EXCEPT ![c] = NoTick]
  /\ timing' = c
  /\ \/ /\ waiting[c]
        /\ \E s \in Soonest(c) : soon' = DeadlineSoon(s) /\ soonest_job' = Cached(c, s)
     \/ ~ waiting[c] /\ soon' = FALSE /\ UNCHANGED soonest_job
  /\ UNCHANGED <<clockVars, cron, rearm, jobVars, reserved_jobs, waitVars, pending_timeout,
                 telling, known>>

\* The reservation of j is over.
Over(j) == j # NoJob /\ deadline_at[j] <= now

\* A turn of the loop of conn_timeout: a reservation that is over is given back,
\* and the job may go to a client that waits, c itself included.
TimeoutJob(c) ==
  /\ timing = c /\ ~ rearm
  /\ \E j \in Soonest(c) :
       /\ Over(j)
       /\ EnqueueReady(j, Released(c, j), CacheCleared(c))
  /\ rearm' = TRUE
  /\ UNCHANGED <<clockVars, cron, timing, soon, ttr, tickVars, known>>

\* The second half of the turn.
TimeoutRearm(c) ==
  /\ timing = c /\ rearm
  /\ \E s \in Soonest(c) :
       /\ SetTick(c, TickAt(s, waiting[c], pending_timeout[c]))
       /\ soonest_job' = Cached(c, s)
  /\ rearm' = FALSE
  /\ UNCHANGED <<clockVars, cron, timing, soon, jobVars, reserved_jobs, waitVars,
                 pending_timeout, telling, known>>

\* The end of conn_timeout: DEADLINE_SOON, which takes the place of a RESERVED
\* that was to be sent, or TIMED_OUT, or nothing.
Answer(c) ==
  \/ /\ soon
     /\ waiting' = [waiting EXCEPT ![c] = FALSE] /\ until' = [until EXCEPT ![c] = NoTime]
     /\ telling' = [telling EXCEPT ![c] = NoJob]
     /\ UNCHANGED pending_timeout
  \/ /\ ~ soon /\ waiting[c] /\ pending_timeout[c] # NoTimeout
     /\ waiting' = [waiting EXCEPT ![c] = FALSE] /\ until' = [until EXCEPT ![c] = NoTime]
     /\ pending_timeout' = [pending_timeout EXCEPT ![c] = NoTimeout]
     /\ UNCHANGED telling
  \/ /\ ~ soon /\ ~ (waiting[c] /\ pending_timeout[c] # NoTimeout)
     /\ UNCHANGED <<waitVars, pending_timeout, telling>>

TimeoutEnds(c) ==
  /\ timing = c /\ ~ rearm
  /\ \E s \in Soonest(c) :
       /\ ~ Over(s)
       /\ soonest_job' = Cached(c, s)
  /\ Answer(c)
  /\ timing' = NoConn /\ soon' = FALSE
  /\ UNCHANGED <<clockVars, cron, rearm, jobVars, reserved_jobs, tickat, connsVars, known>>

\* The first in srv->conns is not due.
CronEnds ==
  /\ cron /\ timing = NoConn /\ Overdue = {}
  /\ Due = {} \/ (displaced /\ \E c \in Conns : ticking[c] /\ tickat[c] > now)
  /\ cron' = FALSE /\ last_cron' = now
  /\ UNCHANGED <<now, timing, rearm, soon, jobVars, heldVars, waitVars, tickVars, telling, known>>

\* Time passes between handlers.
Advance ==
  /\ ~ cron /\ now < MaxTime /\ now < last_cron + Lag
  /\ now' = now + 1
  /\ UNCHANGED <<last_cron, cronVars, jobVars, heldVars, waitVars, tickVars, telling, known>>

Command(c) ==
  \/ \E w \in Waits : Reserve(c, w)
  \/ \E j \in Jobs : Touch(c, j) \/ Delete(c, j) \/ \E d \in Delays : Release(c, j, d)
  \/ ReplySent(c)

Cron ==
  \/ CronStarts \/ CronDelayed \/ CronEnds
  \/ \E c \in Conns : CronTick(c) \/ TimeoutJob(c) \/ TimeoutRearm(c) \/ TimeoutEnds(c)

Next ==
  \/ \E j \in Jobs, d \in Delays : Put(j, d)
  \/ \E c \in Conns : Command(c)
  \/ Cron
  \/ Advance

Spec == Init /\ [][Next]_timeVars

-----------------------------------------------------------------------------

TypeOK ==
  /\ now \in 1 .. MaxTime /\ last_cron \in 1 .. now
  /\ cron \in BOOLEAN /\ timing \in Conns \union {NoConn}
  /\ rearm \in BOOLEAN /\ soon \in BOOLEAN
  /\ job_state \in [Jobs -> {"none", "ready", "reserved", "delayed"}]
  /\ ttr \in [Jobs -> Ttrs] /\ deadline_at \in [Jobs -> Nat]
  /\ reserved_jobs \in [Conns -> SUBSET Jobs]
  /\ soonest_job \in [Conns -> Jobs \union {NoJob}]
  /\ waiting \in [Conns -> BOOLEAN]
  /\ pending_timeout \in [Conns -> Nat \union {NoTimeout}]
  /\ tickat \in [Conns -> Nat]
  /\ ticking \in [Conns -> BOOLEAN] /\ displaced \in BOOLEAN
  /\ telling \in [Conns -> Jobs \union {NoJob}] /\ known \in [Conns -> SUBSET Jobs]
  /\ until \in [Conns -> Nat]

\* The cache is a job that the connection holds and none ends before it, through
\* touch, release, delete, timeouts and new reservations (soonest_job).
SoonestExact ==
  \A c \in Conns : soonest_job[c] # NoJob =>
    /\ soonest_job[c] \in reserved_jobs[c]
    /\ \A j \in reserved_jobs[c] : deadline_at[soonest_job[c]] <= deadline_at[j]

\* conn_timeout gives back every reservation of its connection that is over,
\* though it only ever asks for the soonest one.
AllExpiredReturned ==
  [][timing # NoConn /\ timing' = NoConn =>
       \A j \in reserved_jobs[timing] : ~ Over(j)]_timeVars

\* srv->conns has the connections it should have.
InOrder == ~ displaced /\ ~ AllocMayFail

\* conn_cron, whenever it has run, leaves no client waiting whose timeout is over,
\* whatever reservations, ticks and timeouts came before, as long as heap_remove
\* has pushed no client out of srv->conns.
AnsweredInTime ==
  [][cron /\ ~ cron' /\ InOrder =>
       \A c \in Conns : waiting[c] /\ pending_timeout[c] # NoTimeout => now < until[c]]_timeVars

\* TIMED_OUT is not sent early: a tick or a timeout of an earlier wait that is
\* still there does not end this one, in whatever order srv->conns is.
NotTimedOutEarly ==
  [][\A c \in Conns :
       waiting[c] /\ pending_timeout[c] # NoTimeout /\ pending_timeout'[c] = NoTimeout =>
         now >= until[c]]_timeVars

\* A client is not made to wait into the safety margin of a job it holds, but
\* for less than Lag (src/doc/protocol.txt, DEADLINE_SOON), as long as heap_remove
\* has pushed none out of srv->conns.
MarginKept ==
  InOrder =>
    \A c \in Conns : waiting[c] =>
      \A j \in reserved_jobs[c] : now < deadline_at[j] - Margin + Lag

\* A job that a client has reserved is one it was told of, or is being told of:
\* the RESERVED that conn_timeout replaces by DEADLINE_SOON names a job that the
\* client believes to hold since before.
ReservationsTold ==
  \A c \in Conns : reserved_jobs[c] \subseteq known[c] \union {telling[c]}

\* A delay ends on time, although a job has one field for its delay and for its
\* reservation.
DelayInTime ==
  \A j \in Jobs : job_state[j] = "delayed" => now < deadline_at[j] + Lag

-----------------------------------------------------------------------------
(* The invariant from which the properties follow. *)

\* A job is on the list of one connection at most, and its deadline is not before
\* the beginning of its margin.
HeldByOne ==
  \A c \in Conns : \A j \in reserved_jobs[c] :
    /\ job_state[j] = "reserved" /\ deadline_at[j] >= Margin
    /\ \A d \in Conns \ {c} : j \notin reserved_jobs[d]

\* A client that waits is not being told of a job, and conn_timeout runs in
\* conn_cron only.
OneAtATime ==
  /\ \A c \in Conns : waiting[c] => telling[c] = NoJob
  /\ timing # NoConn => cron

\* A client that is to be told DEADLINE_SOON knows of all its jobs.
SoonTold == timing # NoConn /\ soon => reserved_jobs[timing] \subseteq known[timing]

\* The tick of a client that waits is the first of the times that end its wait,
\* if there are such times.
TickExact ==
  \A c \in Conns : waiting[c] /\ timing # c =>
    /\ \A j \in reserved_jobs[c] : tickat[c] # NoTick /\ tickat[c] <= deadline_at[j] - Margin
    /\ pending_timeout[c] # NoTimeout => tickat[c] # NoTick /\ tickat[c] <= until[c]
    /\ \/ pending_timeout[c] = NoTimeout /\ reserved_jobs[c] = {}
       \/ pending_timeout[c] # NoTimeout /\ tickat[c] = until[c]
       \/ \E j \in reserved_jobs[c] : tickat[c] = deadline_at[j] - Margin

\* With such a time, it is in srv->conns.
TickListed ==
  InOrder => \A c \in Conns :
    waiting[c] /\ timing # c /\ (reserved_jobs[c] # {} \/ pending_timeout[c] # NoTimeout) =>
      ticking[c]

\* A client whose tick is due and whose jobs have time is at the end of its wait,
\* or its wait has none.
DueIsOver ==
  \A c \in Conns : waiting[c] /\ timing = c /\ ~ soon =>
    /\ IF pending_timeout[c] = NoTimeout THEN reserved_jobs[c] = {} ELSE until[c] <= now
    /\ \A j \in reserved_jobs[c] : now < deadline_at[j] - Margin

\* What the last conn_cron has left was not over then.
NothingLeft ==
  /\ now <= last_cron + Lag
  /\ InOrder => \A c \in Conns : waiting[c] =>
                  \A j \in reserved_jobs[c] : last_cron < deadline_at[j] - Margin
  /\ \A j \in Jobs : job_state[j] = "delayed" => last_cron < deadline_at[j]

\* Types, the exact cache and what clients know, with what ties clock, ticks and
\* reservations together while conn_timeout runs.
IndInv ==
  /\ TypeOK /\ HeldByOne /\ SoonestExact /\ OneAtATime /\ ReservationsTold /\ SoonTold
  /\ TickExact /\ TickListed /\ DueIsOver /\ NothingLeft

=============================================================================
