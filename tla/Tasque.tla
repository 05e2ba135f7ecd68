------------------------------- MODULE Tasque -------------------------------
(***************************************************************************)
(* The queue engine of tasque (src/conn.c with src/job.c, src/tube.c): the *)
(* commands of the protocol, the conn_cron callback of the event loop, and *)
(* process_queue, which hands ready jobs to waiting connections.           *)
(*                                                                         *)
(* The server is one thread that runs a handler to its end before it takes *)
(* the next event.  A handler that calls enqueue_job once or more is       *)
(* modelled call by call: the variable call says which handler is running  *)
(* and what is left of it, and processing says that it is inside           *)
(* process_queue.  No other handler starts before call is NoCall again.    *)
(*                                                                         *)
(* Abstractions.  Time: a delay, a pause or a TTR may be found expired in  *)
(* any run of conn_cron.  Heaps are sets together with their order         *)
(* (job_pri_less), for heap.c is a priority queue of jobs (TubeQueue), but *)
(* not of connections (Ticks).  set_take may return any member             *)
(* (TubeQueue), and a tube is there while it has references (TubeRefs).    *)
(* Partial reads and writes do not show: a body or a reply is complete or  *)
(* it is not.  What a process does after undefined behaviour is left open. *)
(*                                                                         *)
(* A definition whose name ends in _Fault is the definition that follows   *)
(* it with one bug planted.  No specification uses it: it is there to see  *)
(* that a property notices the bug.                                        *)
(***************************************************************************)
EXTENDS Integers, Sequences, SequencesExt, Functions, Ticks

CONSTANTS
  NoConn,         \* a null conn_t pointer
  Tubes,          \* tube names
  DefaultTube,    \* the tube named "default"
  MaxJobs,        \* bound: job ids handed out, so that a run is finite
  Pris,           \* job priorities; a smaller one is more urgent
  KickBounds      \* bounds a client passes to the kick command

ASSUME ConnsAssumption == NoConn \notin Conns /\ IsFiniteSet(Conns)
ASSUME TubesAssumption == DefaultTube \in Tubes
ASSUME BoundsAssumption == MaxJobs \in Nat /\ Pris \subseteq Nat /\ KickBounds \subseteq Nat
ASSUME AllocAssumption == AllocMayFail \in BOOLEAN

Jobs == 1 .. MaxJobs
NoJob == 0
Copy  == MaxJobs + 1

JobStates == {"none", "invalid", "ready", "reserved", "buried", "delayed", "lost"}
ConnStates == {"closed", "wantcommand", "wantdata", "sendjob", "sendword",
               "wait", "bitbucket"}
Ops == {"none", "put", "reserve", "release", "kick_buried", "kick_delayed",
        "timeout", "close", "cron"}

VARIABLES
  health,        \* "ok"; "crashed" after a null dereference; "undefined" after a
                 \* job was freed while a queue or a connection points to it, or
                 \* a connection while srv->conns does
  call,          \* the handler that is running, see CallType
  processing,    \* inside process_queue
  state,         \* c->state, "closed" when the slot holds no connection
  use,           \* c->use
  watch,         \* c->watch
  waiting,       \* c->type & CONN_TYPE_WAITING
  pending,       \* c->pending_timeout >= 0
  in_job,        \* c->in_job
  out_job,       \* c->out_job, Copy when it is a copy the connection owns
  reserved_jobs, \* c->reserved_jobs
  next_job_id,   \* tasque_srv.next_job_id
  job_state,     \* j->rec.state, "none" when j is not in all_jobs; "lost" when j
                 \* is in no queue, though its record says another, stale state
  tube,          \* j->tube
  pri,           \* j->rec.pri
  reserver,      \* j->reserver
  ready_jobs,    \* t->ready_jobs
  delay_jobs,    \* t->delay_jobs
  buried_jobs,   \* t->buried_jobs
  waiting_conns, \* t->waiting_conns
  pause          \* t->pause # 0

nameVars  == <<use, watch>>
waitVars  == <<waiting, waiting_conns>>
tickVars  == <<pending, connsVars>>
ioVars    == <<in_job, out_job>>
jobVars   == <<next_job_id, tube, job_state, pri, reserver, reserved_jobs>>
queueVars == <<ready_jobs, delay_jobs, buried_jobs>>
callVars  == <<call, processing>>
vars == <<health, callVars, state, nameVars, waitVars, tickVars, ioVars, jobVars,
          queueVars, pause>>

CallType == [op   : Ops,
             conn : Conns \union {NoConn},  \* the connection it is about
             jobs : SUBSET Jobs,            \* timeout: expired jobs to take back
             left : Nat,                    \* kick: iterations left of the bound
             soon : BOOLEAN]                \* timeout: should_timeout

NoCall == [op |-> "none", conn |-> NoConn, jobs |-> {}, left |-> 0, soon |-> FALSE]
Call(op, c) == [NoCall EXCEPT !.op = op, !.conn = c]

-----------------------------------------------------------------------------

Init ==
  /\ health = "ok"
  /\ call = NoCall
  /\ processing = FALSE
  /\ state = [c \in Conns |-> "closed"]
  /\ use = [c \in Conns |-> DefaultTube]
  /\ watch = [c \in Conns |-> {}]
  /\ waiting = [c \in Conns |-> FALSE]
  /\ pending = [c \in Conns |-> FALSE]
  /\ TicksInit
  /\ in_job = [c \in Conns |-> NoJob]
  /\ out_job = [c \in Conns |-> NoJob]
  /\ reserved_jobs = [c \in Conns |-> {}]
  /\ next_job_id = 1
  /\ job_state = [j \in Jobs |-> "none"]
  /\ tube = [j \in Jobs |-> DefaultTube]
  /\ pri = [j \in Jobs |-> 0]
  /\ reserver = [j \in Jobs |-> NoConn]
  /\ ready_jobs = [t \in Tubes |-> {}]
  /\ delay_jobs = [t \in Tubes |-> {}]
  /\ buried_jobs = [t \in Tubes |-> <<>>]
  /\ waiting_conns = [t \in Tubes |-> {}]
  /\ pause = [t \in Tubes |-> FALSE]

-----------------------------------------------------------------------------
(* The helpers the handlers are made of. *)

Idle == health = "ok" /\ call = NoCall

\* Connection c has a complete command line, and do_cmd runs it.
Commanding(c) == Idle /\ state[c] = "wantcommand"

\* A handler of this kind runs and is not inside process_queue.
Running(op) == health = "ok" /\ call.op = op /\ ~ processing

\* job_find: the job is in all_jobs.
Found(j) == job_state[j] # "none"

\* Among equals the youngest comes first.
JobPriLess_Fault(i, j) == pri[i] < pri[j] \/ (pri[i] = pri[j] /\ j < i)

\* job_pri_less: the strict order of a ready heap.
JobPriLess(i, j) == pri[i] < pri[j] \/ (pri[i] = pri[j] /\ i < j)

\* The reply is forgotten when c waits.
Reply_Fault(c) == state' = [state EXCEPT ![c] = IF waiting[c] THEN @ ELSE "sendword"]

\* reply_msg and reply_line with STATE_SENDWORD.
Reply(c) == state' = [state EXCEPT ![c] = "sendword"]

\* A reply and no other effect.
ReplyOnly(c) ==
  /\ Reply(c)
  /\ UNCHANGED <<health, callVars, nameVars, waitVars, tickVars, ioVars, jobVars,
                 queueVars, pause>>

\* conn_has_ready_job: it does not look at pause.
HasReadyJob(c) == \E t \in watch[c] : ready_jobs[t] # {}

\* conn_tickat looks at reserved jobs only.
NeedsTick_Fault(c, reserved, timeout) == reserved # {}

\* conn_tickat is not 0.
NeedsTick(c, reserved, timeout) == reserved # {} \/ timeout

\* wait_for_job and conn_timeout set the tick of a connection with these reserved
\* jobs that waits with a timeout or does not.
SetTick(c, reserved, timeout) == MoveTick(c, NeedsTick(c, reserved, timeout), Conns)

\* The tube exists: somebody holds a reference.  job_free drops none, so the
\* tube of a job that ever was stays; a connection counts for the tubes it uses
\* and watches (u and w are the values of use and watch to judge by).
Referenced(t, u, w) ==
  \/ t = DefaultTube
  \/ \E c \in Conns : u[c] = t \/ t \in w[c]
  \/ \E j \in 1 .. next_job_id - 1 : tube[j] = t

\* tube_dref frees a tube without references, and with it its pause.
DropTubes(u, w) == pause' = [t \in Tubes |-> pause[t] /\ Referenced(t, u, w)]

\* Enter process_queue.  Its scan, next_eligible_job, first ends the pauses
\* whose deadline has passed; cleared are pauses the caller has ended itself.
ProcessQueue(cleared) ==
  /\ processing' = TRUE
  /\ \E expired \in SUBSET {t \in Tubes : pause[t]} :
       pause' = [t \in Tubes |-> pause[t] /\ t \notin expired \union cleared]

\* enqueue_job(j, 0): j enters the ready heap of its tube, then process_queue.
EnqueueReady(j) ==
  /\ ready_jobs' = [ready_jobs EXCEPT ![tube[j]] = @ \union {j}]
  /\ job_state' = [job_state EXCEPT ![j] = "ready"]
  /\ reserver' = [reserver EXCEPT ![j] = NoConn]
  /\ ProcessQueue({})

\* enqueue_job(j, delay) with delay > 0.
EnqueueDelayed(j) ==
  /\ delay_jobs' = [delay_jobs EXCEPT ![tube[j]] = @ \union {j}]
  /\ job_state' = [job_state EXCEPT ![j] = "delayed"]
  /\ reserver' = [reserver EXCEPT ![j] = NoConn]
  /\ ProcessQueue({})

\* enqueue_job of a job that is in no heap.
EnqueueJob(j, delayed) ==
  \/ ~ delayed /\ EnqueueReady(j) /\ UNCHANGED delay_jobs
  \/ delayed /\ EnqueueDelayed(j) /\ UNCHANGED ready_jobs

\* bury_job: j goes to the tail of the buried list of its tube (b is the value
\* of buried_jobs before), or stays in no queue when dlist_add_node_tail fails;
\* only OP_BURY looks, for its reply.  process_queue does not run.
BuryJob(j, b) ==
  /\ \/ /\ buried_jobs' = [b EXCEPT ![tube[j]] = Append(@, j)]
        /\ job_state' = [job_state EXCEPT ![j] = "buried"]
     \/ /\ FALSE \in Allocations
        /\ buried_jobs' = b
        /\ job_state' = [job_state EXCEPT ![j] = "lost"]
  /\ reserver' = [reserver EXCEPT ![j] = NoConn]
  /\ UNCHANGED <<processing, pause>>

\* enqueue_job(j, 0), and bury_job where its caller answers a failure with it.
EnqueueOrBury(j) ==
  \/ EnqueueReady(j) /\ UNCHANGED buried_jobs
  \/ FALSE \in Allocations /\ BuryJob(j, buried_jobs) /\ UNCHANGED ready_jobs

\* The head is not taken off.
PopBuried_Fault(t) == buried_jobs

\* remove_buried_job: the list without its head.
PopBuried(t) == [buried_jobs EXCEPT ![t] = Tail(@)]

\* job_free: j leaves all_jobs and its record is gone.
FreeJob(j) ==
  /\ job_state' = [job_state EXCEPT ![j] = "none"]
  /\ pri' = [pri EXCEPT ![j] = 0]

\* The test of remove_reserved_job: the list of c has j.
HoldsJob(c, j) == j \in reserved_jobs[c]

\* The job is not taken off the list.
RemoveReserved_Fault(c, j) == UNCHANGED reserved_jobs

\* remove_reserved_job: j leaves the list of c.
RemoveReserved(c, j) == reserved_jobs' = [reserved_jobs EXCEPT ![c] = @ \ {j}]

\* The connection stays in the waiting sets of its other tubes.
RemoveWaiting_Fault(c, taken) ==
  /\ waiting' = [waiting EXCEPT ![c] = FALSE]
  /\ waiting_conns' = [t \in Tubes |-> IF t \in taken THEN waiting_conns[t] \ {c}
                                                      ELSE waiting_conns[t]]

\* conn_remove_waiting: out of the waiting set of every tube c watches.  taken
\* are tubes whose set c has left before (set_take).
RemoveWaiting(c, taken) ==
  /\ waiting' = [waiting EXCEPT ![c] = FALSE]
  /\ waiting_conns' = [t \in Tubes |-> IF t \in taken \/ (waiting[c] /\ t \in watch[c])
                                       THEN waiting_conns[t] \ {c} ELSE waiting_conns[t]]

-----------------------------------------------------------------------------
(* process_queue.  When it is done, a call that has nothing left to do ends *)
(* and the loops of kick, timeout and close get their next turn.            *)

\* The scan stops at a paused tube instead of skipping it.
Eligible_Fault ==
  IF \E t \in Tubes : pause[t] THEN {}
  ELSE UNION {ready_jobs[t] : t \in {u \in Tubes : waiting_conns[u] # {}}}

\* The ready jobs of the tubes that next_eligible_job does not pass over: those
\* that are not paused and have a waiting connection.
Eligible == UNION {ready_jobs[t] : t \in {u \in Tubes : ~ pause[u] /\ waiting_conns[u] # {}}}

\* The top of any heap will do.
IsNext_Fault(j) == j \in Eligible

\* next_eligible_job returns j, the least of the tops of those heaps.
IsNext(j) == j \in Eligible /\ \A k \in Eligible \ {j} : JobPriLess(j, k)

\* One turn of the loop of process_queue: the job leaves its heap, a waiting
\* connection (set_take) stops waiting, and reserve_job gives it the job and
\* starts the reply RESERVED.
Deliver(j, c) ==
  /\ health = "ok" /\ processing
  /\ IsNext(j)
  /\ c \in waiting_conns[tube[j]]
  /\ ready_jobs' = [ready_jobs EXCEPT ![tube[j]] = @ \ {j}]
  /\ RemoveWaiting(c, {tube[j]})
  /\ job_state' = [job_state EXCEPT ![j] = "reserved"]
  /\ reserver' = [reserver EXCEPT ![j] = c]
  /\ reserved_jobs' = [reserved_jobs EXCEPT ![c] = @ \union {j}]
  /\ out_job' = [out_job EXCEPT ![c] = j]
  /\ state' = [state EXCEPT ![c] = "sendjob"]
  /\ UNCHANGED <<health, callVars, nameVars, tickVars, in_job, next_job_id, tube, pri,
                 delay_jobs, buried_jobs, pause>>

\* No candidate is left, and the handler goes on: put and release reply, kick and
\* close have their loops to finish, a timeout sets the tick anew.
ProcessQueueReturns ==
  /\ health = "ok" /\ processing
  /\ Eligible = {}
  /\ processing' = FALSE
  /\ call' = IF call.op \in {"kick_buried", "kick_delayed", "close", "timeout"}
             THEN call ELSE NoCall
  /\ \/ call.op \in {"put", "release"} /\ Reply(call.conn) /\ UNCHANGED connsVars
     \/ /\ call.op = "timeout"
        /\ SetTick(call.conn, reserved_jobs[call.conn], pending[call.conn])
        /\ UNCHANGED state
     \/ call.op \notin {"put", "release", "timeout"} /\ UNCHANGED <<state, connsVars>>
  /\ UNCHANGED <<health, nameVars, waitVars, pending, ioVars, jobVars, queueVars, pause>>

-----------------------------------------------------------------------------
(* Connections come and get their replies. *)

\* conn_accept and conn_create.
Accept(c) ==
  /\ Idle /\ state[c] = "closed"
  /\ state' = [state EXCEPT ![c] = "wantcommand"]
  /\ watch' = [watch EXCEPT ![c] = {DefaultTube}]
  /\ UNCHANGED <<health, callVars, use, waitVars, tickVars, ioVars, jobVars, queueVars, pause>>

\* handle_client, STATE_SENDWORD or STATE_SENDJOB, with the last bytes of the
\* reply written: conn_reset.
ReplySent(c) ==
  /\ Idle /\ state[c] \in {"sendword", "sendjob"}
  /\ state' = [state EXCEPT ![c] = "wantcommand"]
  /\ out_job' = [out_job EXCEPT ![c] = NoJob]
  /\ UNCHANGED <<health, callVars, nameVars, waitVars, tickVars, in_job, jobVars,
                 queueVars, pause>>

\* handle_client, STATE_BITBUCKET, with the last byte thrown away.
BucketFull(c) == Idle /\ state[c] = "bitbucket" /\ ReplyOnly(c)

-----------------------------------------------------------------------------
(* Producer commands. *)

\* The id is not used up.
TakeJobId_Fault == UNCHANGED next_job_id

\* job_create takes the next id.
TakeJobId == next_job_id' = next_job_id + 1

\* OP_PUT up to fill_extra_data: job_create puts the job in all_jobs, in the
\* state JOB_INVALID, and the connection waits for the body.
Put(c, p) ==
  /\ Commanding(c)
  /\ next_job_id \in Jobs
  /\ TakeJobId
  /\ job_state' = [job_state EXCEPT ![next_job_id] = "invalid"]
  /\ tube' = [tube EXCEPT ![next_job_id] = use[c]]
  /\ pri' = [pri EXCEPT ![next_job_id] = p]
  /\ in_job' = [in_job EXCEPT ![c] = next_job_id]
  /\ state' = [state EXCEPT ![c] = "wantdata"]
  /\ UNCHANGED <<health, callVars, nameVars, waitVars, tickVars, out_job, reserver,
                 reserved_jobs, queueVars, pause>>

\* OP_PUT, JOB_TOO_BIG or OUT_OF_MEMORY: skip_and_reply has to throw a body away
\* first.  When the body has come with the command, Answer replies at once.
PutSkipped(c) ==
  /\ Commanding(c)
  /\ state' = [state EXCEPT ![c] = "bitbucket"]
  /\ UNCHANGED <<health, callVars, nameVars, waitVars, tickVars, ioVars, jobVars,
                 queueVars, pause>>

\* enqueue_incoming_job: the body is complete, the trailer is there, and the
\* job is enqueued with or without a delay.
PutBody(c, delayed) ==
  /\ Idle /\ state[c] = "wantdata"
  /\ in_job' = [in_job EXCEPT ![c] = NoJob]
  /\ EnqueueJob(in_job[c], delayed)
  /\ call' = Call("put", c)
  /\ UNCHANGED <<health, state, nameVars, waitVars, tickVars, out_job, next_job_id, tube,
                 pri, reserved_jobs, buried_jobs>>

\* enqueue_incoming_job, replies EXPECTED_CRLF (the trailer is missing),
\* DRAINING (drain_mode was set by SIGUSR1) and INTERNAL_ERROR (no memory): the
\* job is freed.
PutBodyRefused(c) ==
  /\ Idle /\ state[c] = "wantdata"
  /\ in_job' = [in_job EXCEPT ![c] = NoJob]
  /\ FreeJob(in_job[c])
  /\ Reply(c)
  /\ UNCHANGED <<health, callVars, nameVars, waitVars, tickVars, out_job, next_job_id, tube,
                 reserver, reserved_jobs, queueVars, pause>>

\* OP_USE.
Use(c, t) ==
  /\ Commanding(c)
  /\ use' = [use EXCEPT ![c] = t]
  /\ DropTubes(use', watch)
  /\ Reply(c)
  /\ UNCHANGED <<health, callVars, watch, waitVars, tickVars, ioVars, jobVars, queueVars>>

-----------------------------------------------------------------------------
(* Worker commands. *)

\* OP_RESERVE and OP_RESERVE_TIMEOUT: wait_for_job, then process_queue.
Reserve(c, timeout) ==
  /\ Commanding(c)
  /\ state' = [state EXCEPT ![c] = "wait"]
  /\ waiting' = [waiting EXCEPT ![c] = TRUE]
  /\ waiting_conns' = [t \in Tubes |-> IF t \in watch[c] THEN waiting_conns[t] \union {c}
                                                        ELSE waiting_conns[t]]
  /\ pending' = [pending EXCEPT ![c] = timeout]
  /\ SetTick(c, reserved_jobs[c], timeout)
  /\ ProcessQueue({})
  /\ call' = Call("reserve", c)
  /\ UNCHANGED <<health, nameVars, ioVars, jobVars, queueVars>>

\* OP_RESERVE, reply DEADLINE_SOON: conn_deadline_soon holds, which takes a
\* reserved job, and there is no ready job to watch for.
ReserveDeadlineSoon(c) ==
  Commanding(c) /\ reserved_jobs[c] # {} /\ ~ HasReadyJob(c) /\ ReplyOnly(c)

\* job_free at the end of OP_DELETE, and the reply DELETED.
FreeDeleted(c, j) ==
  /\ FreeJob(j)
  /\ reserver' = [reserver EXCEPT ![j] = NoConn]
  /\ Reply(c)
  /\ UNCHANGED health

\* OP_DELETE tries the reserved list of c, the ready heap and the buried list
\* in turn.  The buried list is asked by tube and not by job: its head is
\* popped whatever job it is, and j is freed.  Unless j is the head, the head is
\* then in no queue, and the queue or the connection that has j is left with a
\* pointer to freed memory; only a lost job is in none.  remove_delayed_job tests
\* for JOB_READY, so a delayed job is NOT_FOUND.
Delete(c, j) ==
  /\ Commanding(c) /\ Found(j)
  /\ \/ /\ HoldsJob(c, j)
        /\ RemoveReserved(c, j)
        /\ FreeDeleted(c, j)
        /\ UNCHANGED <<ready_jobs, buried_jobs>>
     \/ /\ ~ HoldsJob(c, j) /\ job_state[j] = "ready"
        /\ ready_jobs' = [ready_jobs EXCEPT ![tube[j]] = @ \ {j}]
        /\ FreeDeleted(c, j)
        /\ UNCHANGED <<reserved_jobs, buried_jobs>>
     \/ /\ ~ HoldsJob(c, j) /\ job_state[j] # "ready"
        /\ buried_jobs[tube[j]] # <<>> /\ Head(buried_jobs[tube[j]]) = j
        /\ buried_jobs' = PopBuried(tube[j])
        /\ FreeDeleted(c, j)
        /\ UNCHANGED <<reserved_jobs, ready_jobs>>
     \/ /\ ~ HoldsJob(c, j) /\ job_state[j] # "ready"
        /\ buried_jobs[tube[j]] # <<>> /\ Head(buried_jobs[tube[j]]) # j
        /\ buried_jobs' = PopBuried(tube[j])
        /\ job_state' = [job_state EXCEPT ![Head(buried_jobs[tube[j]])] = "lost", ![j] = "none"]
        /\ pri' = [pri EXCEPT ![j] = 0]
        /\ reserver' = [reserver EXCEPT ![j] = NoConn]
        /\ health' = IF job_state[j] = "lost" THEN health ELSE "undefined"
        /\ Reply(c)
        /\ UNCHANGED <<reserved_jobs, ready_jobs>>
     \/ /\ ~ HoldsJob(c, j) /\ job_state[j] # "ready"
        /\ buried_jobs[tube[j]] = <<>>
        /\ Reply(c)
        /\ UNCHANGED <<health, reserved_jobs, job_state, pri, reserver, ready_jobs, buried_jobs>>
  /\ UNCHANGED <<callVars, nameVars, waitVars, tickVars, ioVars, next_job_id, tube,
                 delay_jobs, pause>>

\* OP_RELEASE of a job that c holds, with a new priority and maybe a delay.
Release(c, j, p, delayed) ==
  /\ Commanding(c) /\ HoldsJob(c, j)
  /\ RemoveReserved(c, j)
  /\ pri' = [pri EXCEPT ![j] = p]
  /\ EnqueueJob(j, delayed)
  /\ call' = Call("release", c)
  /\ UNCHANGED <<health, state, nameVars, waitVars, tickVars, ioVars, next_job_id, tube,
                 buried_jobs>>

\* OP_BURY of a job that c holds, replies BURIED and INTERNAL_ERROR, and
\* OP_RELEASE when enqueue_job fails.
Bury(c, j, p) ==
  /\ Commanding(c) /\ HoldsJob(c, j)
  /\ RemoveReserved(c, j)
  /\ pri' = [pri EXCEPT ![j] = p]
  /\ BuryJob(j, buried_jobs)
  /\ Reply(c)
  /\ UNCHANGED <<health, call, nameVars, waitVars, tickVars, ioVars, next_job_id, tube,
                 ready_jobs, delay_jobs>>

\* OP_WATCH.
Watch(c, t) ==
  /\ Commanding(c)
  /\ watch' = [watch EXCEPT ![c] = @ \union {t}]
  /\ Reply(c)
  /\ UNCHANGED <<health, callVars, use, waitVars, tickVars, ioVars, jobVars, queueVars, pause>>

\* OP_IGNORE, unless t is the only tube on the watch list (NOT_IGNORED).
Ignore(c, t) ==
  /\ Commanding(c)
  /\ t \in watch[c] /\ watch[c] # {t}
  /\ watch' = [watch EXCEPT ![c] = @ \ {t}]
  /\ DropTubes(use, watch')
  /\ Reply(c)
  /\ UNCHANGED <<health, callVars, use, waitVars, tickVars, ioVars, jobVars, queueVars>>

-----------------------------------------------------------------------------
(* Other commands. *)

\* OP_KICK: kick_jobs looks once whether the tube has a buried job.
Kick(c, n) ==
  /\ Commanding(c)
  /\ LET op == IF buried_jobs[use[c]] # <<>> THEN "kick_buried" ELSE "kick_delayed"
     IN call' = [Call(op, c) EXCEPT !.left = n]
  /\ UNCHANGED <<health, processing, state, nameVars, waitVars, tickVars, ioVars, jobVars,
                 queueVars, pause>>

\* One turn too many.
KickGoesOn_Fault(op) == Running(op) /\ call.left >= 0

\* kick_buried_jobs or kick_delayed_jobs, below the bound.
KickGoesOn(op) == Running(op) /\ call.left > 0

KickedTube == use[call.conn]

\* kick_buried_job moves the head of the buried list.
KickBuried ==
  /\ KickGoesOn("kick_buried")
  /\ buried_jobs[KickedTube] # <<>>
  /\ buried_jobs' = PopBuried(KickedTube)
  /\ EnqueueReady(Head(buried_jobs[KickedTube]))
  /\ call' = [call EXCEPT !.left = @ - 1]
  /\ UNCHANGED <<health, state, nameVars, waitVars, tickVars, ioVars, next_job_id, tube, pri,
                 reserved_jobs, delay_jobs>>

\* kick_buried_job returns 0 when the list is empty, so the loop counts on.
KickBuriedNone ==
  /\ KickGoesOn("kick_buried")
  /\ buried_jobs[KickedTube] = <<>>
  /\ call' = [call EXCEPT !.left = @ - 1]
  /\ UNCHANGED <<health, processing, state, nameVars, waitVars, tickVars, ioVars, jobVars,
                 queueVars, pause>>

\* kick_buried_job when enqueue_job fails: the job is buried again, as the last
\* one, and the loop ends.
KickBuriedFails ==
  /\ KickGoesOn("kick_buried") /\ FALSE \in Allocations
  /\ buried_jobs[KickedTube] # <<>>
  /\ BuryJob(Head(buried_jobs[KickedTube]), PopBuried(KickedTube))
  /\ call' = [call EXCEPT !.left = 0]
  /\ UNCHANGED <<health, state, nameVars, waitVars, tickVars, ioVars, next_job_id, tube, pri,
                 reserved_jobs, ready_jobs, delay_jobs>>

\* kick_delayed_job: the job that is due first (any, as time is abstracted)
\* moves to the ready heap.
KickDelayed(j) ==
  /\ KickGoesOn("kick_delayed")
  /\ j \in delay_jobs[KickedTube]
  /\ delay_jobs' = [delay_jobs EXCEPT ![KickedTube] = @ \ {j}]
  /\ EnqueueReady(j)
  /\ call' = [call EXCEPT !.left = @ - 1]
  /\ UNCHANGED <<health, state, nameVars, waitVars, tickVars, ioVars, next_job_id, tube, pri,
                 reserved_jobs, buried_jobs>>

\* kick_delayed_job when the ready heap does not grow: the job is put back into
\* the delay heap by a second enqueue_job, and the loop ends.
KickDelayedFails ==
  /\ KickGoesOn("kick_delayed") /\ FALSE \in Allocations
  /\ delay_jobs[KickedTube] # {}
  /\ ProcessQueue({})
  /\ call' = [call EXCEPT !.left = 0]
  /\ UNCHANGED <<health, state, nameVars, waitVars, tickVars, ioVars, jobVars, queueVars>>

\* The bound is reached or the delay heap is empty: reply KICKED.
KickEnds ==
  /\ \/ Running("kick_buried") /\ call.left = 0
     \/ Running("kick_delayed") /\ (call.left = 0 \/ delay_jobs[KickedTube] = {})
  /\ call' = NoCall
  /\ Reply(call.conn)
  /\ UNCHANGED <<health, processing, nameVars, waitVars, tickVars, ioVars, jobVars,
                 queueVars, pause>>

\* OP_PAUSE_TUBE of a tube that exists.
PauseTube(c, t) ==
  /\ Commanding(c)
  /\ Referenced(t, use, watch)
  /\ pause' = [pause EXCEPT ![t] = TRUE]
  /\ Reply(c)
  /\ UNCHANGED <<health, callVars, nameVars, waitVars, tickVars, ioVars, jobVars, queueVars>>

\* reply_job with a job that belongs to the reply: FOUND with a job_copy, or the
\* text of do_stats and do_list_tubes.
ReplyCopy(c) ==
  /\ out_job' = [out_job EXCEPT ![c] = Copy]
  /\ state' = [state EXCEPT ![c] = "sendjob"]
  /\ UNCHANGED <<health, callVars, nameVars, waitVars, tickVars, in_job, jobVars, queueVars,
                 pause>>

\* OP_STATS, OP_JOBSTATS, OP_STATS_TUBE, OP_LIST_TUBES, OP_LIST_TUBES_WATCHED.
Stats(c) == Commanding(c) /\ ReplyCopy(c)

\* OP_PEEKJOB: any job of all_jobs, also one whose body is still being read.
PeekJob(c, j) == Commanding(c) /\ Found(j) /\ ReplyCopy(c)

\* OP_PEEK_READY: the top of the ready heap of the used tube.
PeekReady(c, j) ==
  /\ Commanding(c)
  /\ j \in ready_jobs[use[c]]
  /\ \A k \in ready_jobs[use[c]] \ {j} : JobPriLess(j, k)
  /\ ReplyCopy(c)

\* OP_PEEK_DELAYED: the job that is due first, any one here.
PeekDelayed(c, j) == Commanding(c) /\ j \in delay_jobs[use[c]] /\ ReplyCopy(c)

\* OP_PEEK_BURIED: when the tube has a buried job, the head of the list of jobs
\* that c has RESERVED is copied; without one, the copy is of a null pointer.
PeekBuried(c, j) ==
  /\ Commanding(c)
  /\ buried_jobs[use[c]] # <<>>
  /\ \/ HoldsJob(c, j) /\ ReplyCopy(c)
     \/ /\ reserved_jobs[c] = {}
        /\ health' = "crashed"
        /\ UNCHANGED <<callVars, state, nameVars, waitVars, tickVars, ioVars, jobVars,
                       queueVars, pause>>

\* Every command that changes no queue: OP_TOUCH (deadlines are abstracted),
\* OP_LIST_TUBE_USED, and the replies NOT_FOUND, NOT_IGNORED, BAD_FORMAT,
\* UNKNOWN_COMMAND, OUT_OF_MEMORY, JOB_TOO_BIG of all others.
Answer(c) == Commanding(c) /\ ReplyOnly(c)

-----------------------------------------------------------------------------
(* conn_free: the client hung up, sent quit, or a read or write failed. *)

\* A job still being read is freed, a wait ends; then the reserved jobs go back.
Close(c) ==
  /\ Idle /\ state[c] # "closed"
  /\ IF in_job[c] = NoJob THEN UNCHANGED <<job_state, pri>> ELSE FreeJob(in_job[c])
  /\ in_job' = [in_job EXCEPT ![c] = NoJob]
  /\ out_job' = [out_job EXCEPT ![c] = NoJob]
  /\ RemoveWaiting(c, {})
  /\ call' = Call("close", c)
  /\ UNCHANGED <<health, processing, state, nameVars, tickVars, next_job_id, tube, reserver,
                 reserved_jobs, queueVars, pause>>

\* The loop takes the jobs of any connection.
Closing_Fault(c) == Running("close") /\ (call.conn = c \/ reserved_jobs[c] # {})

\* The loop of enqueue_reserved_jobs for c.
Closing(c) == Running("close") /\ call.conn = c

\* enqueue_reserved_jobs, one turn.
CloseRequeue(c, j) ==
  /\ Closing(c) /\ HoldsJob(c, j)
  /\ RemoveReserved(c, j)
  /\ EnqueueOrBury(j)
  /\ UNCHANGED <<health, call, state, nameVars, waitVars, tickVars, ioVars, next_job_id, tube,
                 pri, delay_jobs>>

\* The rest of conn_free: the references to tubes and the tick go.
CloseEnds(c) ==
  /\ Closing(c) /\ reserved_jobs[c] = {}
  /\ state' = [state EXCEPT ![c] = "closed"]
  /\ use' = [use EXCEPT ![c] = DefaultTube]
  /\ watch' = [watch EXCEPT ![c] = {}]
  /\ DropTubes(use', watch')
  /\ \/ FreeTick(c) /\ UNCHANGED health
     \/ LeavesFreed(c) /\ health' = "undefined" /\ UNCHANGED connsVars
  /\ pending' = [pending EXCEPT ![c] = FALSE]
  /\ call' = NoCall
  /\ UNCHANGED <<processing, waitVars, ioVars, jobVars, queueVars>>

-----------------------------------------------------------------------------
(* conn_cron, which event_loop calls before the handlers, every 10 ms.  Each *)
(* turn of one of its three loops is a call of its own.                      *)

\* The test of the state is the one of remove_ready_job.
MayBeDue_Fault(j) == job_state[j] = "ready" /\ j \in delay_jobs[tube[j]]

\* soonest_delay_job finds j, and its deadline has passed.
MayBeDue(j) == j \in delay_jobs[tube[j]]

\* The first loop: a delayed job is due.
CronDelay(j) ==
  /\ Idle /\ MayBeDue(j)
  /\ delay_jobs' = [delay_jobs EXCEPT ![tube[j]] = @ \ {j}]
  /\ EnqueueOrBury(j)
  /\ call' = IF processing' THEN Call("cron", NoConn) ELSE NoCall
  /\ UNCHANGED <<health, state, nameVars, waitVars, tickVars, ioVars, next_job_id, tube, pri,
                 reserved_jobs>>

\* The second loop: the pause of a tube is over.
CronPause(t) ==
  /\ Idle /\ pause[t]
  /\ ProcessQueue({t})
  /\ call' = Call("cron", NoConn)
  /\ UNCHANGED <<health, state, nameVars, waitVars, tickVars, ioVars, jobVars, queueVars>>

\* The third loop: the tick of c is due, and conn_timeout finds the jobs in
\* expired past their deadline.  soon: c waits and one of its jobs is within the
\* safety margin, which is so if a job has expired, and also if c waits without
\* a timeout of its own, because conn_tickat has then set the tick to that margin.
Timeout(c, expired, soon) ==
  /\ Idle /\ PopTick(c)
  /\ expired \subseteq reserved_jobs[c]
  /\ soon => waiting[c] /\ reserved_jobs[c] # {}
  /\ waiting[c] /\ reserved_jobs[c] # {} /\ (expired # {} \/ ~ pending[c]) => soon
  /\ call' = [Call("timeout", c) EXCEPT !.jobs = expired, !.soon = soon]
  /\ UNCHANGED <<health, processing, state, nameVars, waitVars, pending, ioVars, jobVars,
                 queueVars, pause>>

\* conn_timeout runs for c.
TimingOut(c) == Running("timeout") /\ call.conn = c

\* The job being sent is not copied.
KeepSending_Fault(c, j) == UNCHANGED out_job

\* If j is being sent to c, the rest is sent from a copy.
KeepSending(c, j) == out_job' = [out_job EXCEPT ![c] = IF @ = j THEN Copy ELSE @]

\* The loop of conn_timeout takes an expired job from c.  The tick is set anew
\* after enqueue_job, which is here if process_queue does not run.
TimeoutExpire(c, j) ==
  /\ TimingOut(c) /\ j \in call.jobs
  /\ KeepSending(c, j)
  /\ RemoveReserved(c, j)
  /\ EnqueueOrBury(j)
  /\ IF processing' THEN UNCHANGED connsVars
     ELSE SetTick(c, reserved_jobs'[c], pending[c])
  /\ call' = [call EXCEPT !.jobs = @ \ {j}]
  /\ UNCHANGED <<health, state, nameVars, waitVars, pending, in_job, next_job_id, tube, pri,
                 delay_jobs>>

\* The end of conn_timeout: DEADLINE_SOON if should_timeout was set at its
\* start, else TIMED_OUT if c waits with a timeout, else no reply.
TimeoutEnds(c) ==
  /\ TimingOut(c) /\ call.jobs = {}
  /\ \/ call.soon /\ RemoveWaiting(c, {}) /\ Reply(c) /\ UNCHANGED pending
     \/ /\ ~ call.soon /\ waiting[c] /\ pending[c]
        /\ RemoveWaiting(c, {}) /\ Reply(c)
        /\ pending' = [pending EXCEPT ![c] = FALSE]
     \/ /\ ~ call.soon /\ ~ (waiting[c] /\ pending[c])
        /\ UNCHANGED <<waitVars, state, pending>>
  /\ call' = NoCall
  /\ UNCHANGED <<health, processing, nameVars, connsVars, ioVars, jobVars, queueVars, pause>>

-----------------------------------------------------------------------------

\* The running handler goes on.
Continue ==
  \/ \E c \in Conns, j \in Jobs : Deliver(j, c) \/ CloseRequeue(c, j) \/ TimeoutExpire(c, j)
  \/ \E c \in Conns : CloseEnds(c) \/ TimeoutEnds(c)
  \/ ProcessQueueReturns
  \/ KickBuried \/ KickBuriedNone \/ KickBuriedFails
  \/ \E j \in Jobs : KickDelayed(j)
  \/ KickDelayedFails \/ KickEnds

\* A connection comes, goes, or has its output or input taken one stage on.
Input(c) ==
  \/ Accept(c) \/ Close(c) \/ ReplySent(c) \/ BucketFull(c)
  \/ \E delayed \in BOOLEAN : PutBody(c, delayed)
  \/ PutBodyRefused(c)

\* do_cmd.
Command(c) ==
  \/ \E j \in Jobs : \/ Delete(c, j) \/ PeekJob(c, j)
                     \/ PeekReady(c, j) \/ PeekDelayed(c, j) \/ PeekBuried(c, j)
  \/ \E p \in Pris : Put(c, p)
  \/ \E timeout \in BOOLEAN : Reserve(c, timeout)
  \/ \E j \in Jobs, p \in Pris : Bury(c, j, p) \/ \E d \in BOOLEAN : Release(c, j, p, d)
  \/ \E t \in Tubes : Use(c, t) \/ Watch(c, t) \/ Ignore(c, t) \/ PauseTube(c, t)
  \/ \E n \in KickBounds : Kick(c, n)
  \/ PutSkipped(c) \/ ReserveDeadlineSoon(c) \/ Stats(c) \/ Answer(c)

\* conn_cron finds the tick of c due.
CronTimeout(c) == \E expired \in SUBSET Jobs, soon \in BOOLEAN : Timeout(c, expired, soon)

Cron ==
  \/ \E j \in Jobs : CronDelay(j)
  \/ \E t \in Tubes : CronPause(t)
  \/ \E c \in Conns : CronTimeout(c)

\* A crashed or undefined process makes no further promise.
Dead == health # "ok" /\ UNCHANGED vars

Next ==
  \/ Continue
  \/ \E c \in Conns : Input(c) \/ Command(c)
  \/ Cron
  \/ Dead

Spec == Init /\ [][Next]_vars

\* A handler runs to its end.  event_loop calls conn_cron in every round before
\* the handlers of that round, so a tick or a delay that stays due is served
\* however many commands come in between: strong fairness.  That holds for ticks
\* as long as srv->conns is in order.  Nothing is assumed of clients.
Fairness ==
  /\ WF_vars(Continue)
  /\ \A j \in Jobs : SF_vars(CronDelay(j))
  /\ \A c \in Conns : SF_vars(~ displaced /\ CronTimeout(c))

FairSpec == Spec /\ Fairness

-----------------------------------------------------------------------------
(* Properties. *)

\* Every variable has its type: ids in all_jobs are ids handed out, a connection
\* points to jobs and tubes, and a handler to its connection.
TypeOK ==
  /\ health \in {"ok", "crashed", "undefined"}
  /\ call \in CallType
  /\ processing \in BOOLEAN
  /\ state \in [Conns -> ConnStates]
  /\ use \in [Conns -> Tubes]
  /\ watch \in [Conns -> SUBSET Tubes]
  /\ waiting \in [Conns -> BOOLEAN]
  /\ pending \in [Conns -> BOOLEAN]
  /\ ticking \in [Conns -> BOOLEAN] /\ displaced \in BOOLEAN
  /\ in_job \in [Conns -> Jobs \union {NoJob}]
  /\ out_job \in [Conns -> Jobs \union {NoJob, Copy}]
  /\ reserved_jobs \in [Conns -> SUBSET Jobs]
  /\ next_job_id \in 1 .. MaxJobs + 1
  /\ job_state \in [Jobs -> JobStates]
  /\ tube \in [Jobs -> Tubes]
  /\ pri \in [Jobs -> Nat]
  /\ reserver \in [Jobs -> Conns \union {NoConn}]
  /\ ready_jobs \in [Tubes -> SUBSET Jobs]
  /\ delay_jobs \in [Tubes -> SUBSET Jobs]
  /\ buried_jobs \in [Tubes -> Seq(Jobs)]
  /\ waiting_conns \in [Tubes -> SUBSET Conns]
  /\ pause \in [Tubes -> BOOLEAN]

\* What each queue holds, by the record of the job.
ReadyInPlace ==
  \A t \in Tubes, j \in Jobs : j \in ready_jobs[t] <=> job_state[j] = "ready" /\ tube[j] = t
DelayedInPlace ==
  \A t \in Tubes, j \in Jobs : j \in delay_jobs[t] <=> job_state[j] = "delayed" /\ tube[j] = t
BuriedInPlace ==
  \A t \in Tubes, j \in Jobs :
    j \in ToSet(buried_jobs[t]) <=> job_state[j] = "buried" /\ tube[j] = t
ReservedInPlace ==
  \A c \in Conns, j \in Jobs :
    j \in reserved_jobs[c] <=> job_state[j] = "reserved" /\ reserver[j] = c

InPlace == ReadyInPlace /\ DelayedInPlace /\ BuriedInPlace /\ ReservedInPlace

\* A job is in exactly the queue its state names, of its own tube, and a
\* reserved job is on the list of the one connection that is its reserver.
\* What delete, kick, bury, the timeouts and conn_free take out of one queue
\* they must put into one other, or free, save where bury_job fails.
JobInPlace == health = "ok" => InPlace

\* A buried list holds a job once.
BuriedOnce == \A t \in Tubes : IsInjective(buried_jobs[t])

\* The jobs whose body is being read are those that some connection reads, and
\* no job has two readers: conn_free and a refused body free the reader's job.
\* Until a delete frees one of them, which is undefined.
ReadByOne ==
  health = "ok" =>
    /\ \A j \in Jobs : job_state[j] = "invalid" <=> \E c \in Conns : in_job[c] = j
    /\ \A c, d \in Conns : in_job[c] = in_job[d] /\ in_job[c] # NoJob => c = d

\* process_queue leaves no match behind: once it has returned, no tube that is
\* not paused has a ready job and a waiting connection.  Every handler that
\* adds a ready job or a waiting connection, or ends a pause, must run it.
NoMatchLeft ==
  processing \/ \A t \in Tubes : pause[t] \/ ready_jobs[t] = {} \/ waiting_conns[t] = {}

\* The waiting sets of the tubes are those of the waiting connections: c is in
\* the set of t exactly if it waits and watches t.  Watch lists change, jobs
\* are delivered and connections go, and none may leave a dead entry that
\* set_take could return.
WaitingInPlace ==
  \A c \in Conns, t \in Tubes : c \in waiting_conns[t] <=> waiting[c] /\ t \in watch[c]

\* The job that is being written to a client is not a copy only as long as that
\* client holds it: a job that a timeout has taken back may be freed by another
\* client before the last byte is sent (the comment in conn_timeout).
SentJobIsHeld ==
  \A c \in Conns : out_job[c] \in Jobs => out_job[c] \in reserved_jobs[c]

\* A closed connection holds no job, waits for none and is not in srv->conns, or
\* conn_free has left it there and the server is undefined.
ClosedHoldsNothing ==
  \A c \in Conns : state[c] = "closed" =>
    /\ reserved_jobs[c] = {} /\ in_job[c] = NoJob /\ out_job[c] = NoJob
    /\ ~ waiting[c] /\ watch[c] = {}
    /\ ticking[c] => health = "undefined"

\* What the handler that is running relies on until its end.
CallInv ==
  /\ call.op \notin {"none", "cron"} => call.conn \in Conns /\ state[call.conn] # "closed"
  /\ call.op = "timeout" =>
       /\ call.jobs \subseteq reserved_jobs[call.conn]
       /\ call.soon => state[call.conn] \in {"wait", "sendjob"}
  /\ call.op \in {"put", "release", "kick_buried", "kick_delayed", "close"} =>
       ~ waiting[call.conn] /\ in_job[call.conn] = NoJob
  /\ call.op = "close" => out_job[call.conn] = NoJob

\* What the state of a connection says of its other fields.
StateInv ==
  \A c \in Conns :
    /\ waiting[c] => state[c] = "wait"
    /\ in_job[c] # NoJob => state[c] = "wantdata"
    /\ state[c] = "wantdata" =>
         in_job[c] # NoJob \/ (call.op \in {"put", "close"} /\ call.conn = c)
    /\ out_job[c] \in Jobs => state[c] \in {"sendjob", "sendword"}

\* An id that is not handed out is in use by nobody.
FreshInv == \A j \in Jobs : j >= next_job_id => job_state[j] = "none"

\* What the record of a job says: only a reserved job has a reserver, and a job has
\* the priority that some client gave it last.
RecordInv ==
  \A j \in Jobs :
    /\ job_state[j] # "reserved" => reserver[j] = NoConn
    /\ job_state[j] # "none" => pri[j] \in Pris

\* process_queue runs inside a handler, and it is all that is left of those that
\* enqueue or wait once.  conn_timeout will give a waiting client no answer only
\* if there is nothing left to wake it for.
HandlerInv ==
  /\ processing => call # NoCall
  /\ call.op = "none" => call = NoCall
  /\ call.op \in {"put", "release", "reserve", "cron"} => processing
  /\ call.op = "timeout" /\ ~ call.soon /\ waiting[call.conn] /\ ~ pending[call.conn] =>
       reserved_jobs[call.conn] = {}

\* A waiting client that conn_cron has to wake, at its timeout or at the margin of
\* a job it holds, is in srv->conns, or conn_timeout is at it: no job that comes or
\* goes takes the tick of a client that still waits, and none is lost but where
\* heap_remove pushes one out or heap_insert fails.
WaitersTick ==
  ~ displaced /\ ~ AllocMayFail =>
    \A c \in Conns : waiting[c] /\ (pending[c] \/ reserved_jobs[c] # {}) =>
      ticking[c] \/ (call.op = "timeout" /\ call.conn = c)

\* The inductive invariant: the safety invariants hold step by step only together
\* with what handlers and connection states guarantee each other in between.
IndInv ==
  /\ TypeOK /\ CallInv /\ HandlerInv /\ StateInv /\ FreshInv /\ RecordInv
  /\ JobInPlace /\ BuriedOnce /\ ReadByOne /\ NoMatchLeft /\ WaitingInPlace
  /\ SentJobIsHeld /\ ClosedHoldsNothing /\ WaitersTick

\* A job leaves the list of its reserver by a command of that connection, by its
\* deadline or with the connection, and by no handler that runs for another.  (A
\* delete by another may free it on the list, see OthersJobNotDeleted.)
OnlyHolderOrTimeoutEndsReservation ==
  [][\A c \in Conns : reserved_jobs'[c] \subseteq reserved_jobs[c]
                      /\ reserved_jobs'[c] # reserved_jobs[c] =>
       \/ call = NoCall /\ state[c] = "wantcommand"
       \/ call.op \in {"timeout", "close"} /\ call.conn = c]_vars

\* doc/protocol.txt 132: "Jobs with smaller priority values will be scheduled
\* before jobs with larger priorities", over all the tubes a client watches: the
\* job it gets is the first of the ready jobs it could have got.
ServesMostUrgent ==
  [][\A c \in Conns, j \in Jobs : j \in reserved_jobs'[c] \ reserved_jobs[c] =>
       \A t \in watch[c] : ~ pause[t] =>
         \A k \in ready_jobs[t] \ {j} :
            pri[j] < pri[k] \/ (pri[j] = pri[k] /\ j < k)]_vars

\* A wait ends with a job, with a reply or with the connection.
WaitEndsInAnswer ==
  [][\A c \in Conns : waiting[c] /\ ~ waiting'[c] =>
       \/ state'[c] = "sendjob" /\ out_job'[c] \in reserved_jobs'[c] \ reserved_jobs[c]
       \/ state'[c] = "sendword"
       \/ call'.op = "close" /\ call'.conn = c]_vars

\* A handler ends: the loops of process_queue, kick, conn_timeout and conn_free
\* all come to their end.
HandlersEnd == call # NoCall ~> call = NoCall

\* A client that waits with a timeout, or with a job of its own on the clock,
\* does not wait for ever as long as the server lives and has memory, and as
\* srv->conns is in order: a client that is pushed out of it may well do.
WaitersAnswered ==
  \A c \in Conns :
    waiting[c] /\ (pending[c] \/ reserved_jobs[c] # {})
      ~> ~ waiting[c] \/ displaced \/ health # "ok"

\* A delayed job leaves the delay heap, whatever the clients do.
DelayEnds ==
  \A j \in Jobs :
    job_state[j] = "delayed" ~> job_state[j] # "delayed" \/ health # "ok"

\* doc/protocol.txt 247-249: "A client can delete jobs that it has reserved,
\* ready jobs, delayed jobs, and jobs that are buried."
DelayedCanBeDeleted ==
  [][\A c \in Conns, j \in Jobs :
       Delete(c, j) /\ job_state[j] = "delayed" => job_state'[j] = "none"]_vars

\* doc/protocol.txt 259-260: delete replies NOT_FOUND "if the job does not exist
\* or is not either reserved by the client, ready, or buried", so a job that
\* another client has reserved is none of its business.
OthersJobNotDeleted ==
  [][\A c \in Conns, j \in Jobs :
       Delete(c, j) /\ job_state[j] = "reserved" /\ reserver[j] # c =>
         job_state'[j] = "reserved"]_vars

\* doc/protocol.txt 363: "return the next job in the list of buried jobs."
PeekBuriedShowsBuried ==
  [][\A c \in Conns, j \in Jobs :
       PeekBuried(c, j) => health' = "ok" /\ job_state[j] = "buried"]_vars

\* doc/protocol.txt 141-142: "If the worker does not delete, release, or bury
\* the job within <ttr> seconds, the job will time out and the server will
\* release the job."
ReservationsTimeOut ==
  \A j \in Jobs : job_state[j] = "reserved" ~> job_state[j] # "reserved"

=============================================================================
