----------------------------- MODULE TubeQueue ------------------------------
(***************************************************************************)
(* The ready heap and the waiting set of one tube, as arrays: heap.c with  *)
(* job_pri_less and job_set_heap_pos, set.c, and process_queue, which      *)
(* matches the two.  A job enters by enqueue_job and leaves by its         *)
(* heap_index: the top in process_queue, any job in remove_ready_job.      *)
(* job_pri_less orders by priority and then by id, so that no two jobs are *)
(* equal, and all that the heap sees of a job is its place in that order:  *)
(* jobs are numbered by it, and a job that was released with another       *)
(* priority is another number.  The delay heap is the same with a deadline *)
(* for the priority.                                                       *)
(***************************************************************************)
EXTENDS Integers, Sequences, SequencesExt

CONSTANTS
  MaxJobs,      \* bound: jobs, numbered in the order of job_pri_less
  Conns         \* connections

ASSUME QueueAssumption == MaxJobs \in Nat

Jobs == 1 .. MaxJobs
NoJob == 0

\* The place of each job in the order.
Rank == [j \in Jobs |-> j]

VARIABLES
  ready_jobs,    \* t->ready_jobs, with heap_index of every job in its pos
  waiting_conns, \* t->waiting_conns
  waiting        \* c->type & CONN_TYPE_WAITING

queueVars == <<ready_jobs, waiting_conns, waiting>>

H == INSTANCE Heap WITH Items <- Jobs, NoItem <- NoJob
W == INSTANCE WaitSet

Init ==
  /\ ready_jobs = H!EmptyHeap
  /\ waiting_conns = W!EmptySet
  /\ waiting = [c \in Conns |-> FALSE]

\* process_queue has work to do, and no other step is taken before it has done it.
Match == ready_jobs.len > 0 /\ waiting_conns.items # <<>>

InHeap(j) == ready_jobs.pos[j] # H!OutOfHeap

\* enqueue_job(j, 0) of a job that is in no heap.
Enqueue(j) ==
  /\ ~ Match /\ ~ InHeap(j)
  /\ ready_jobs' = H!HeapInsert(ready_jobs, Rank, j)
  /\ UNCHANGED <<waiting_conns, waiting>>

\* heap_remove(&t->ready_jobs, j->heap_index).
TakeOut(j) == ready_jobs' = H!HeapRemove(ready_jobs, Rank, ready_jobs.pos[j])

\* remove_ready_job.
RemoveReady(j) == ~ Match /\ InHeap(j) /\ TakeOut(j) /\ UNCHANGED <<waiting_conns, waiting>>

\* conn_enqueue_waiting, of a connection that does not wait.
EnqueueWaiting(c) ==
  /\ ~ Match /\ ~ waiting[c]
  /\ waiting' = [waiting EXCEPT ![c] = TRUE]
  /\ waiting_conns' = W!SetAppend(waiting_conns, c)
  /\ UNCHANGED ready_jobs

\* conn_remove_waiting, for a timeout or when the connection is freed.
RemoveWaiting(c) ==
  /\ ~ Match /\ waiting[c]
  /\ waiting' = [waiting EXCEPT ![c] = FALSE]
  /\ waiting_conns' = W!SetRemove(waiting_conns, c)
  /\ UNCHANGED ready_jobs

\* A turn of the loop of process_queue: the top of the heap, and set_take with
\* conn_remove_waiting, whose set_remove finds the connection gone.
Deliver ==
  /\ Match
  /\ TakeOut(ready_jobs.data[0])
  /\ LET c == W!SetTaken(waiting_conns)
     IN /\ waiting' = [waiting EXCEPT ![c] = FALSE]
        /\ waiting_conns' = W!SetRemove(W!SetTake(waiting_conns), c)

Next ==
  \/ \E j \in Jobs : Enqueue(j) \/ RemoveReady(j)
  \/ \E c \in Conns : EnqueueWaiting(c) \/ RemoveWaiting(c)
  \/ Deliver

Spec == Init /\ [][Next]_queueVars

-----------------------------------------------------------------------------

\* No job is before its parent, all the way up, wherever a job was removed.
HeapOrdered ==
  \A k \in 1 .. ready_jobs.len - 1 : H!HeapLess(ready_jobs, Rank, (k - 1) \div 2, k)

\* heap_index is where the job is, so that remove_ready_job takes out that job
\* and no other: every swap and every move of the last element must record it.
HeapIndexExact ==
  \A j \in Jobs : \A k \in 0 .. ready_jobs.len - 1 :
    ready_jobs.data[k] = j <=> ready_jobs.pos[j] = k

Matching ==
  INSTANCE TubeMatching WITH
    ready   <- H!Contents(ready_jobs),
    waiters <- ToSet(waiting_conns.items)

\* The two arrays are a priority queue and a set: exactly the job or the client
\* asked for leaves them, so that set_take never returns one that has timed out or
\* is freed, and process_queue gives the first job to one client that waits.
\* Tasque relies on that.
ImplementsMatching == Matching!Spec

=============================================================================
