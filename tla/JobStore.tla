------------------------------ MODULE JobStore ------------------------------
(***************************************************************************)
(* Where the jobs of one tube are kept: all_jobs, a hash table by id       *)
(* (hash.c), the reserved_jobs of each connection and the buried_jobs of   *)
(* the tube, lists of pointers (dlist.c), and the calls of conn.c and      *)
(* job.c that change them.  Jobs that are ready or delayed are in a heap   *)
(* (TubeQueue) and here in neither list.                                   *)
(*                                                                         *)
(* After a failed hash_resize the array of the table is null: a put and    *)
(* every command that looks a job up end the process, so they are no steps *)
(* here; connections are served and closed until then.  A delete takes a   *)
(* job out of the queue it is in (Tasque has what else it may do).         *)
(***************************************************************************)
EXTENDS Integers, Sequences, SequencesExt

CONSTANTS
  StoreConns,   \* connections
  MaxId,        \* bound: jobs are numbered up to it
  InitSlots,    \* HASH_INIT_SLOTS
  ResizeRatio   \* HASH_RESIZE_RATIO

ASSUME StoreAssumption == MaxId \in Nat /\ InitSlots \in Nat \ {0}

Ids == 1 .. MaxId

T == INSTANCE Hash
L == INSTANCE DList WITH Nodes <- Ids, NoNode <- 0

VARIABLES
  all_jobs,       \* tasque_srv.all_jobs
  next_job_id,    \* tasque_srv.next_job_id
  reserved_jobs,  \* c->reserved_jobs
  buried_jobs,    \* t->buried_jobs
  job_state       \* j->rec.state, "queued" when ready or delayed, "none" for no job,
                  \* "lost" when bury_job has failed and left it in no list

storeVars == <<all_jobs, next_job_id, reserved_jobs, buried_jobs, job_state>>

StoreInit ==
  /\ all_jobs = T!HashInit(InitSlots)
  /\ next_job_id = 1
  /\ reserved_jobs = [c \in StoreConns |-> L!EmptyList]
  /\ buried_jobs = L!EmptyList
  /\ job_state = [j \in Ids |-> "none"]

\* The table can be used.
Whole == all_jobs.data # T!NoData

\* job_find.
Found(j) == Whole /\ T!HashHas(all_jobs, j)

SetState(j, s) == job_state' = [job_state EXCEPT ![j] = s]

\* job_create.
Put ==
  /\ Whole /\ next_job_id <= MaxId
  /\ all_jobs' = T!HashInsert(all_jobs, next_job_id)
  /\ next_job_id' = next_job_id + 1
  /\ SetState(next_job_id, "queued")
  /\ UNCHANGED <<reserved_jobs, buried_jobs>>

\* job_create when calloc fails in hash_insert: for the entry, or for the table.
PutFails ==
  /\ Whole /\ next_job_id <= MaxId
  /\ \/ all_jobs' = T!HashGrown(all_jobs)
     \/ T!HashFull(all_jobs) /\ all_jobs' = T!HashLost(all_jobs)
  /\ next_job_id' = next_job_id + 1
  /\ UNCHANGED <<reserved_jobs, buried_jobs, job_state>>

\* reserve_job.
Reserve(c, j) ==
  /\ job_state[j] = "queued"
  /\ reserved_jobs' = [reserved_jobs EXCEPT ![c] = L!AddHead(@, j)]
  /\ SetState(j, "reserved")
  /\ UNCHANGED <<all_jobs, next_job_id, buried_jobs>>

\* remove_reserved_job finds j on the list of c and takes it off.
RemoveReserved(c, j) ==
  /\ L!SearchKey(reserved_jobs[c], j) = j
  /\ reserved_jobs' = [reserved_jobs EXCEPT ![c] = L!DeleteNode(@, j)]

\* bury_job: dlist_add_node_tail may find no memory for the node.
BuryJob(j, list) ==
  \/ buried_jobs' = L!AddTail(list, j) /\ SetState(j, "buried")
  \/ buried_jobs' = list /\ SetState(j, "lost")

\* A release or a timeout, and bury: the job is enqueued, or buried.
GiveBack(c, j) ==
  /\ RemoveReserved(c, j)
  /\ \/ SetState(j, "queued") /\ UNCHANGED buried_jobs
     \/ BuryJob(j, buried_jobs)
  /\ UNCHANGED <<all_jobs, next_job_id>>

\* A turn of enqueue_reserved_jobs for a connection that goes: its first job is
\* enqueued, or buried when that fails.
CloseReserved(c) ==
  /\ reserved_jobs[c].len # 0
  /\ LET j == reserved_jobs[c].head
     IN /\ reserved_jobs' = [reserved_jobs EXCEPT ![c] = L!DeleteNode(@, j)]
        /\ \/ SetState(j, "queued") /\ UNCHANGED buried_jobs
           \/ BuryJob(j, buried_jobs)
  /\ UNCHANGED <<all_jobs, next_job_id>>

\* kick_buried_job: the first job is enqueued, or buried again.
KickBuried ==
  /\ buried_jobs.len # 0
  /\ LET j == buried_jobs.head
         left == L!DeleteNode(buried_jobs, j)
     IN \/ SetState(j, "queued") /\ buried_jobs' = left
        \/ BuryJob(j, left)
  /\ UNCHANGED <<all_jobs, next_job_id, reserved_jobs>>

\* job_free.
FreeJob(j) == all_jobs' = T!HashDelete(all_jobs, j) /\ SetState(j, "none")

\* OP_DELETE: of a job that c has reserved, one in a heap, and the first that is
\* buried.
Delete(c, j) ==
  /\ Found(j)
  /\ \/ RemoveReserved(c, j) /\ UNCHANGED buried_jobs
     \/ job_state[j] = "queued" /\ UNCHANGED <<reserved_jobs, buried_jobs>>
     \/ /\ job_state[j] = "buried" /\ buried_jobs.head = j
        /\ buried_jobs' = L!DeleteNode(buried_jobs, j)
        /\ UNCHANGED reserved_jobs
  /\ FreeJob(j)
  /\ UNCHANGED next_job_id

StoreNext ==
  \/ Put \/ PutFails \/ KickBuried
  \/ \E c \in StoreConns : CloseReserved(c)
  \/ \E c \in StoreConns, j \in Ids : Reserve(c, j) \/ GiveBack(c, j) \/ Delete(c, j)

StoreSpec == StoreInit /\ [][StoreNext]_storeVars

-----------------------------------------------------------------------------

\* The count of the table is that of the jobs, over inserts that fail, growth
\* and deletes: hash_insert decides by it when to grow.
CountExact == Whole => all_jobs.count = Cardinality({j \in Ids : job_state[j] # "none"})

\* Followed from the tail a list is the reverse of what it is from the head, and
\* as long as its len, whatever nodes were taken out of it.
ListsMirrored ==
  \A l \in {buried_jobs} \union {reserved_jobs[c] : c \in StoreConns} :
    L!Backward(l) = Reverse(L!Forward(l)) /\ Len(L!Forward(l)) = l.len

Plain ==
  INSTANCE JobSequences WITH
    Conns    <- StoreConns,
    found    <- {j \in Ids : Found(j)},
    lost     <- ~ Whole,
    reserved <- [c \in StoreConns |-> L!Forward(reserved_jobs[c])],
    buried   <- L!Forward(buried_jobs)

\* Table and lists are a set of ids and sequences: a job is found from its put
\* to its delete, however the table grew in between, exactly the job that is
\* released or deleted leaves its list, and buried jobs go first in first out.
\* Only a failed hash_resize loses jobs, all at once.  This is Plain!Spec; a step
\* that leaves the store alone need not be looked at.
ImplementsSequences ==
  Plain!Init /\ [][UNCHANGED storeVars \/ Plain!Next]_(Plain!seqVars)

=============================================================================
