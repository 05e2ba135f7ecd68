# A TLA+ verification of tasque

tasque is a job queue server in C: producers put jobs into named tubes, workers
reserve them, and a job that its worker neither deletes, releases nor buries in
time is given back. This directory models the server in TLA+, checks the models
with TLC on small instances and proves their safety, of the queue engine and what it is
built on, with the TLA+ proof system (TLAPS) for every size. `src/` below is the repository.

## The system

One process, one thread, one epoll loop (`src/event.c`). In every round the loop
runs `conn_cron` if its interval has passed, then the handler of every descriptor
that is ready, each to its end. So there are no races inside a handler; what is
hard lies in the order of handlers, in what a handler changes for *other*
connections, and in what it relies on after a call that changed the same lists.

| Component | State | Operations | Interacts with |
|---|---|---|---|
| queue engine, `conn.c`, `job.c` | per job: state, priority, tube, reserver; per tube: ready heap, delay heap, buried list, waiting set, pause; per connection: use, watch, reserved list | `do_cmd` (24 commands), `enqueue_job`, `process_queue`, `bury_job`, `kick_jobs`, ... | every list below; replies |
| waiting and timeouts, `conn.c` | `tickat`, `tickpos`, `pending_timeout`, `soonest_job`; deadlines | `wait_for_job`, `conn_timeout`, `conn_cron`, `conn_tickat` | heap `srv->conns`, queue engine |
| connection I/O, `conn.c` | `state`, command buffer, `in_job`, `out_job`, reply | `handle_client`, `fill_extra_data`, `reply`, `conn_reset`, `conn_free` | event loop, queue engine |
| heap, `heap.c` | array, length; writes positions into its items | insert, remove from anywhere | jobs (`heap_index`), connections (`tickpos`) |
| set, `set.c` | array, round-robin position | append, remove, take | waiting and watch sets, all tubes |
| tubes, `tube.c` | reference count, queues | find or create, `tube_iref`, `tube_dref` | `use`, `watch`, jobs |
| hash, list, `hash.c`, `dlist.c` | table of all jobs; buried and reserved lists | insert, find, delete, iterate | queue engine |
| event loop, `event.c` | descriptors, interval | `event_loop`, `event_regis` | everything |
| start, sockets, clock, statistics | options, counters | `srv_init`, `main`, `net.c`, `ustime` | - |

What makes each of them correct:

- *queue engine*: a job is in exactly one place, the one its state names; a
  reservation is ended by its holder, its deadline or the end of the connection
  and by nobody else; no ready job waits next to a waiting client; the most
  urgent eligible job is served first;
- *waiting and timeouts*: a wait ends with an answer, on time and not early; a
  reservation whose deadline has passed is given back; a client is woken before a job it
  holds times out; delays and pauses end;
- *connection I/O*: commands are run once each and in order however the bytes are cut;
  a body and a reply go over whole; what is being read or written is not freed meanwhile; a
  closed connection is left in no list;
- *heap, set, list, hash*: they are the priority queue, set, sequence and map that
  the engine takes them for, also when items leave from the middle;
- *tubes*: none is freed under a user, and none stays without one.

Behaviours that are hard to test: a handler that delivers jobs to other
connections, and to its own, in the middle of its work (`enqueue_job` calls
`process_queue` before it returns); connections that go at any time while they
hold jobs, wait, read a body or are sent one; a deadline that passes while its job
is being written; a heap that cannot grow in the middle of a move; positions and
pointers that are stored and used much later. PROJECT.json lists them as hazards
with the line where each bites and the properties that watch it.

## The modules

| Module | Models | Role |
|---|---|---|
| `Tasque` | `conn.c`, `job.c`, `tube.c` as seen by the engine | the detailed specification, its properties and the inductive invariant `IndInv` |
| `Ticks` | `srv->conns` as a set that loses members | used by `Tasque` and `Timeouts`, implemented by `ConnHeap` |
| `JobLifecycle` | nothing in the code | what a client may rely on: phases of a job, one holder, order of service |
| `TasqueRefinement` | - | the mapping under which `Tasque` implements `JobLifecycle` |
| `Timeouts` | the clock in `conn.c`: ticks, deadlines, `soonest_job` | what `Tasque` leaves to choice, with numbers |
| `ConnIO` | `handle_client` and its buffers, byte by byte | what `Tasque` takes for whole commands, bodies and replies |
| `Heap` | `heap.c` | operators on heap records |
| `WaitSet` | `set.c` | operators on set records |
| `TubeQueue` | `t->ready_jobs`, `t->waiting_conns` and `process_queue` for one tube | the two arrays composed, shown to implement `TubeMatching` |
| `TubeMatching` | nothing in the code | ordered jobs, waiting clients, the first job for one of them |
| `ConnHeap` | `srv->conns`, the array | the heap as used for ticks, shown to implement `Ticks` |
| `TubeRefs` | `tube.c` and all its callers | reference counts |
| `Hash` | `hash.c` | operators on tables |
| `DList` | `dlist.c` | operators on lists |
| `JobStore` | `all_jobs`, `reserved_jobs`, `buried_jobs` and the calls that change them | table and lists composed, shown to implement `JobSequences` |
| `JobSequences` | nothing in the code | a set of ids, sequences of reserved and buried jobs |
| `MCTasque`, `MCTimeouts`, `MCConnIO` | - | constants and symmetry for TLC |
| `MCStructures` | - | `TubeQueue`, `ConnHeap`, `TubeRefs` and `JobStore` side by side for one run of TLC |
| `TasqueStepProofs`, `TasqueProofs` | - | the proofs about `Tasque`, and that it implements `JobLifecycle` |
| `TimeoutsProofs`, `ConnIOProofs`, `TubeRefsProofs` | - | the proofs about `Timeouts`, `ConnIO` and `TubeRefs` |
| `TubeQueueProofs` | - | the proofs about `Heap`, `WaitSet` and `TubeQueue` |
| `JobStoreProofs` | - | the proofs about `Hash`, `DList` and `JobStore` |
| `RecursionFacts` | - | induction over the naturals, and what it shows of recursive functions |

A definition named `X_Fault` (or `X_Over`, `X_Count`, `X_Stuck`) is `X` with one
bug planted; no specification uses it. It is there to see that a property notices that bug.

### Tasque

Variables carry the names of the code's fields (`job_state[j]` is `j->rec.state`,
`waiting_conns[t]` is `t->waiting_conns`, and so on). A handler that does not call
`enqueue_job` is one action (`PutSkipped`, `Use`, `Delete`, `Bury`, `Watch`, ...). One
that does is split at those calls: `call` says which handler runs and what is left
of it, `processing` that it is inside `process_queue`. While `call` is not `NoCall`
only that handler steps, as in the code. So `Release` is one step up to its
`enqueue_job`, `Deliver` is a turn of the loop of `process_queue`, and
`ProcessQueueReturns` goes back to the handler; `KickGoesOn`, `CloseRequeue`,
`TimeoutExpire` are the turns of the loops of kick, `conn_free` and `conn_timeout`. `Cron` has
a delay that ends, a pause that ends and a tick that is due.

Where the code dereferences NULL, `health` becomes "crashed"; where it frees a job
that a queue or a connection still points to, or a connection that is still in `srv->conns`,
"undefined". The step that frees it is modelled with all it does: the fourth case of `Delete` pops
the head of the buried list, frees the other job and replies DELETED. `Dead` is the only step
from there: what follows is not the program's any more, so `JobInPlace`, `ReadByOne` and the
refinement are about what happens up to that point, and the runs named below show how it is reached.
A deleted job that another client holds, reads or has buried behind others is found in that
way and in no other: no invariant after that step could mean anything.

A job for which not even bury_job finds memory (`AllocMayFail`) is in `all_jobs` and in no
queue: `job_state` is "lost", where its record still has the state from before. All callers of bury_job but
OP_BURY ignore the failure. A lost job can be peeked at and never be had; a delete of it pops the head of the
buried list as any other, and so loses that one too.

Abstractions: a delay, a pause or a deadline may be found expired in any `conn_cron`,
so every order of expiry is a behaviour (more than real clocks allow; `Timeouts` has the clock). Job heaps are
sets with an order and waiting sets give any member (`TubeQueue` shows that heap.c and
set.c are that), tubes exist while referenced (`TubeRefs`), `srv->conns` is the set of `Ticks` (see below), `all_jobs` is the set of jobs and lists are sets and
sequences (`JobStore`). A body or a reply is complete or it is not (`ConnIO` has what lies between).
Numbers in commands are in range; a number that is refused is a command with only a
reply (`Answer`), and so are `touch` (its deadline is in `Timeouts`), unknown commands and errors of format. A put that is
refused, be it for its size, for memory or because the server drains, is `PutSkipped`
or `PutBodyRefused`. Of the failures of memory, those of job and connection heaps (heap_insert), of buried lists
(dlist_add_node_tail) and of a put are modelled. Left out: a `set_append` without memory, whose
result the code ignores, the dlist_add_node_head of reserve_job, which is asserted, and an `event_regis` that fails in a
reply; a job_copy without memory is `Answer` in a peek and left out in conn_timeout.

### Heap, WaitSet, TubeQueue, ConnHeap, Ticks

`Heap` translates heap.c function by function; a heap is a record of the length, the
array, whose slots behind the length keep what was in them, and the position that
h->record wrote into each item. `SiftDown` and `SiftUp` are the loops of the two sifts, one
turn (`Higher` or `Lower`, and `Turn`) after another: once a turn moves nothing, no later one does,
so that a loop of as many turns as there are positions is the loop of the code. `WaitSet` does the same for set.c: the used slots and the
position that set_take has come to. `TubeQueue` composes the two as `struct tube_st` does:
jobs enter and leave the heap from anywhere, connections the set, and process_queue
takes from both. Jobs are numbered in the order of job_pri_less, which is total; a job
that comes back with another priority comes back as another number, for the heap
sees no more of it. `ConnHeap` uses
the same operators the way wait_for_job, conn_timeout, conn_cron and conn_free use
`srv->conns`: there `tickat` changes while its connection is in the heap, and ticks may
be equal.

What this does to the heap is `Ticks`, the set by which `Tasque` and `Timeouts` know `srv->conns`. As long as it is
in order, a connection that moves its tick (`MoveTick`) and one that is due (`PopTick`) change nothing but
their own membership. But when a connection that is in the heap gets a tick that is not after that of another
one, heap_remove may leave it in the array and push that other one out; `displaced` says that this has
happened. From then on a connection may be in the array twice, a `tickpos` is not a position, and any
heap_remove may take out any others (`Scramble`). conn_free removes one entry by `tickpos`, so that the freed
connection may stay in the heap (`LeavesFreed`). It may also when nobody was pushed out before: the last element changes places
with a parent of an equal tick. conn_cron then reads freed memory, and `health` is
"undefined". `ConnHeap`, which stops there too, is shown to implement `Ticks` (`ImplementsTicks`), with what the engine
does not see: conn_cron gets the least tick as long as nobody was pushed out, and it is a connection of
no earlier tick that is. heap_insert of a tick may also fail (`AllocMayFail`), as nobody looks at its result.

So claims about ticks come with their condition: `WaitersTick`, `WaitersAnswered`, `AnsweredInTime` and
`MarginKept` speak of a server in which no client has been pushed out of `srv->conns` yet (`~ displaced`), and, all
but `WaitersAnswered`, whose run has no failures, of one whose heaps can grow. Without the condition they are false of the code. Two
clients are enough to leave it: one that waits, and one that has waited before and waits again (run `lost_tick`).

### TubeRefs

`TubeRefs` has every place that calls
`tube_iref` or `tube_dref`, with the count as a number. `Rereference` is the net effect of
a handler's references; the order inside (the new one first) is why no tube is
freed in between.

### Hash, DList, JobStore

`Hash` and `DList` translate hash.c and dlist.c as `Heap` does heap.c: a table is its chains, a
list is the pointers of its nodes. hash_resize moves entry after entry into the new table (`Moved`, by the
`HashPut` that hash_insert ends with), and dlist_next goes from node to node (`Follow`). `JobStore` uses them as conn.c and job.c do: a job
is put into `all_jobs` when it is created and leaves with job_free; in between it goes
to the front of a `reserved_jobs` list, leaves it from anywhere, is added behind
`buried_jobs` and kicked from its front. A put can grow the table, and the calloc of an entry
or of the larger table can fail. The hash of an id is the id (`hash_func_int`), and the value is
the job with that id, so keys say all. After a failed growth the table has no array;
the process ends at the next lookup, and until then connections are served
whose commands look nothing up.

### Timeouts

`Timeouts` has the clock that `Tasque` has not. `deadline_at`, `tickat` and `pending_timeout`
are times, `soonest_job` is the cache that conn_soonest_reserved_job reads and touch,
release, delete and reserve_job change. `TickAt` is conn_tickat, `SetTick` the heap_remove and
heap_insert that follow it, on the set of `Ticks`; a connection that is pushed out keeps its `tickat` and is never due. conn_cron is `CronStarts`, then `CronDelayed` for every turn of its
first loop, `CronTick` for every connection whose tick is due, and `CronEnds`. conn_timeout is
`CronTick` (the look at DEADLINE_SOON, which comes first), `TimeoutJob` and `TimeoutRearm` (the two
halves of a turn of its loop) and `TimeoutEnds` (its last lines). Commands run between
conn_crons, each at once.

`telling` is the job of a RESERVED that is not sent in full, `known` the jobs the client
has been told it holds, `until` when a wait is to end: what the client sees, which is what
the properties compare the server's fields with.

Abstractions: one tube, never paused; any ready job may be next; the clock stands
still while a handler runs. The last one matters in one place: conn_cron reads the clock
several times, and a pause that ends between two readings could hand a job to the client
that conn_timeout is about to answer DEADLINE_SOON (src/conn.c:964); for that job
`ReservationsTold` says nothing, having no pauses.

### ConnIO

`ConnIO` is one connection. The client sends a script of commands; a byte is known by its
command and its place in it. `ReadCommand`, `ReadBody`, `ThrowAway` and `WriteReply` are the
cases of the switch in handle_client, each with a piece of any size that read, write or
writev may take. `DoCmd` is do_cmd by the kind of the line: a line is answered by a word or by
a job, waits, brings a body that is stored or thrown away, or quits. A put that is answered BAD_FORMAT (`refused`) is
a line and no more: do_cmd takes nothing of its body, which is run line by line as commands, so the script has the lines of
that body as the commands that follow. What is left over of a line that did not fit the buffer may be run as any kind of
command but a put (`KindsAt`); one that spells a put with numbers would need a body whose size nobody announced. On quit,
handle_client calls fill_extra_data with the connection that do_cmd has freed: `DoQuit` leaves open what it finds. `FillExtraData`,
`SkipAndReply`, `TakeBody` and `ScanEol` are the functions of those names. `HangUp` may come at any
time and goes before everything else that is ready; `FailedCall` is the read or write
that the loop was about to make when the client closed.

## The runs

| Run | Instance | What it shows |
|---|---|---|
| `two_conns` | 2 connections, 1 tube, 2 jobs, heaps and lists may fail to grow | the invariants of a job and a connection, `OnlyHolderOrTimeoutEndsReservation`, `WaitEndsInAnswer`, and `ImplementsLifecycle` |
| `across_tubes` | 1 connection, 2 tubes, 2 jobs | waiting sets agree with watch lists and pauses; no match is left; `ServesMostUrgent` over all watched tubes |
| `liveness` | 2 connections, 1 job, fair | `WaitersTick`: waiters are in `srv->conns` until one is pushed out; handlers end, waiters are answered until then, delays end |
| `structures` | heap and set: 6 jobs, 3 connections; `srv->conns`: 3 connections, 3 ticks; tubes: 2 connections, 3 tubes, 2 jobs or copies per tube life; table and lists: 5 ids, 2 slots at first | heap order, exact positions; counts cover users and unused tubes go; the count of the table is right, lists are the same from both ends; refinement of `TubeMatching`, `Ticks` and `JobSequences` |
| `timeouts` | 2 connections, 2 jobs, ttr 2 or 3, delay 0 or 1, waits of 1 or for ever, clock up to 4 | the cache is exact; waits end on time as long as `srv->conns` is in order, and never early; delays and reservations in a tick that is due end on time; clients know what they hold |
| `conn_io` | all scripts of up to 3 commands of 14 kinds and lengths, a line buffer of 7 bytes | commands in order and once, bodies and replies exact, no hang up by the server, all input is read |

The others end in a counterexample on purpose; see the next section.

Why the bounds are enough.

- *Engine.* `Conns` = 2 has one client act on what the other holds or waits for. Two jobs are
  the least that can be confused (delete of one frees the other), ordered by priority (`across_tubes`) or by
  id, and delivered in one run of process_queue. Two tubes have one paused and one not, or one
  watched and one used. `KickBounds` has a bound larger than the number of jobs. `MaxJobs`
  bounds ids because an id is never used again; TLC exhausts all behaviours with that
  many puts.
- *Structures.* Six is the least number of jobs in a heap where the last one, moved into a
  hole, must go towards the root; three connections are the least where the item that
  fills a hole is stepped over. `MaxIrefs` = 2 lets a tube hold a job and its copy, or two
  jobs, and go and come again. With 2 slots and `ResizeRatio` 1 the table grows at the third
  and the fifth job: entries change slot twice, one chain having had two of them. Five jobs
  fill a list from which the first, the last and a middle node can go. The
  structures share no state, so they move one at a time (`moves`) and the run
  costs their sum. `MaxTick` = 3 in `ConnHeap` has ticks that are equal, earlier and later; three connections are one that
  moves, one that is pushed out and one that stays, or the same one twice.
- *Time.* `Margin` = 1 is the unit. A ttr of 2 has its margin begin when a timeout of 1 is over,
  a ttr of 3 later, and a wait for ever has only that margin to end it. Two ttrs make the order of deadlines differ from the order of
  reservations, which the cache must notice. `Lag` = 2 lets a margin or a reservation pass
  while its holder waits and a tick and a deadline be due in one conn_cron, where RESERVED
  can be overwritten. Two jobs are one that is cached and one that comes before it. A clock of 4
  is enough for a reservation, a touch or release of it, a wait and the end of both; the proofs
  do not have this bound.
- *Bytes.* Seven bytes hold a command of three with one more and half a third behind it. Lines are short, just
  fill the buffer, are one byte too long (the \r goes and the \n stays) or more; bodies fit behind their
  line or are longer than the buffer and than three reads of the bit bucket (`BucketBufSize` = 3). Three
  commands have one before and one behind the one that is cut. Two bytes are a line and a body that
  can be left half written.

Assumptions about the loop. `Lag` in `Timeouts` is the longest that event_loop takes from
one conn_cron to the next: its interval is 10 ms against a margin of a second, but a round
with long handlers may delay it, so it is more than one unit here. The properties
promise no more than that lag.

Fairness (`Fairness` in `Tasque`): weak for the handler that runs, since it runs to its
end; strong for a delay that is due, and for a tick as long as `srv->conns` is in order, since event_loop runs conn_cron in the
first round after its interval, whatever commands come in between. Nothing is assumed
of clients: they need not send, read or hang up. `FairSpec` of `ConnIO` is weakly fair to the handler
of its connection as a whole: epoll is level-triggered, so a socket that is ready is
reported in every round until it is handled. It assumes nothing of the end of a wait.

Deadlock is checked in every run but four: `conn_io` and `pipelined`, where a connection that was freed does
nothing more, `structures`, where the process has ended after a growth of the table that failed, and `lost_tick`, where a
connection may be freed that is still in the heap.

## Where the code disagrees with its documents

| Run | Property | What happens |
|---|---|---|
| `delete_delayed` | `DelayedCanBeDeleted` | delete of a delayed job answers NOT_FOUND: remove_delayed_job is a copy of remove_ready_job |
| `delete_others` | `OthersJobNotDeleted` | delete of a job another client holds pops the buried list, whose head is then in no list, and frees the held job |
| `peek_buried` | `PeekBuriedShowsBuried` | peek-buried shows a reserved job or dereferences NULL |
| `ttr` | `ReservationsTimeOut` | the deadline of a job is not enforced for a client that reserved without a timeout |
| `lost_tick` | `TickposIsPosition` | heap_remove of the last element can push another connection out of `srv->conns` |
| `pipelined` | `EveryCommandAnswered` | a command that arrives together with the one before it is not run until more bytes arrive |

Without a run of its own: a delete of a buried job that is not the head of its list pops the head and frees the job
where it stands on the list (`Delete`, src/conn.c:1462), where doc/protocol.txt:247-249 lets a client delete "jobs that are
buried". A job that bury_job cannot bury is in no queue (src/conn.c:1143). conn_free may leave the freed connection in
`srv->conns` (`LeavesFreed`, src/conn.c:824). quit frees the connection that fill_extra_data then reads (src/conn.c:1715). The
body of a put answered BAD_FORMAT is run as commands (src/conn.c:1310). kick_buried_job reports success for an empty list
(`KickBuriedNone`), so that KICKED counts turns that kicked nothing, where
doc/protocol.txt:396 has "the number of jobs actually kicked". A tube that ever held a job is
never deleted, since job_free gives no reference back (`JobFree` of `TubeRefs`), where doc/protocol.txt:116-118 has an empty tube that
no client refers to deleted. A growth
of the job table without memory loses all jobs (`Lose` of `JobSequences`, src/hash.c:238). errno is
tested after strtoul and not reset before it (src/conn.c:1320), so that one failed call or one
number out of range makes later well-formed lines of any client BAD_FORMAT, where
doc/protocol.txt:44 has "a command line that was not well-formed"; no module has errno yet.
conn_timeout may hand a waiting client its own expired job and answer DEADLINE_SOON over
the RESERVED (src/conn.c:964): `ReservationsTold` shows that the client believes to hold that
job anyway, and `SoonestExact` that its deadline is enforced.

## What is proved

For all values of the constants under the assumptions named in `Tasque`
(`ConnsAssumption`: NULL is no connection, and connections, which have a file descriptor each, are finitely many; `TubesAssumption`: there is a default tube;
`BoundsAssumption`, `AllocAssumption`: types of the bounds), whatever the number of
connections, tubes, jobs and priorities:

- `Invariance`: Spec => []IndInv, and from it `TypeCorrect`, `JobsInPlace`,
  `JobsBuriedOnce`, `BodiesReadByOne`, `MatchesMade`, `WaitersInPlace`, `SentJobsHeld`,
  `ClosedClean`, one for each safety invariant. `JobsInPlace` and `BodiesReadByOne` hold up to undefined behaviour, and
  `ClosedClean` says that only a server that is undefined has a closed connection in `srv->conns`;
- `ReservationsRespected` and `UrgentFirst`: the two action properties about who ends a
  reservation and which job is served.
- `WaitsAnswered`: a wait ends with a job, with a reply or with the connection;
- `LifecycleImplemented`: Spec => ImplementsLifecycle, every step of
  the engine being a step of `JobLifecycle` or a stutter under the mapping of `TasqueRefinement`;
- what the liveness properties rest on. `WaitersHaveTicks`: a waiting client that is to be woken by its
  timeout or by a job it holds is in `srv->conns`, or conn_timeout is at it, until a connection was pushed out of `srv->conns` or
  an insertion into it fails. `HandlersGoOn`: a handler that
  has not ended has a step it can take, for of the eligible jobs there is always a first one, and its tube has a
  client. `HandlersShrink`: each such step ends the handler or lowers a pair of natural numbers, the turns its
  own loop has left and then those of process_queue.

The argument. None of the safety invariants is inductive alone: that a delivered
job is in no other place needs that ready heaps agree with job states (`JobInPlace`);
that a closing connection leaves nothing needs that it is not waiting any more
when its jobs are enqueued again, or process_queue would hand it one (`CallInv`);
that a body has one reader needs that `wantdata` goes with an `in_job` except
while its handler runs (`StateInv`), that a new id is in no list (`FreshInv`), and that
what the last step handed out is what the lists say (`RecordInv`). That no waiter loses its tick
(`WaitersTick`) needs that conn_timeout, which drops the tick first and sets no new one at its end, ends without
an answer only where there is nothing to wake for (`HandlerInv`).
`IndInv` is their conjunction. It was model-checked on the instances of the runs before it was proved, and is no property of a run, for each of its parts that
says something of the code is one. The proof
that a step keeps it is split by what is kept: `TasqueStepProofs` has the jobs in place (lemmas that
say what taking a job out of a place and putting it in another does, then one step per
action), and then types for every action, connections, waiting sets and call, and the ticks; `TasqueProofs` has
the matching of jobs and waiters, the theorems, the refinement and the end of the handlers. `Detached` and `Becomes` in
`TasqueStepProofs` are the states in the middle of a move, in which a job is in no place.

`TimeoutsProofs` proves, for any number of connections and jobs and any times (`NullsAssumption`;
`TimesAssumption`: a ttr is at least the margin, as do_cmd makes it), `IndInv` of `Timeouts` and from
it all seven properties of the run `timeouts`, for heaps that may fail to grow too (`AllocMayFail`). The argument: the cache is exact
(`SoonestExact`) because a job that leaves a list or gets a new deadline takes its cache with
it; so conn_tickat, which only looks at the cached job, sets the first of the times
that end a wait, and that stays so while the client waits, for nobody else changes its jobs
(`TickExact`), and the connection is in `srv->conns` as long as that is in order (`TickListed`); so conn_cron, which only looks there, leaves nothing behind
that was over (`NothingLeft`), and less than `Lag` passes until it runs again. `AnsweredTheorem` and `MarginTheorem` are
under the condition `InOrder` (nobody was pushed out, heaps can grow); that delays end in time, the cache is exact, expired
reservations are given back once their connection is looked at, and TIMED_OUT is never early, holds without it. In conn_timeout a client
whose tick is due is in a margin or at the end of its wait (`DueIsOver`), and one
that is told DEADLINE_SOON had been told of all its jobs when its turn began (`SoonTold`), so the
job it may be handed meanwhile is one of those.

`ConnIOProofs` proves the safety properties of the run `conn_io` for any script and any size of the
buffers (`ScriptsAssumption`: every command of a script has a line and ends it with \r\n;
`SizesAssumption`). A byte is its command and its place in it, so the whole script is one sequence of bytes
(`Before` counts those before a command). The argument: the bytes that were read and are not handled yet
are a run of that sequence without a gap, whose first byte is where the state of the connection says it
is: at the start of a line, behind a line that is being taken, in a body, or in what is left of a line
that did not fit. From this follow that scan_eol finds the \r\n of the line and no other, that
fill_extra_data takes the bytes of the body and leaves the others in their order, and that reads have room.

`TubeRefsProofs` proves that the count of a tube is exactly its users, jobs and copies, plus the reference
of the default tube (`CountsExact`); that no used tube is freed and that unused ones go follow from it.

`TubeQueueProofs` proves of the ready heap and the waiting set of a tube (`QueueAssumption`: the number of
jobs is a natural number) that the heap is ordered, that `heap_index` is exact, and that the two arrays
implement `TubeMatching`. The argument: every turn of a sift moves one element and
keeps the jobs and their positions together (`Placed`), and the heap in order but for that element,
with everything below it behind everything above it (`Gap`; `Rising` when it can only go up and
`Sinking` when it can only go down). heap_siftdown leaves `Sinking` when it began with `Gap`, which is
why heap_remove must call both sifts, in this order; heap_siftup leaves the heap sorted. A turn that
moves comes nearer to an end of the array, so the turns come to a stop (`Settled`).
The job of the least rank is then at 0, and what leaves at `heap_index` is the job that was asked for.
`OneEach` is the same for the waiting set: set_delete takes one member whatever fills its place.

`JobStoreProofs` proves, for any number of connections and jobs, any ratio and any number of initial slots
but 0 (`StoreAssumption`), that the count of the table is the number of jobs (`CountIsExact`), that a list is
the same from both ends (`ListsAreMirrored`) and that `JobStore` implements `JobSequences`
(`SequencesImplemented`; `ImplementsPlain` says so of its specification). The invariant, `StoreInv`, has two halves.
`ListsInv`: there is a sequence without repetition that the pointers of a list are the pointers of
(`Linked`), and its jobs are those in that state, so that no job is in two lists, which is what
dlist_add_node_head and dlist_delete_node rely on. `TableInv`: every chain has the keys of its slot and no other, none twice, and the
keys are the jobs (`Holds`). The argument for the lists: `AddHead`, `AddTail` and `DeleteNode` change the pointers into
those of the sequence with one more at an end or without one (`AddHeadLinked`, `AddTailLinked`,
`DeleteLinked`), and dlist_next, followed long enough, returns that sequence (`ForwardIs`,
`BackwardIs`); so what dlist_search_key finds is what is in it. For the table: a turn of hash_resize moves one entry
and leaves a table that holds what was moved so far and nothing else (`MovedHolds`), whatever the new number of slots
(`NextPowerIs` says only that there are some), so that after all of them the larger
table holds what the old one did (`GrownHolds`).

Induction over data. The library's induction theorems cannot be used, but that the naturals are
well-founded can be: `AllNaturals` (`RecursionFacts`), which states induction for a set, follows from it, and
with it that `Before`, the turns of the sifts, the doublings of next_power, the turns of hash_resize and
those of dlist_next are the functions that their definitions describe, and that FlattenSeq is.

Only model-checked: liveness (`HandlersEnd`, `WaitersAnswered`, `DelayEnds`, `InputRead`), which with
ENABLED is outside of what the prover does: from `HandlersGoOn` and `HandlersShrink` to `HandlersEnd`, and from
`WaitersHaveTicks` to `WaitersAnswered`, only the step from fairness to "eventually" is TLC's; and `ConnHeap`, with `ImplementsTicks`. Every other
property of the passing runs is a theorem.

## Plan

Done: the engine and its proofs, its abstract specification; heap, set, tubes, table and
lists; time; the bytes of a connection; the proofs of their safety. Next, in this order:

1. `Counters`: the statistics that can go wrong over the life of a connection.
2. `CommandNumbers`: errno that is never reset, widths of the numbers of a put.
3. The memory failures that `Tasque` leaves out: set_append, dlist_add_node_head, job_copy in conn_timeout.
4. The proof of `ImplementsTicks`, which needs the heap of `TubeQueueProofs` with keys that change.

## Not modelled, and why

The statistics counters, which no decision reads (planned); the words and numbers of a
command line (planned, as far as errno and widths go); option parsing, signals and setuid in `main.c`
and `srv.c` (start-up, no state afterwards); `net.c` (system calls); iterators, copies and destructors of
`hash.c` and `dlist.c`, which nothing calls while the server serves; the text of
replies, names of tubes and the layout of numbers.
