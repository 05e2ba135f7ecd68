------------------------------ MODULE ConnHeap ------------------------------
(***************************************************************************)
(* srv->conns: the heap of the connections that have a tick, heap.c with   *)
(* conn_less and conn_record.  Unlike the key of a job, c->tickat changes  *)
(* while c is in the heap (wait_for_job and conn_timeout set it before     *)
(* they remove c), and two connections may have the same tickat.           *)
(*                                                                         *)
(* Nothing is said of the heap once conn_free has freed a connection that  *)
(* is still in it.                                                         *)
(***************************************************************************)
EXTENDS Integers, FiniteSets

CONSTANTS
  Conns,      \* connections
  NoConn,     \* a null conn_t pointer
  MaxTick     \* bound: times are 1 .. MaxTick

VARIABLES
  conns,      \* the heap, with tickpos of every connection in its pos
  tickat,     \* c->tickat, 0 for no tick
  displaced,  \* history: a heap_remove has pushed out another connection
  undefined   \* a connection that was freed is in the heap

heapVars == <<conns, tickat, displaced, undefined>>

H == INSTANCE Heap WITH Items <- Conns, NoItem <- NoConn

\* What heap_remove goes by, and whether c is in the heap.
InHeap(c) == conns.pos[c] > -1
Listed(h, c) == \E i \in 0 .. h.len - 1 : h.data[i] = c

Init ==
  /\ conns = H!EmptyHeap
  /\ tickat = [c \in Conns |-> 0]
  /\ displaced = FALSE
  /\ undefined = FALSE

\* heap_remove(&srv->conns, c->tickpos) if c is in the heap, with the keys as they
\* are by then; then c->tickpos = -1.
Without(c, key) ==
  IF InHeap(c)
  THEN [H!HeapRemove(conns, key, conns.pos[c]) EXCEPT !.pos[c] = H!OutOfHeap]
  ELSE conns

\* The heap becomes h in a step that is about c.
Becomes(h, c) ==
  /\ conns' = h
  /\ displaced' = (displaced \/ \E d \in Conns \ {c} : Listed(conns, d) /\ ~ Listed(h, d))

\* Bound: of the entries that connections have twice, one has room in the array.
Room(h) == h.len <= Cardinality(Conns)

\* The old tick is left in the heap.
SetTick_Fault(c, t) ==
  /\ tickat' = [tickat EXCEPT ![c] = t]
  /\ Room(conns) /\ Becomes(IF t = 0 THEN conns ELSE H!HeapInsert(conns, tickat', c), c)
  /\ UNCHANGED undefined

\* wait_for_job, and a turn of the loop of conn_timeout: c->tickat is set first,
\* c is taken out of the heap, and it is put in again if the tick is not 0.
SetTick(c, t) ==
  /\ tickat' = [tickat EXCEPT ![c] = t]
  /\ LET h == Without(c, tickat')
     IN Room(h) /\ Becomes(IF t = 0 THEN h ELSE H!HeapInsert(h, tickat', c), c)
  /\ UNCHANGED undefined

\* conn_cron: the first tick is due; conn_timeout follows as SetTick or not at all.
TickDue ==
  /\ conns.len > 0
  /\ LET c == conns.data[0]
     IN Becomes([H!HeapRemove(conns, tickat, 0) EXCEPT !.pos[c] = H!OutOfHeap], c)
  /\ UNCHANGED <<tickat, undefined>>

\* conn_free; the connection that takes the place of c has no tick.
Free(c) ==
  /\ InHeap(c)
  /\ LET h == Without(c, tickat)
     IN IF Listed(h, c)
        THEN undefined' = TRUE /\ UNCHANGED <<conns, tickat, displaced>>
        ELSE /\ Becomes(h, c)
             /\ tickat' = [tickat EXCEPT ![c] = 0]
             /\ UNCHANGED undefined

Next ==
  /\ ~ undefined
  /\ \/ \E c \in Conns, t \in 0 .. MaxTick : SetTick(c, t)
     \/ TickDue
     \/ \E c \in Conns : Free(c)

Spec == Init /\ [][Next]_heapVars

-----------------------------------------------------------------------------

\* conn.h:31: tickpos is the "position in srv->conns".
TickposIsPosition ==
  \A c \in Conns : InHeap(c) => conns.pos[c] < conns.len /\ conns.data[conns.pos[c]] = c

Set ==
  INSTANCE Ticks WITH
    ticking <- [c \in Conns |-> Listed(conns, c)], AllocMayFail <- FALSE

\* The heap is the set of Ticks: as long as no connection has been pushed out, the
\* steps of each change its own membership only and conn_cron gets the least tick.
\* One is pushed out only by a connection that is in the heap already and gets a
\* tick that is not after its own, and a freed one is left behind only beside
\* another.
ImplementsTicks ==
  /\ Set!TicksInit
  /\ [][\E c \in Conns :
          \/ Set!MoveTick(c, tickat'[c] # 0, {d \in Conns : tickat[d] >= tickat'[c]})
          \/ /\ Set!PopTick(c)
             /\ displaced \/ \A d \in Conns : Listed(conns, d) => tickat[c] <= tickat[d]
          \/ Set!FreeTick(c)
          \/ Set!LeavesFreed(c) /\ undefined' /\ UNCHANGED <<conns, displaced>>]_heapVars

=============================================================================
