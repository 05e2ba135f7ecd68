------------------------------- MODULE Ticks -------------------------------
(***************************************************************************)
(* srv->conns, the connections that conn_cron is to wake, as a set.  It    *)
(* loses members: wait_for_job and conn_timeout give c->tickat its new     *)
(* value and only then remove c from the heap, and heap_remove of the last *)
(* element may then leave c in it and push out another connection, whose   *)
(* tickpos is no longer its position.  From then on positions are no guide *)
(* to what a heap_remove takes out.  ConnHeap is heap.c itself and         *)
(* implements this module.                                                 *)
(***************************************************************************)
CONSTANTS
  Conns,          \* connection slots: a conn_t from accept to free
  AllocMayFail    \* TRUE: a list or a heap may fail to grow

VARIABLES
  ticking,        \* c is in srv->conns
  displaced       \* some tickpos is not a position in srv->conns

connsVars == <<ticking, displaced>>

\* What an allocation may return.
Allocations == IF AllocMayFail THEN BOOLEAN ELSE {TRUE}

TicksInit == ticking = [c \in Conns |-> FALSE] /\ displaced = FALSE

\* heap_remove by a tickpos that may be wrong: others may go.
Scramble(c) ==
  /\ ticking' \in [Conns -> BOOLEAN]
  /\ \A d \in Conns \ {c} : ticking'[d] => ticking[d]

\* wait_for_job and conn_timeout: heap_remove of the old tick of c, if it has one,
\* and heap_insert, whose result nobody looks at, of the new one, if it needs one.
\* later are the connections whose tick is not before the new one: one of them may
\* be pushed out, and c is left in its place.
MoveTick(c, needs, later) ==
  \/ /\ ~ displaced
     /\ \E stored \in Allocations : ticking' = [ticking EXCEPT ![c] = needs /\ stored]
     /\ UNCHANGED displaced
  \/ /\ ~ displaced /\ ticking[c]
     /\ \E d \in later \ {c} : ticking[d] /\ ticking' = [ticking EXCEPT ![d] = FALSE]
     /\ displaced' = TRUE
  \/ /\ displaced
     /\ Scramble(c)
     /\ ticking'[c] => needs \/ ticking[c]
     /\ needs => ticking'[c] \/ AllocMayFail
     /\ UNCHANGED displaced

\* conn_cron takes c off the top of the heap, where it may have been twice.
PopTick(c) ==
  /\ ticking[c]
  /\ \/ ticking' = [ticking EXCEPT ![c] = FALSE]
     \/ displaced /\ UNCHANGED ticking
  /\ UNCHANGED displaced

\* The tick is not taken out.
FreeTick_Fault(c) == UNCHANGED connsVars

\* conn_free takes c out of the heap for good.
FreeTick(c) ==
  /\ \/ ~ displaced /\ ticking' = [ticking EXCEPT ![c] = FALSE]
     \/ displaced /\ Scramble(c) /\ ~ ticking'[c]
  /\ UNCHANGED displaced

\* conn_free may leave the connection it frees in the heap: in the place of one
\* with the same tick, or because its tickpos is wrong.
LeavesFreed(c) == ticking[c] /\ (displaced \/ \E d \in Conns \ {c} : ticking[d])

=============================================================================
