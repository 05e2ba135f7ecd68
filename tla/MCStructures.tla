---------------------------- MODULE MCStructures ----------------------------
(* The structures of the server side by side, for TLC: the ready heap and the  *)
(* waiting set (TubeQueue), the heap of the connections (ConnHeap), the tubes   *)
(* (TubeRefs), and the table and the lists of jobs (JobStore).  They share no   *)
(* state, so one of them moves in a behaviour and the others stay as they are   *)
(* at the start.                                                                *)
EXTENDS TubeQueue, TubeRefs, JobStore, TLC

CONSTANTS
  NoConn, MaxTick                       \* of ConnHeap

VARIABLES
  conns, tickat, displaced, undefined,  \* of ConnHeap
  moves                                 \* which one moves

Timers == INSTANCE ConnHeap

timerVars == <<conns, tickat, displaced, undefined>>
allVars == <<queueVars, refVars, storeVars, timerVars, moves>>

AllInit ==
  /\ Init /\ RefInit /\ StoreInit /\ Timers!Init
  /\ moves \in {"queue", "tubes", "jobs", "conns"}

AllNext ==
  /\ \/ moves = "queue" /\ Next /\ UNCHANGED <<refVars, storeVars, timerVars>>
     \/ moves = "tubes" /\ RefNext /\ UNCHANGED <<queueVars, storeVars, timerVars>>
     \/ moves = "jobs" /\ StoreNext /\ UNCHANGED <<queueVars, refVars, timerVars>>
     \/ moves = "conns" /\ Timers!Next /\ UNCHANGED <<queueVars, refVars, storeVars>>
  /\ UNCHANGED moves

AllSpec == AllInit /\ [][AllNext]_allVars

\* srv->conns, the array, is the set of Ticks: see ImplementsTicks in ConnHeap.
ImplementsTicks == Timers!ImplementsTicks

\* Connections differ in nothing but their name, and so do tubes, save one.
Symmetry ==
  Permutations(Conns) \union Permutations(Clients) \union Permutations(Tubes \ {DefaultTube})

=============================================================================
