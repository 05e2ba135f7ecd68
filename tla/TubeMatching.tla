---------------------------- MODULE TubeMatching ----------------------------
(* What a tube is for: jobs, numbered in their order, clients that wait in   *)
(* none, and the first job for one of the clients.                           *)
EXTENDS Integers

CONSTANTS Jobs, Conns

VARIABLES
  ready,     \* the jobs in the tube
  waiters    \* the connections that wait

matchVars == <<ready, waiters>>

Init == ready = {} /\ waiters = {}

NoMatch == ready = {} \/ waiters = {}

Add(j) ==
  /\ NoMatch /\ j \notin ready
  /\ ready' = ready \union {j}
  /\ UNCHANGED waiters

Leave(j) == j \in ready /\ ready' = ready \ {j}

Withdraw(j) == NoMatch /\ Leave(j) /\ UNCHANGED waiters

Join(c) ==
  /\ NoMatch /\ c \notin waiters
  /\ waiters' = waiters \union {c}
  /\ UNCHANGED ready

GiveUp(c) ==
  /\ NoMatch /\ c \in waiters
  /\ waiters' = waiters \ {c}
  /\ UNCHANGED ready

\* The job that is first goes to a client that waits.
Serve(j, c) ==
  /\ Leave(j) /\ \A i \in ready \ {j} : j < i
  /\ c \in waiters /\ waiters' = waiters \ {c}

Next ==
  \/ \E j \in Jobs : Add(j) \/ Withdraw(j)
  \/ \E c \in Conns : Join(c) \/ GiveUp(c)
  \/ \E j \in Jobs, c \in Conns : Serve(j, c)

Spec == Init /\ [][Next]_matchVars

=============================================================================
