-------------------------- MODULE TasqueRefinement --------------------------
(* The queue engine implements the life cycle of jobs.                     *)
EXTENDS Tasque

\* A job shows from the moment it is enqueued: while its body is read it is
\* unborn, and an id that was handed out and is not in all_jobs is gone.
Phase(j) ==
  IF job_state[j] = "invalid" \/ j >= next_job_id THEN "unborn"
  ELSE IF job_state[j] = "none" THEN "gone" ELSE job_state[j]

There(j) == Phase(j) \notin {"unborn", "gone"}

Lifecycle ==
  INSTANCE JobLifecycle WITH
    Clients <- Conns, NoClient <- NoConn, NoTube <- NoConn,
    MemoryMayRunOut <- AllocMayFail,
    sound   <- health = "ok",
    phase   <- [j \in Jobs |-> Phase(j)],
    home    <- [j \in Jobs |-> IF There(j) THEN tube[j] ELSE NoConn],
    urgency <- [j \in Jobs |-> IF There(j) THEN pri[j] ELSE 0],
    holder  <- reserver,
    present <- {c \in Conns : state[c] # "closed"}

\* Every step of the server is a step of the life cycle or shows nothing, until
\* the server crashes or is undefined: a job never skips a phase, is reserved
\* only as the first of its tube and only for a client that is connected, is lost
\* for want of memory only, and a client that is gone holds nothing.
ImplementsLifecycle == Lifecycle!Spec

=============================================================================
