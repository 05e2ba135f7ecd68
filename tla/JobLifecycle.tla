---------------------------- MODULE JobLifecycle ----------------------------
(***************************************************************************)
(* What the job queue promises its clients, without the server: a job is   *)
(* put once, is then in one phase at a time, is held by at most one client *)
(* that is there, is handed out in the order of the ready queue of its     *)
(* tube, and is never seen again once it is gone.  Connections, commands,  *)
(* waiting sets, heaps and lists do not show.  Tasque implements it, see   *)
(* TasqueRefinement, as long as its behaviour is defined.                  *)
(***************************************************************************)
EXTENDS Integers

CONSTANTS
  Jobs,       \* job ids, numbers in the order of the puts
  Clients,
  NoClient,   \* nobody
  Tubes,
  NoTube,     \* the tube of a job that is not there
  Pris,       \* priorities
  MemoryMayRunOut  \* TRUE: a job that cannot be queued is buried or lost

VARIABLES
  sound,      \* FALSE when nothing is promised any more
  phase,      \* per job: "unborn", "ready", "delayed", "reserved", "buried", "gone",
              \* or "lost": it is there, but nobody will ever get it
  home,       \* per job, its tube
  urgency,    \* per job, its priority
  holder,     \* per job, the client that has reserved it
  present     \* the clients that are connected

lcVars == <<sound, phase, home, urgency, holder, present>>

Init ==
  /\ sound = TRUE
  /\ phase = [j \in Jobs |-> "unborn"]
  /\ home = [j \in Jobs |-> NoTube]
  /\ urgency = [j \in Jobs |-> 0]
  /\ holder = [j \in Jobs |-> NoClient]
  /\ present = {}

\* The order of a ready queue: by priority, then by age.
Before(i, j) == urgency[i] < urgency[j] \/ (urgency[i] = urgency[j] /\ i < j)

Arrive(c) ==
  /\ c \notin present
  /\ present' = present \union {c}
  /\ UNCHANGED <<phase, home, urgency, holder>>

\* A client that goes leaves nothing reserved behind.
Depart(c) ==
  /\ c \in present
  /\ \A j \in Jobs : holder[j] # c
  /\ present' = present \ {c}
  /\ UNCHANGED <<phase, home, urgency, holder>>

Put(j, t, p) ==
  /\ phase[j] = "unborn"
  /\ \E ph \in {"ready", "delayed"} : phase' = [phase EXCEPT ![j] = ph]
  /\ home' = [home EXCEPT ![j] = t]
  /\ urgency' = [urgency EXCEPT ![j] = p]
  /\ UNCHANGED <<holder, present>>

\* Only the first ready job of a tube is handed out.
Reserve(j, c) ==
  /\ phase[j] = "ready" /\ c \in present
  /\ \A k \in Jobs \ {j} : phase[k] = "ready" /\ home[k] = home[j] => Before(j, k)
  /\ phase' = [phase EXCEPT ![j] = "reserved"]
  /\ holder' = [holder EXCEPT ![j] = c]
  /\ UNCHANGED <<home, urgency, present>>

\* What becomes of a job for which there is no memory at all.
Losses == IF MemoryMayRunOut THEN {"lost"} ELSE {}

\* The holder gives it up, for now (release) or until it is kicked (bury), or
\* loses it (its time is over, or it leaves).
GiveBack(j, p) ==
  /\ phase[j] = "reserved"
  /\ \E ph \in {"ready", "delayed", "buried"} \union Losses : phase' = [phase EXCEPT ![j] = ph]
  /\ urgency' = [urgency EXCEPT ![j] = p]
  /\ holder' = [holder EXCEPT ![j] = NoClient]
  /\ UNCHANGED <<home, present>>

\* A kick, or for a delayed job the end of its delay.
Wake(j) ==
  /\ phase[j] \in {"buried", "delayed"}
  /\ phase' = [phase EXCEPT ![j] = "ready"]
  /\ UNCHANGED <<home, urgency, holder, present>>

\* No memory to make a job ready.
WakeFails(j) ==
  /\ MemoryMayRunOut /\ phase[j] \in {"buried", "delayed"}
  /\ \E ph \in {"buried", "lost"} : phase' = [phase EXCEPT ![j] = ph]
  /\ UNCHANGED <<home, urgency, holder, present>>

\* Deleted, or never accepted.  With a lost job, the job k that was buried first in
\* its tube may be lost in its turn.
Vanish(j) ==
  /\ \/ /\ phase[j] \in {"unborn", "ready", "reserved", "buried"}
        /\ phase' = [phase EXCEPT ![j] = "gone"]
     \/ /\ phase[j] = "lost"
        /\ \E k \in Jobs :
             /\ phase[k] = "buried" /\ home[k] = home[j]
             /\ phase' = [phase EXCEPT ![j] = "gone", ![k] = "lost"]
  /\ home' = [home EXCEPT ![j] = NoTube]
  /\ urgency' = [urgency EXCEPT ![j] = 0]
  /\ holder' = [holder EXCEPT ![j] = NoClient]
  /\ UNCHANGED present

Promised ==
  \/ \E c \in Clients : Arrive(c) \/ Depart(c)
  \/ \E j \in Jobs, t \in Tubes, p \in Pris : Put(j, t, p)
  \/ \E j \in Jobs, c \in Clients : Reserve(j, c)
  \/ \E j \in Jobs, p \in Pris : GiveBack(j, p)
  \/ \E j \in Jobs : Wake(j) \/ WakeFails(j) \/ Vanish(j)

Next ==
  \/ sound /\ Promised /\ UNCHANGED sound
  \/ sound' = FALSE

Spec == Init /\ [][Next]_lcVars

=============================================================================
