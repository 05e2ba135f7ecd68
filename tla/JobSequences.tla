---------------------------- MODULE JobSequences ----------------------------
(* What the jobs of a tube are kept in, without pointers: the ids that can be *)
(* looked up, the reservations of each connection, the last one first, and    *)
(* the buried jobs in the order in which they were buried.                    *)
EXTENDS Integers, Sequences, SequencesExt

CONSTANTS Conns, Ids

VARIABLES
  found,       \* the jobs that job_find finds
  lost,        \* no job can be looked up any more
  reserved,    \* of each connection, the jobs it has reserved
  buried       \* the buried jobs

seqVars == <<found, lost, reserved, buried>>

Init == found = {} /\ lost = FALSE /\ reserved = [c \in Conns |-> <<>>] /\ buried = <<>>

Listed == ToSet(buried) \union UNION {ToSet(reserved[c]) : c \in Conns}

Add(j) ==
  /\ ~ lost /\ j \notin found
  /\ found' = found \union {j}
  /\ UNCHANGED <<lost, reserved, buried>>

Delete(j) ==
  /\ ~ lost /\ j \in found
  /\ found' = found \ {j}
  /\ \/ j \notin Listed /\ UNCHANGED <<reserved, buried>>
     \/ \E c \in Conns : /\ Contains(reserved[c], j)
                         /\ reserved' = [reserved EXCEPT ![c] = RemoveFirst(@, j)]
                         /\ UNCHANGED buried
     \/ /\ buried # <<>> /\ Head(buried) = j
        /\ buried' = Tail(buried)
        /\ UNCHANGED reserved
  /\ UNCHANGED lost

\* The table forgets all jobs at once.
Lose == ~ lost /\ lost' = TRUE /\ found' = {} /\ UNCHANGED <<reserved, buried>>

Reserve(c, j) ==
  /\ j \notin Listed /\ (lost \/ j \in found)
  /\ reserved' = [reserved EXCEPT ![c] = <<j>> \o @]
  /\ UNCHANGED <<found, lost, buried>>

GiveBack(c, j) ==
  /\ Contains(reserved[c], j)
  /\ reserved' = [reserved EXCEPT ![c] = RemoveFirst(@, j)]
  /\ buried' \in {buried, Append(buried, j)}
  /\ UNCHANGED <<found, lost>>

Kick ==
  /\ buried # <<>>
  /\ buried' \in {Tail(buried), Append(Tail(buried), Head(buried))}
  /\ UNCHANGED <<found, lost, reserved>>

Next ==
  \/ \E j \in Ids : Add(j) \/ Delete(j)
  \/ Lose
  \/ \E c \in Conns, j \in Ids : Reserve(c, j) \/ GiveBack(c, j)
  \/ Kick

Spec == Init /\ [][Next]_seqVars

=============================================================================
