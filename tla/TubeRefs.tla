------------------------------ MODULE TubeRefs ------------------------------
(***************************************************************************)
(* The life of a tube: src/tube.c, and every place that counts a reference *)
(* to one.  A tube is created when it is named, and tube_dref frees it     *)
(* with its last reference.  References are c->use, the items of c->watch  *)
(* (on_watch, on_ignore), default_tube, and those that job_create and      *)
(* job_copy count and job_free does not give back.                         *)
(***************************************************************************)
EXTENDS Integers, FiniteSets

CONSTANTS
  Clients,      \* connection slots
  Tubes,        \* tube names
  DefaultTube,  \* the tube named "default"
  NoTube,       \* a null tube_t pointer
  MaxIrefs      \* bound: jobs and copies made in the life of one tube

ASSUME ClientsAssumption == IsFiniteSet(Clients)
ASSUME NamesAssumption == DefaultTube \in Tubes /\ NoTube \notin Tubes

VARIABLES
  refs,         \* t->refs, 0 for a tube that is not in tasque_srv.tubes
  use,          \* c->use, NoTube when the slot holds no connection
  watch,        \* c->watch
  jobs,         \* the number of jobs whose tube is t
  copies,       \* the number of job copies whose tube is t
  made          \* how many of both were made since t was created

refVars == <<refs, use, watch, jobs, copies, made>>

One(b) == IF b THEN 1 ELSE 0

\* How many references of the connection, with this use and watch, are to t.
Held(u, w, t) == One(u = t) + One(t \in w)

Exists(t) == refs[t] > 0

RefInit ==
  /\ refs = [t \in Tubes |-> One(t = DefaultTube)]
  /\ use = [c \in Clients |-> NoTube]
  /\ watch = [c \in Clients |-> {}]
  /\ jobs = [t \in Tubes |-> 0]
  /\ copies = [t \in Tubes |-> 0]
  /\ made = [t \in Tubes |-> 0]

\* Only a change of c->use gives references back.
Rereference_Fault(c, u, w) ==
  /\ use' = [use EXCEPT ![c] = u]
  /\ watch' = [watch EXCEPT ![c] = w]
  /\ refs' = [t \in Tubes |-> refs[t] + One(u = t) - One(use[c] = t) + One(t \in w \ watch[c])]
  /\ made' = [t \in Tubes |-> IF refs'[t] = 0 THEN 0 ELSE made[t]]

\* tube_iref of what c refers to now and tube_dref of what it has left.  Each
\* handler counts the new reference before it gives the old one back, so that a
\* tube that is in both is not freed in between.  A tube that was freed and is
\* named again is a new one.
Rereference(c, u, w) ==
  /\ use' = [use EXCEPT ![c] = u]
  /\ watch' = [watch EXCEPT ![c] = w]
  /\ refs' = [t \in Tubes |-> refs[t] + Held(u, w, t) - Held(use[c], watch[c], t)]
  /\ made' = [t \in Tubes |-> IF refs'[t] = 0 THEN 0 ELSE made[t]]

\* conn_create.
Connect(c) ==
  /\ use[c] = NoTube
  /\ Rereference(c, DefaultTube, {DefaultTube})
  /\ UNCHANGED <<jobs, copies>>

\* OP_USE: tube_find_or_create.
Use(c, t) ==
  /\ use[c] # NoTube
  /\ Rereference(c, t, watch[c])
  /\ UNCHANGED <<jobs, copies>>

\* OP_WATCH.
Watch(c, t) ==
  /\ use[c] # NoTube
  /\ Rereference(c, use[c], watch[c] \union {t})
  /\ UNCHANGED <<jobs, copies>>

\* OP_IGNORE of a tube that is watched and is not the only one.
Ignore(c, t) ==
  /\ t \in watch[c] /\ watch[c] # {t}
  /\ Rereference(c, use[c], watch[c] \ {t})
  /\ UNCHANGED <<jobs, copies>>

\* conn_free: set_clear(&c->watch), then the reference of c->use.
Close(c) ==
  /\ use[c] # NoTube
  /\ Rereference(c, NoTube, {})
  /\ UNCHANGED <<jobs, copies>>

\* tube_iref of one more job or copy.
CountOne(t) ==
  /\ made[t] < MaxIrefs
  /\ made' = [made EXCEPT ![t] = @ + 1]
  /\ refs' = [refs EXCEPT ![t] = @ + 1]

\* job_create in OP_PUT, for the tube the client uses.
JobCreate(t) ==
  /\ \E c \in Clients : use[c] = t
  /\ CountOne(t)
  /\ jobs' = [jobs EXCEPT ![t] = @ + 1]
  /\ UNCHANGED <<use, watch, copies>>

\* job_copy, for a peek or a job that is being sent when it times out.
JobCopy(t) ==
  /\ jobs[t] > 0
  /\ CountOne(t)
  /\ copies' = [copies EXCEPT ![t] = @ + 1]
  /\ UNCHANGED <<use, watch, jobs>>

\* Two references are given back for each job.
JobFree_Fault(t) ==
  /\ jobs[t] > 0
  /\ jobs' = [jobs EXCEPT ![t] = @ - 1]
  /\ refs' = [refs EXCEPT ![t] = IF @ < 2 THEN 0 ELSE @ - 2]
  /\ UNCHANGED <<use, watch, copies, made>>

\* job_free of a job.
JobFree(t) ==
  /\ jobs[t] > 0
  /\ jobs' = [jobs EXCEPT ![t] = @ - 1]
  /\ UNCHANGED <<refs, use, watch, copies, made>>

\* job_free of a copy, in conn_reset.
CopyFree(t) ==
  /\ copies[t] > 0
  /\ copies' = [copies EXCEPT ![t] = @ - 1]
  /\ UNCHANGED <<refs, use, watch, jobs, made>>

RefNext ==
  \/ \E c \in Clients : Connect(c) \/ Close(c)
  \/ \E c \in Clients, t \in Tubes : Use(c, t) \/ Watch(c, t) \/ Ignore(c, t)
  \/ \E t \in Tubes : JobCreate(t) \/ JobCopy(t) \/ JobFree(t) \/ CopyFree(t)

RefSpec == RefInit /\ [][RefNext]_refVars

-----------------------------------------------------------------------------

\* Every variable has its type, and a slot without a connection refers to no tube.
RefTypeOK ==
  /\ refs \in [Tubes -> Nat]
  /\ use \in [Clients -> Tubes \union {NoTube}]
  /\ watch \in [Clients -> SUBSET Tubes]
  /\ jobs \in [Tubes -> Nat] /\ copies \in [Tubes -> Nat] /\ made \in [Tubes -> Nat]
  /\ \A c \in Clients : use[c] = NoTube => watch[c] = {}

Users(t) == Cardinality({c \in Clients : use[c] = t}) + Cardinality({c \in Clients : t \in watch[c]})

\* No tube is freed under its users: its count is never below the connections
\* that use or watch it and the jobs that are in it, in whatever order clients
\* change tubes and go.
CountCoversUsers == \A t \in Tubes : refs[t] >= Users(t) + jobs[t] + copies[t]

\* A tube in which no job was ever put goes with the last client that uses or
\* watches it.  One that ever held a job stays, as job_free gives no reference
\* back, although doc/protocol.txt 116 says that an empty tube to which no client
\* refers will be deleted.
UnusedTubesDeleted ==
  \A t \in Tubes \ {DefaultTube} : Users(t) + made[t] = 0 => ~ Exists(t)

\* A count is made up of one reference for each user, one for default_tube and one
\* for each job or copy that was made: job_free gives none back.
RefInv ==
  /\ RefTypeOK
  /\ \A t \in Tubes : /\ refs[t] = One(t = DefaultTube) + Users(t) + made[t]
                      /\ jobs[t] + copies[t] <= made[t]

=============================================================================
