----------------------------- MODULE PortMailbox -----------------------------
(***************************************************************************)
(* The mailbox of the master thread, iolink_main.c.  Every layer above the  *)
(* data link runs in that thread, one job at a time in the order of         *)
(* posting: a call to another layer fetches a job from the pool, names its  *)
(* callback and posts it.  The data link thread and the application post    *)
(* to the same mailbox.                                                     *)
(*                                                                         *)
(* A job is a record: its type stands for the callback, the other fields    *)
(* for what the callback reads of the job.                                  *)
(***************************************************************************)
EXTENDS Naturals, Sequences, FiniteSets

VARIABLE jobs     \* the jobs posted and not yet handled, oldest first

Job(type)         == [type |-> type]
JobArg(type, arg) == [type |-> type, arg |-> arg]

\* iolink_main has fetched the oldest job and calls its callback.
Due(type)      == jobs # <<>> /\ Head(jobs).type = type
DueArg(type)   == Head(jobs).arg

\* The job is done, and its callback posted these.
Handled(posts) == jobs' = Tail(jobs) \o posts
\* Another thread posted these.
Posted(posts)  == jobs' = jobs \o posts

Pending(type)  == {i \in DOMAIN jobs : jobs[i].type = type}
=============================================================================
