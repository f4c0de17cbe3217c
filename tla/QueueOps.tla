------------------------------ MODULE QueueOps ------------------------------
(***************************************************************************)
(* What the Redis-backed queues of the system promise to the code that     *)
(* uses them, as operators on a queue record.  A copy of a message is      *)
(* waiting, or in flight with some consumer.  A copy in flight may come    *)
(* back at any moment (its lease ran out), and leaves for good only when a *)
(* consumer settles it.  Order between messages is not promised.           *)
(*                                                                         *)
(* AtLeastOnceQueue turns these operators into a specification, and        *)
(* LeasedQueue shows that the Redis code implements it.  AnalysisPipeline  *)
(* uses the operators for its two queues.                                  *)
(***************************************************************************)
EXTENDS Naturals

\* The queues over the messages M.
Queues(M) == [waiting : [M -> Nat], inflight : [M -> Nat]]

EmptyQueue(M) == [waiting |-> [m \in M |-> 0], inflight |-> [m \in M |-> 0]]

\* LPUSH on the waiting list.
Push(q, m) == [q EXCEPT !.waiting[m] = @ + 1]

\* BRPOPLPUSH from the waiting to the processing list, and the lease.
Deliver(q, m) == [q EXCEPT !.waiting[m] = @ - 1, !.inflight[m] = @ + 1]

\* The requeue of a message whose lease has expired.
Redeliver(q, m) == [q EXCEPT !.waiting[m] = @ + 1, !.inflight[m] = @ - 1]

\* LREM of one copy from the processing list.  It finds none when the copy
\* has already gone back to the waiting list, or another consumer took it off.
Settle(q, m) == IF q.inflight[m] > 0 THEN [q EXCEPT !.inflight[m] = @ - 1] ELSE q

Outstanding(q, m) == q.waiting[m] > 0 \/ q.inflight[m] > 0
=============================================================================
