--------------------------- MODULE LiveIndexQueue ---------------------------
(***************************************************************************)
(* The queue of structural index tasks of live capture segments, as the    *)
(* in-memory and SQLite repositories keep it (pcap_offset_index_queue.py): *)
(* every operation runs under the repository's lock.  It is the abstract   *)
(* specification the PostgreSQL queue of PcapIndex implements.             *)
(*                                                                         *)
(* A segment has a wish (index_intent_state) and at most one task.  lease  *)
(* counts the ticks until lease_expires_at, ready says that                *)
(* next_attempt_at has come; the token of a lease is its attempt.          *)
(***************************************************************************)
EXTENDS Integers, FiniteSets

CONSTANTS
    Segments,
    Capacity,   \* capacity of the queue
    MaxTries,   \* max_attempts
    LeaseTicks  \* lease_seconds

VARIABLES wish, task

queueVars == <<wish, task>>

NoTask == [status |-> "none", attempt |-> 0, lease |-> 0, ready |-> FALSE]

Tasks == [status : {"none", "QUEUED", "RUNNING", "COMPLETED", "FAILED"},
          attempt : 0 .. MaxTries, lease : 0 .. LeaseTicks, ready : BOOLEAN]

ActiveTasks == {s \in Segments : task[s].status \in {"QUEUED", "RUNNING"}}

Holds(s) == task[s].status = "RUNNING" /\ task[s].lease > 0

Mark(s, state) == wish' = [wish EXCEPT ![s] = state]

Put(s, row) == task' = [task EXCEPT ![s] = row]

Init ==
    /\ wish = [s \in Segments |-> "none"]
    /\ task = [s \in Segments |-> NoTask]

\* A segment that asks for an index is stored.
Request(s) ==
    /\ wish[s] = "none"
    /\ Mark(s, "PENDING") /\ UNCHANGED task

admit(s) ==
    /\ task[s] = NoTask /\ wish[s] \in {"PENDING", "DEFERRED"}
    /\ IF Cardinality(ActiveTasks) >= Capacity
       THEN Mark(s, "DEFERRED") /\ UNCHANGED task
       ELSE Mark(s, "PENDING") /\ Put(s, [NoTask EXCEPT !.status = "QUEUED", !.ready = TRUE])

claim(s) ==
    /\ task[s].status = "QUEUED" /\ task[s].ready
    /\ Put(s, [task[s] EXCEPT !.status = "RUNNING", !.attempt = @ + 1, !.lease = LeaseTicks])
    /\ UNCHANGED wish

heartbeat(s) ==
    /\ Holds(s)
    /\ Put(s, [task[s] EXCEPT !.lease = LeaseTicks]) /\ UNCHANGED wish

complete(s) ==
    /\ Holds(s)
    /\ Put(s, [task[s] EXCEPT !.status = "COMPLETED", !.lease = 0])
    /\ Mark(s, "COMPLETED")

fail(s, transient) ==
    LET retry == transient /\ task[s].attempt < MaxTries IN
    /\ Holds(s)
    /\ Put(s, [task[s] EXCEPT !.status = IF retry THEN "QUEUED" ELSE "FAILED", !.lease = 0,
                              !.ready = ~retry])
    /\ Mark(s, IF retry THEN "PENDING" ELSE "FAILED")

recover(s) ==
    LET retry == task[s].attempt < MaxTries IN
    /\ task[s].status = "RUNNING" /\ task[s].lease = 0
    /\ Put(s, [task[s] EXCEPT !.status = IF retry THEN "QUEUED" ELSE "FAILED", !.ready = TRUE])
    /\ Mark(s, IF retry THEN "PENDING" ELSE "FAILED")

cleanup_terminal(s) ==
    /\ task[s].status \in {"COMPLETED", "FAILED"}
    /\ Put(s, NoTask) /\ UNCHANGED wish

\* reconcile only chooses the segments it admits again.
reconcile == \E s \in Segments : admit(s)

\* The job of the segment is deleted, and the segment with it.
Remove(s) ==
    /\ wish[s] \notin {"none", "gone"}
    /\ Mark(s, "gone") /\ Put(s, NoTask)

\* Time passes for one task.
Tick(s) ==
    /\ \/ task[s].status = "RUNNING" /\ task[s].lease > 0
          /\ Put(s, [task[s] EXCEPT !.lease = @ - 1])
       \/ task[s].status = "QUEUED" /\ ~task[s].ready
          /\ Put(s, [task[s] EXCEPT !.ready = TRUE])
    /\ UNCHANGED wish

Next ==
    \/ reconcile
    \/ \E s \in Segments :
           \/ Request(s) \/ claim(s) \/ heartbeat(s) \/ complete(s) \/ recover(s)
           \/ cleanup_terminal(s) \/ Remove(s) \/ Tick(s)
           \/ \E transient \in BOOLEAN : fail(s, transient)

Spec == Init /\ [][Next]_queueVars
=============================================================================
