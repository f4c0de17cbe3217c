-------------------------- MODULE AtLeastOnceQueue --------------------------
(***************************************************************************)
(* The abstract at-least-once queue.  Every copy that was produced is      *)
(* waiting, in flight or settled, and only the copies in flight can be     *)
(* settled: this is the contract the analysis pipeline relies on.          *)
(***************************************************************************)
EXTENDS QueueOps

CONSTANT Messages

VARIABLES
    queue,      \* the copies waiting and in flight
    produced,   \* copies pushed so far, per message
    settled     \* copies settled so far, per message

abstractVars == <<queue, produced, settled>>

QueueInit ==
    /\ queue = EmptyQueue(Messages)
    /\ produced = [m \in Messages |-> 0]
    /\ settled = [m \in Messages |-> 0]

ProduceCopy(m) ==
    /\ queue' = Push(queue, m)
    /\ produced' = [produced EXCEPT ![m] = @ + 1]
    /\ UNCHANGED settled

DeliverCopy(m) ==
    /\ queue.waiting[m] > 0
    /\ queue' = Deliver(queue, m)
    /\ UNCHANGED <<produced, settled>>

RedeliverCopy(m) ==
    /\ queue.inflight[m] > 0
    /\ queue' = Redeliver(queue, m)
    /\ UNCHANGED <<produced, settled>>

SettleCopy(m) ==
    /\ queue.inflight[m] > 0
    /\ queue' = Settle(queue, m)
    /\ settled' = [settled EXCEPT ![m] = @ + 1]
    /\ UNCHANGED produced

QueueNext ==
    \E m \in Messages :
        ProduceCopy(m) \/ DeliverCopy(m) \/ RedeliverCopy(m) \/ SettleCopy(m)

QueueSpec == QueueInit /\ [][QueueNext]_abstractVars
=============================================================================
