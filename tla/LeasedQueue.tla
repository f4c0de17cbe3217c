----------------------------- MODULE LeasedQueue -----------------------------
(***************************************************************************)
(* The Redis list queue with processing leases: RedisQueue of the analysis *)
(* worker, the result side of the controller's RedisControllerQueue and    *)
(* the AI worker's RedisAIAnalysisWorkerQueue, which are three copies of   *)
(* one protocol.                                                           *)
(*                                                                         *)
(* A Redis command or script is one atomic step; between two commands of   *)
(* one call any other consumer may run, and the consumer may crash.  The   *)
(* bodies of the messages are opaque: a list removes by value (LREM), and  *)
(* a lease is a member of a sorted set under the message itself, so equal  *)
(* messages share one lease.                                               *)
(***************************************************************************)
EXTENDS QueueOps, Lists, FiniteSets

CONSTANTS
    Messages,       \* raw message bodies
    Consumers,      \* processes that receive from this queue
    None,           \* no message
    Modes,          \* what a behaviour allows: copies, the equal copies that may be
                    \* outstanding at a time, and crash, the places in a consumer's
                    \* loop where it may crash
    MaxPushes,      \* bound: copies of a message ever pushed
    MaxFaults       \* bound: crashes, failed completions, early expiries

ASSUME QueueConstants ==
    /\ None \notin Messages
    /\ MaxPushes \in Nat /\ MaxFaults \in Nat
    /\ Modes \subseteq [copies : Nat, crash : SUBSET {"recovering", "leasing", "holding"}]

VARIABLES
    waiting,        \* the jobs list; its head is the newest, its tail the next out
    processing,     \* copies of each message on the processing list
    lease,          \* the leases sorted set: "none", "live" or "expired"
    pc,             \* where each consumer is in its loop
    held,           \* the message a consumer has popped
    scan,           \* the expired receipts a consumer read and has yet to requeue
    produced,       \* history: copies pushed
    settled,        \* history: copies taken off the processing list by complete
    faults,         \* faults so far
    mode            \* the mode of this behaviour

vars == <<waiting, processing, lease, pc, held, scan, produced, settled, faults, mode>>

WaitingCopies(m) == Cardinality({i \in DOMAIN waiting : waiting[i] = m})

Holds(c, m) == pc[c] = "holding" /\ held[c] = m

Init ==
    /\ waiting = << >>
    /\ processing = [m \in Messages |-> 0]
    /\ lease = [m \in Messages |-> "none"]
    /\ pc = [c \in Consumers |-> "idle"]
    /\ held = [c \in Consumers |-> None]
    /\ scan = [c \in Consumers |-> {}]
    /\ produced = [m \in Messages |-> 0]
    /\ settled = [m \in Messages |-> 0]
    /\ faults = 0
    /\ mode \in Modes

\* A producer pushes a message (LPUSH).
PushMessage(m) ==
    /\ WaitingCopies(m) + processing[m] < mode.copies
    /\ produced[m] < MaxPushes
    /\ waiting' = <<m>> \o waiting
    /\ produced' = [produced EXCEPT ![m] = @ + 1]
    /\ UNCHANGED <<processing, lease, pc, held, scan, settled, faults, mode>>

\* The visibility timeout passes.  It is not renewed while a message is being
\* worked on, so it may pass under a consumer that is still busy; that counts
\* as a fault.
Expire(m) ==
    /\ lease[m] = "live"
    /\ lease' = [lease EXCEPT ![m] = "expired"]
    /\ IF \E c \in Consumers : Holds(c, m)
       THEN faults < MaxFaults /\ faults' = faults + 1
       ELSE UNCHANGED faults
    /\ UNCHANGED <<waiting, processing, pc, held, scan, produced, settled, mode>>

\* Mutant of ScanExpired: receive without recover_expired.
ScanNothing(c) ==
    /\ pc[c] = "idle"
    /\ pc' = [pc EXCEPT ![c] = "recovering"]
    /\ UNCHANGED <<waiting, processing, lease, held, scan, produced, settled, faults, mode>>

\* receive begins with recover_expired, which reads the expired receipts ...
ScanExpired(c) ==
    /\ pc[c] = "idle"
    /\ pc' = [pc EXCEPT ![c] = "recovering"]
    /\ scan' = [scan EXCEPT ![c] = {m \in Messages : lease[m] = "expired"}]
    /\ UNCHANGED <<waiting, processing, lease, held, produced, settled, faults, mode>>

\* Mutant of RequeueScript: the LPUSH does not depend on what LREM removed.
RequeueAlways(m) ==
    /\ processing' = [processing EXCEPT ![m] = IF @ > 0 THEN @ - 1 ELSE 0]
    /\ waiting' = <<m>> \o waiting
    /\ lease' = [lease EXCEPT ![m] = "none"]

\* The script of _requeue.  It trusts the receipt it is given: it does not look
\* at the lease's expiry again.
RequeueScript(m) ==
    /\ IF processing[m] > 0
       THEN /\ processing' = [processing EXCEPT ![m] = @ - 1]
            /\ waiting' = <<m>> \o waiting
       ELSE UNCHANGED <<processing, waiting>>
    /\ lease' = [lease EXCEPT ![m] = "none"]

\* ... and requeues them one by one.
Requeue(c, m) ==
    /\ pc[c] = "recovering"
    /\ m \in scan[c]
    /\ RequeueScript(m)
    /\ scan' = [scan EXCEPT ![c] = @ \ {m}]
    /\ UNCHANGED <<pc, held, produced, settled, faults, mode>>

\* BRPOPLPUSH moves the oldest message to the processing list.
Pop(c) ==
    /\ pc[c] = "recovering"
    /\ scan[c] = {}
    /\ waiting # << >>
    /\ LET m == LastOf(waiting) IN
       /\ waiting' = FrontOf(waiting)
       /\ processing' = [processing EXCEPT ![m] = @ + 1]
       /\ held' = [held EXCEPT ![c] = m]
    /\ pc' = [pc EXCEPT ![c] = "leasing"]
    /\ UNCHANGED <<lease, scan, produced, settled, faults, mode>>

\* BRPOPLPUSH timed out on an empty list: receive returns None.
PopNothing(c) ==
    /\ pc[c] = "recovering"
    /\ scan[c] = {}
    /\ waiting = << >>
    /\ pc' = [pc EXCEPT ![c] = "idle"]
    /\ UNCHANGED <<waiting, processing, lease, held, scan, produced, settled, faults, mode>>

\* Mutant of AddLease: receive returns without adding the lease.
SkipLease(c) ==
    /\ pc[c] = "leasing"
    /\ pc' = [pc EXCEPT ![c] = "holding"]
    /\ UNCHANGED <<waiting, processing, lease, held, scan, produced, settled, faults, mode>>

\* ZADD of the lease, a command of its own after the pop.
AddLease(c) ==
    /\ pc[c] = "leasing"
    /\ lease' = [lease EXCEPT ![held[c]] = "live"]
    /\ pc' = [pc EXCEPT ![c] = "holding"]
    /\ UNCHANGED <<waiting, processing, held, scan, produced, settled, faults, mode>>

\* The script of complete (and ack): one copy off the processing list, if there
\* is one, and the lease off the sorted set.
Complete(c) ==
    /\ pc[c] = "holding"
    /\ LET m == held[c] IN
       /\ IF processing[m] > 0
          THEN /\ processing' = [processing EXCEPT ![m] = @ - 1]
               /\ settled' = [settled EXCEPT ![m] = @ + 1]
          ELSE UNCHANGED <<processing, settled>>
       /\ lease' = [lease EXCEPT ![m] = "none"]
    /\ pc' = [pc EXCEPT ![c] = "idle"]
    /\ held' = [held EXCEPT ![c] = None]
    /\ UNCHANGED <<waiting, scan, produced, faults, mode>>

\* The consumer dies, or a Redis call raises and the loop starts over: what the
\* consumer knew is gone, what Redis holds stays.  A RETRY of the worker and a
\* failed complete are the case "holding".
Crash(c) ==
    /\ pc[c] \in mode.crash
    /\ faults < MaxFaults
    /\ faults' = faults + 1
    /\ pc' = [pc EXCEPT ![c] = "idle"]
    /\ held' = [held EXCEPT ![c] = None]
    /\ scan' = [scan EXCEPT ![c] = {}]
    /\ UNCHANGED <<waiting, processing, lease, produced, settled, mode>>

ConsumerStep(c) ==
    \/ ScanExpired(c)
    \/ \E m \in Messages : Requeue(c, m)
    \/ Pop(c)
    \/ PopNothing(c)
    \/ AddLease(c)
    \/ Complete(c)

Next ==
    \/ \E m \in Messages : PushMessage(m) \/ Expire(m)
    \/ \E c \in Consumers : ConsumerStep(c) \/ Crash(c)

Spec == Init /\ [][Next]_vars

\* The consumers' loops keep running, and time passes.
FairSpec ==
    /\ Spec
    /\ \A c \in Consumers : WF_vars(ConsumerStep(c))
    /\ \A m \in Messages : WF_vars(Expire(m) /\ ~ \E c \in Consumers : Holds(c, m))
-----------------------------------------------------------------------------
TypeOK ==
    /\ waiting \in Seq(Messages)
    /\ processing \in [Messages -> Nat]
    /\ lease \in [Messages -> {"none", "live", "expired"}]
    /\ pc \in [Consumers -> {"idle", "recovering", "leasing", "holding"}]
    /\ held \in [Consumers -> Messages \cup {None}]
    /\ scan \in [Consumers -> SUBSET Messages]
    /\ produced \in [Messages -> 0 .. MaxPushes]
    /\ settled \in [Messages -> Nat]
    /\ faults \in 0 .. MaxFaults
    /\ mode \in Modes

\* The Redis commands implement the abstract at-least-once queue: whatever
\* the interleaving of pops, leases, stale requeues, completions and crashes,
\* no copy is lost or made up, and a copy is settled only from in flight.
Abstract == INSTANCE AtLeastOnceQueue WITH
    queue <- [waiting  |-> [m \in Messages |-> WaitingCopies(m)],
              inflight |-> processing]

ImplementsAtLeastOnceQueue == Abstract!QueueSpec

\* A copy on the processing list is on its way to a consumer or to the waiting
\* list: it has a lease that will run out, or the consumer that popped it is
\* about to add one.  Without either, recover_expired never sees it again.
\* For unique messages, as the job queue's identifiers make them.
NothingStranded ==
    mode.copies = 1 => \A m \in Messages :
        processing[m] > 0 =>
            \/ lease[m] # "none"
            \/ \E c \in Consumers : pc[c] = "leasing" /\ held[c] = m
=============================================================================
