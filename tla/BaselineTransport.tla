------------------------- MODULE BaselineTransport --------------------------
(***************************************************************************)
(* The calls of one controller into its baseline repository: the slots of  *)
(* BaselineTransport, the admission lease of computations, the repository's*)
(* lock, clients that go away, and shutdown.  A preview takes the lease and*)
(* then the lock; an approval takes the lock, looks for a retained receipt,*)
(* and then takes the lease; other calls only take the lock.               *)
(***************************************************************************)
EXTENDS Integers, FiniteSets

CONSTANTS
    Invocations, \* calls, with their kind: <<kind, number>>
    Slots        \* 2

ASSUME TransportConstants == Slots \in Nat \ {0} /\ \A i \in Invocations : i[1] \in {"preview", "approve", "plain"}

VARIABLES
    stage,     \* where the invocation's thread is
    awaited,   \* invocations whose client still waits
    freeSlots, \* BoundedSemaphore
    computing, \* who holds BaselineAdmission's lock
    repoLock,  \* who holds the repository's lock
    closing,   \* "open" | "closing" | "closed"
    outcome    \* what the invocation came to: "none" | "busy" | "answered"

transportVars == <<stage, awaited, freeSlots, computing, repoLock, closing, outcome>>

Nobody == <<"nobody", 0>>
Running == {i \in Invocations : stage[i] \notin {"new", "done"}}

TransportInit ==
    /\ stage = [i \in Invocations |-> "new"]
    /\ awaited = {} /\ freeSlots = Slots
    /\ computing = Nobody /\ repoLock = Nobody
    /\ closing = "open" /\ outcome = [i \in Invocations |-> "none"]

To(i, next) == stage' = [stage EXCEPT ![i] = next]
Answer(i, result) == outcome' = [outcome EXCEPT ![i] = result]

\* BaselineTransport.call.
Call(i) ==
    /\ stage[i] = "new" /\ closing # "closed"
    /\ IF closing = "closing" \/ freeSlots = 0
       THEN To(i, "done") /\ Answer(i, "busy") /\ UNCHANGED <<awaited, freeSlots>>
       ELSE /\ To(i, IF i[1] = "preview" THEN "lease" ELSE "lock")
            /\ awaited' = awaited \cup {i} /\ freeSlots' = freeSlots - 1 /\ UNCHANGED outcome
    /\ UNCHANGED <<computing, repoLock, closing>>

\* The thread ends: whatever it holds is released, then the slot.
Finish(i, result) ==
    /\ To(i, "done") /\ Answer(i, result)
    /\ freeSlots' = freeSlots + 1 /\ awaited' = awaited \ {i}
    /\ computing' = (IF computing = i THEN Nobody ELSE computing)
    /\ repoLock' = (IF repoLock = i THEN Nobody ELSE repoLock)

\* BaselineLease.acquire, which never waits.
AcquireLease(i) ==
    /\ stage[i] = "lease"
    /\ IF computing = Nobody
       THEN /\ computing' = i /\ To(i, IF repoLock = i THEN "work" ELSE "lock")
            /\ UNCHANGED <<freeSlots, awaited, repoLock, outcome>>
       ELSE Finish(i, "busy")
    /\ UNCHANGED closing

\* with self._lock.
LockRepository(i) ==
    /\ stage[i] = "lock" /\ repoLock = Nobody
    /\ repoLock' = i /\ To(i, IF i[1] = "approve" THEN "replay" ELSE "work")
    /\ UNCHANGED <<awaited, freeSlots, computing, closing, outcome>>

\* An approval's receipt is retained, or it has to be computed.
LookForReceipt(i) ==
    /\ stage[i] = "replay" /\ UNCHANGED closing
    /\ \/ Finish(i, "answered")
       \/ To(i, "lease") /\ UNCHANGED <<awaited, freeSlots, computing, repoLock, outcome>>

Work(i) == stage[i] = "work" /\ Finish(i, "answered") /\ UNCHANGED closing

DisconnectReleasing(i) ==
    /\ i \in awaited /\ awaited' = awaited \ {i} /\ freeSlots' = freeSlots + 1
    /\ UNCHANGED <<stage, computing, repoLock, closing, outcome>>

\* The client goes away; the task is shielded.
Disconnect(i) ==
    /\ i \in awaited /\ awaited' = awaited \ {i}
    /\ UNCHANGED <<stage, freeSlots, computing, repoLock, closing, outcome>>

Shutdown ==
    /\ closing = "open" /\ closing' = "closing"
    /\ UNCHANGED <<stage, awaited, freeSlots, computing, repoLock, outcome>>

\* gather over the pending tasks.
Drained ==
    /\ closing = "closing" /\ Running = {} /\ closing' = "closed"
    /\ UNCHANGED <<stage, awaited, freeSlots, computing, repoLock, outcome>>

ThreadStep(i) == AcquireLease(i) \/ LockRepository(i) \/ LookForReceipt(i) \/ Work(i)

TransportNext ==
    \/ Shutdown \/ Drained
    \/ \E i \in Invocations : Call(i) \/ Disconnect(i) \/ ThreadStep(i)

TransportFairness == (\A i \in Invocations : WF_transportVars(ThreadStep(i))) /\ WF_transportVars(Drained)

TransportSpec == TransportInit /\ [][TransportNext]_transportVars /\ TransportFairness
-----------------------------------------------------------------------------
\* No more than Slots invocations run, whether or not their clients still wait,
\* and a slot, the lease or the lock is held by one that runs (BaselineTransport.call,
\* lines 266-298; BaselineLease, lines 22-51).  Nothing is at work in the store after
\* shutdown() returned.
NothingLeaks ==
    /\ Cardinality(Running) + freeSlots = Slots
    /\ {computing, repoLock} \ {Nobody} \subseteq Running
    /\ closing = "closed" => Running = {} /\ repoLock = Nobody
=============================================================================
